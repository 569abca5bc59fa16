# ork.build in TLA+

ork.build (`obt`) builds large dependency trees on developer machines and, since
its `obtnet` layer, on a small network of build nodes. Two parts of it carry the
state that is hard to get right: the **dependency pipeline**
(`src/bin_priv/obt.dep.pipeline.py`), where a dispatcher and two thread pools walk
a DAG and whatever was killed has to be resumable, and **obtnet**
(`src/scripts/obt/net/`), where a controller relays commands to nodes that run
jobs for clients, and clients put trees, repositories and messages on nodes that
other people work on at the same time. This directory models the pipeline and what
has state in obtnet (controller, jobs, cache, uploads, tree sync, git sync, messages),
and besides the master and workers of the docker CI
(`src/modules/docker/cicd/ci_impl/`).

The code is the reference: an action is a whole handler or the stretch of code
between two points at which another thread, process or machine can get in.
`PROJECT.json` maps each definition to the lines it stands for.

## The system

| Component | State | Operations | Interacts with |
|---|---|---|---|
| pipeline, `obt.dep.pipeline.py` | `_state`, `_providers`, `_fetch_only_set`, `_halt`, under `_cond` | plan, one scheduler iteration, fetch and build jobs, verdict, `--serial` loop | providers (calls), chain |
| providers, `_dep_provider.py`, and the chain, `_dep_x.py`, `_dep_node.py` | manifests on disk, source and build trees | `should_build`, `fetch_only`, `build_and_install`, closure and order | pipeline |
| obtnet node, `node.py` | jobs registry, job queue, per-job directory, tree, cache | job_submit, job_status, job_cancel, worker loop, blob_put, tree verbs | controller (ZMQ), processes, cache |
| upload cache, `upload_cache.py` | files named by hash | `put`, `has`, `get`, `materialize`, `fetch_chunk` | worker, control and fetch threads of the node |
| controller, `controller.py` | registry of nodes, relay pool | connect, ping, list, relay, event proxy | nodes, clients |
| tree sync, `tree_sync.py`, `client.py`, `node.py` | push log on the client, work trees on both sides | manifest, diff, dirt guard, upload, apply, pull | upload cache, people who edit the trees |
| git sync, `client.py` | repositories and LFS stores on both sides | read, judge, bundle, fetch, stage, checkout, verify | git, tree sync, people who commit on the node |
| messages, `client.py`, `obt.net.msg.deposit.py` | inbox, `acked/`, stream of a seat | route, broadcast, deposit, acknowledge | relay or ssh, the seat's owner |
| docker CI, `modules/docker/cicd/ci_impl` | master: a record per worker and variant; worker: its state machine | one request per state, result of a build | ZMQ, mirror of the upstream |

What makes them hard:

- *Interleaving.* The dispatcher decides on a snapshot while workers finish; a
  node's control, fetch and worker threads share jobs and cache, partly without
  a lock; a client polls while a worker publishes in several steps.
- *Kill and restart.* Manifests, `.tmp` and `.part` files and detached processes
  survive, registries and queues do not.
- *Partial failure.* One dep, one input, one exception must take down what depends
  on it and nothing else.
- *Late messages.* A client that timed out has not recalled its request.
- *Looks that grow old.* A sync, a broadcast, the CI's master look at something in one
  request and act on it in a later one.

The components not modelled, with the reasons, and the hazards, each at its line
and with the property that covers it, are listed in `PROJECT.json`.

## Modules

| Module | Models | Kind |
|---|---|---|
| `DagBuild` | what a run of the builder promises, whatever its schedule | abstract specification |
| `DepPipeline` | plan, dispatcher, both pools, cascade, verdict, kill | detailed, refines `DagBuild` |
| `SerialPipeline` | the whole program: runs of the pools and of the `--serial` loop on the same manifests | extends `DepPipeline`, refines `DagBuild` |
| `DepChain` | the chain: which providers the targets bring in, and their order | operators |
| `PipelineProofs` | finite sets under a strict total order; `DepPipeline`: types, order of builds, kills, verdict, pools, prefetch, justified failures, refinement; the same of `SerialPipeline` | proofs |
| `Fleet` | what may be relied on of the registry of nodes | abstract specification |
| `Registry` | the controller's registry and event proxy, the nodes' heartbeats | detailed, refines `Fleet` |
| `Relay` | the controller's relay pool, a node's control loop, waiting clients, over any `Fleet` | detailed, composed with `Fleet` |
| `ControllerProofs` | theorems about `Registry` and `Relay` | proofs |
| `NodeJobs` | registry, queue, workers, processes, polls of one node | detailed |
| `NodeJobsProofs` | theorems about `NodeJobs` | proofs |
| `UploadCache` | `put` racing with itself and with readers for one hash | detailed |
| `BlobPut` | chunked upload into a shared `.part` | detailed |
| `CacheProofs` | theorems about `UploadCache` and `BlobPut` | proofs |
| `TreeFS` | directory trees, manifests, their difference, placing and removing an entry | operators |
| `TreeSync` | push and pull of a tree, dirt guard, push log, people on both sides | detailed, over `TreeFS` |
| `TreeSyncProofs` | lemmas about `TreeFS`, theorems about `TreeSync` | proofs |
| `GitSync` | git sync, people who edit, commit and switch branches on the node | detailed |
| `GitSyncProofs` | theorems about `GitSync` | proofs |
| `Messages` | routing, broadcast, deposit, acknowledgement, for one seat | detailed, takes what `Relay` promises for granted |
| `MessagesProofs` | theorems about `Messages` | proofs |
| `CiMaster` | master and workers of the docker CI | detailed |
| `CiMasterProofs` | theorems about `CiMaster` | proofs |
| `MCDepPipeline`, `MCRegistry`, `MCRelay`, `MCNodeJobs`, `MCUploadCache`, `MCBlobPut`, `MCTreeSync`, `MCGitSync`, `MCCiMaster`, `MCMessages` | instances for TLC | model checking |

Where one module of proofs is about two modules of the system, the two call their specifications by
different names (`RegistrySpec` and `RelaySpec`, `CacheSpec` and `UploadSpec`); elsewhere
it is `Spec`.

In each module a definition introduced by `\* Fault:` is a plausible bug in the
definition that follows it, used to see that a property notices. No specification
uses one.

### DepPipeline

`st` is `_state`, `manifest` the set of manifests on disk, `flags` the command
line of the current run, `phase` whether `main` is running and how it exited.

- `Plan` is `phase1_plan` with its closure `BuildReachable` (the least set closed
  under `Requires`, which is what the chain traversal computes) and the
  short-circuit on manifests. A run starts from any closed set of manifests.
- `Tick` is one iteration of `_dispatch_loop`, which holds `_cond` from its first
  test to its last. The scans fill lists in a loop with counters and breaks;
  the model says which set each scan takes (`ToFetch`, `ToBuild`), how far it gets
  (`Scanned`) and which deps it marks as doomed (`IsCascade`: the mark of a dep
  counts for the deps behind it in the same scan, so the set is the solution of an
  equation along the scan order). The two ways out of the loop, and the sweep of
  stuck deps, are disjuncts of `Tick`; leaving includes the verdict, because nothing runs
  between them.
- `FetchDone`, `FetchFail`, `BuildDone`, `BuildFail` are the pool jobs. A build
  touches the manifest last, then takes `_cond` to set DONE; a crash between the two
  leaves exactly what a crash after both leaves, for the states are not persistent,
  and no other thread of the run reads manifests, so they are one action.
- `Crash` is a kill. Only `manifest` matters afterwards.

Parameters are the graph and the command line, with the assumptions of the chain:
prerequisites come earlier in `Topo` (the chain orders dependencies first). The code
asks `supports_host` again in the plan and for the verdict, and so does the model (`Unsupported`),
but no unsupported dep gets that far. `serial_prelude` finds its list empty in the source and is left out. An interrupt
(Ctrl-C) leaves the dispatcher at once while the `with` statement waits for the jobs: in the
model, jobs that end with no `Tick` between them, and then `Crash`. Deployment
markers and subspaces are not modelled.

### SerialPipeline

Extends `DepPipeline` to the whole program. `serial` says which mode the current run has and
`todo` which deps the loop of `run_serial` has not come to; the other variables are
shared, since both modes plan with `phase1_plan` and leave their manifests to each other. `PoolPlan`
and `PoolTick` are the actions of the pools; `SerialPlan`, `Skip`, `Start` and `SerialReturn`
are the loop; `Ends` is a job of either. The loop differs where the code does: the host check
is in the loop, `should_build` is asked again when a dep's turn comes, nothing
looks at the states of prerequisites, the first failure ends the run, and `provide()` is called
whether or not a dep is only prefetched. `obt.dep.build.py` runs the same loop over
the chain of one target.

### DepChain

`Chain` is an algorithm without state: `Visited` is the depth-first visit that numbers
providers, `DepsFirst` the layers that `toposort_flatten` makes of them (the library is external),
`Instances` and `Refused` what becomes of prerequisites and targets the host does not
support. `MCDepPipeline` assumes of its instance that deps, order and build targets are what `DepsFirst`
makes of the declarations, and, for every graph of up to four deps, every order of declarations,
every set of supported deps and one or two targets, that the list is the closure of the targets,
without duplicates, prerequisites first. TLC evaluates both with each run of the pipeline. They are the two
assumptions the pipeline makes of the chain: `GraphAssumption` and the meaning of `BuildReachable`.

### DagBuild and the refinements

`DagBuild` has no pools, slots, priorities or order: a dep `Starts` only when its
prerequisites are done, is `Doomed` only under a failed one, `verdict = "ok"` only when
everything needed is done, and "failed" only when something failed. The abstract
variables are the state functions given in `Promise` (pools) and `ProgramPromise`
(whole program): pending and fetching deps are waiting, both failures are failed, and in the
serial loop a dep still in `todo` is waiting even if the plan marked it, since
`--incremental` rebuilds it.

### Fleet, Registry and Relay

A node's name outlives its processes: a *daemon* is one life of a node process, with a
uuid and ports of its own, and `nodes` is `Controller.nodes` (name to daemon). `Fleet`
says what the relay may rely on: daemons start and die at any time, a record is that
of a started daemon of this name, records go at any time.

`Registry` is how the records come about. The heartbeat thread opens a socket per request
(`Ask`, `Hear`), and a request whose deadline passes (`MissedBeat`) or whose sender dies
stays in the ROUTER's queues with nobody to hear the reply (`open`). `Connect` and `Ping` are
`_h_connect` and `_h_ping` with the reply the main loop sends, `ListNodes` removes
what `Silence` (120 s without a ping) has marked, `Subscribe` is the part of the event proxy
that takes endpoints. The proxy's own traffic has no memory and is left out, as are
the contents of records.

`Relay` follows one request per member of `Clients`: `req` is what the client knows, `relay`
where the request is at the controller, `wire` where it is on its way to and in the node. The
main loop queues it (`Accept`), a thread looks the record up and sends (`Refuse`, `Send`), waits for
the node's reply or its deadline (`PassOn`, `RelayTimeout`), and the main loop sends the result
on (`Forward`). The node's control loop serves one request at a time (`Serve`), and a synchronous run
keeps it (`FinishRun`). Durations are not in the model: each deadline may pass at any moment,
which covers every order of the three limits (client, relay, node) that queueing can bring about.
A repeated command is another client. Every life of a node has an address of its own;
that a port is used again by another node is left out.

### NodeJobs

The control thread (`Submit`, `Cancel`), worker threads (`at[w]` says where worker w
is in `_worker_loop` / `_kind_command` / the judging kinds), processes (`proc`,
external), polling clients and a restart. A worker's program is cut where another
thread can see the difference: RUNNING set - process spawned - handle recorded - wait
returned - outputs collected and end state published under `jobs_lock` - status file
written - verdict computed - `job_done` sent. An exception may come at the steps that
touch files or patterns (`Raise`), and `_worker_loop` turns it into FAILED (`Catch`)
even when DONE has been published. Clients are the single-node verbs and the fleet
verbs, which differ in what they make of an empty summary.

### UploadCache

One content hash; names point to inodes and a writer's descriptor follows the inode,
which is the whole point: `os.replace` by one putter moves the file a second putter
has just truncated. `Crash` loses the descriptors and keeps names and contents; a write that fails
(`PutFails`, a full disk for one) raises and leaves what it has written under whatever name the inode has by
then. `cut` remembers either.

### BlobPut

Contents are sequences of chunks that are what the hash expects at that place or not.
`Serve` is `_h_blob_put` (r+b or wb open, seek, write, and on the last chunk hash, rename
or unlink). Clients read the file again when they push, so they may send something
else than they hashed; a client that times out leaves its request in the queue.

### TreeFS and TreeSync

A tree gives every path an entry: nothing, a directory, a file with a content (which stands for its
sha256) or a link. `Manifest`, `ToSend`, `ToLink`, `DstOnly` and `Classified` are
`build_manifest`, `diff_manifests` and `classify_diff`. `Place` and `Remove` are one turn of
`materialize_tree`, which works on paths, and a path goes through links: hence `Real`, the
directory that a link replaces, the parents that are made and the empty ones that are pruned.

`op` is the one `sync` the client runs: `Begin` - `NodeManifest` - `Guard` (the dirt
guard of `Client.sync`, which asks `git status` on the node and the push log) - `Send` per file,
read again - `AskApply` - `Applied`, `ApplyFailed`. A pull goes `Stage` - `PullStep` per
entry - `PullDone`. The node's fetch thread takes one request at a time and applies it entry by
entry (`ApplyStart`, `ApplyEntry`, `ApplyDelete`, `ApplyEnd`). `apply["late"]` is the
request of a client that gave up. People edit both sides at any moment, the push log may be torn,
the node may die. `work` holds the paths on the node with somebody's edit, `lost` how an edit was
destroyed (by `--force`, seen by the guard or made after it, by way of a link or not) and
`unlogged` what pushes changed there without writing it down. Three fields of `op` are history:
`seen`, the work that neither HEAD nor the push log accounts for when the guard asks (`Own`;
work that happens to be what HEAD or the log has is not the guard's to tell from them), `into`, the destination as it was when the
manifests were compared, directories included, and `began`, what had happened when the sync began.

A tree has two levels, which is an assumption (`PathAssumption`): a path is a name or a name
in a directory, and with a path its directory is there, and the same name in any other
directory, for that is where a link may lead. The proofs rest on it.

### GitSync

`Client.gitsync`, one action per request to the node: `ReadHead`, `ReadDirt`, `Judge` (the
hashes of the dirty files against push log and work tree, then the ancestor check), `Fetch` (the
bundle), `StageObjects` (`_lfs_stage_missing`), `CheckUntracked` (`_classify_debris`),
`git checkout [-f] -B`, `VerifyHead`, `ScanPointers`. Between any two of them people edit, commit
or switch branches on the node and edit, commit or push unfinished work on the client.

Requests fail. Most failures end the gitsync (`GiveUp`), and three do not:

- a `git status` that fails is a clean one, for its exit status is not read (`DirtUnread`);
- staging is skipped on a client without git-lfs, and raises when the node's store is not readable, the objects
  exceed the limit or what was sent does not verify (`StageObjects`, `missed` then has `"objects"`);
- a listing of LFS files that fails, is late or comes from a node without git-lfs is taken for one without
  pointers (`ScanPointers`, `missed` then has `"scan"`).

The last two need no fault to happen and are not bounded. A checkout
is refused by git (`CheckoutRefused`), dies half way (`CheckoutDies`), or ends, with pointers in
place of content where the filter is optional or told to skip. What dies half way is a checkout with a required
smudge filter and without its object, or one that is killed: the node ends a run that is out of time with
SIGKILL, and then `.git/index.lock` stays (`lock`), over which every later checkout, commit and switch
fails until somebody removes it by hand (`Unlock`). What git
does is external and modelled as far as the code relies on it: status, untracked files, what
checkout writes with and without `-f`, its lock, and that a pointer in place of its content is no change.

`work` holds the files on the node with content that neither HEAD nor a push put there,
`seen` those of them that the gitsync has looked at and the client does not hold itself, `lost` and `dropped` the
uncommitted work and the commits that a checkout took away, and how.

### Messages

One seat that a sender knows under two names: as node of its own controller and as entry of its
sshhosts. `Classify` and `Send` look up the route of the next target, each for itself, `Hear` and
`GiveUp` end the wait. A deposit picks a name that no file has (`Begin`), renames its file
into place (`Replace`) and appends to the stream (`AppendLine`); it may fail or be killed in between, and
a restart of the node makes it an orphan that nothing runs one at a time any more. The
roster changes (`Shift`), the owner acknowledges (`Ack`, which replaces an acknowledged
namesake).

### CiMaster

`Handle` dispatches to one action per handler of `_masterimpl.py`; `Ask` and `Receive` are the
worker's machine. A worker process that dies leaves its request with the master's socket
(`stale`), which serves it after the new process's first; a restart of the master empties its records while workers
are anywhere in their cycle. A handler that raises ends the only thread (`alive`). The upstream has
commits of two branches, which may appear late, be pushed away by force or be deleted (`ForcePush`,
`DeleteBranch`; `gone` holds the commits no branch reaches any more). The master's mirror is never pruned, so that a deleted
branch goes on being built.

The worker looks neither at the exit status of `worker_fetch_branch.py` nor that script at those of clone and
checkout. `Build` therefore keeps two things apart: `sha`, which the worker was told and reports for, and
`tree`, which is there to build. The two differ when clone or checkout fail (`CheckoutFails`), and may differ when the
commit is `gone`, for a fresh clone need not bring it: then the tree is the head of some branch, as the
clone left it, or nothing (`NoSha`, which also stands for a clone that ended half way).

## Runs

Twelve runs. The ten that pass:

| Run | Instance | Distinct states | Shows |
|---|---|---|---|
| `pipeline` | 6 deps as the chain lists them, both modes, 2+2 threads, serial dep, contradicting priority, prefetch, five command lines, unbounded number of runs and kills | 39 439 | prerequisites first, pool bounds, no false failure, manifests closed, exit 0 is the truth, `DagBuild` refined, every run returns |
| `node_jobs` | 2 jobs (one judged), 2 workers, 1 restart | 755 960 | no process behind a terminal state, one holder per job, cancelled only on request and by a signal, OK means exit 0, every queued job is announced, the announcement is final |
| `upload_cache` | 3 putters, 4 inodes, kills and failing writes | 37 808 | what the race cannot break: torn only while being written, eventually whole |
| `blob_put` | 2 clients, content of 2 chunks, files of up to 3, 3 faults | 133 658 | published is good, ok is published, uploads do not harm each other, spoilt parts heal |
| `registry` | one node with 2 lives, 2 faults | 47 442 | heartbeats and replies pair up, `Fleet` refined, the living node ends up listed and watched |
| `relay` | 2 requests (one a run) for a node with 2 lives, 1 relay thread, 1 restart | 80 261 | clients are told the truth, silence has a cause, the pool drains |
| `tree_sync` | 2 directories of one file each, two local trees with a link or a file in place of a directory, four option sets, 2 edits, 1 fault | 1 651 083 | links aside the guard protects what it saw, refuses only for people's work or what pushes left unlogged, an undisturbed sync makes the sides agree |
| `git_sync` | 3 files (one LFS), 3 commits of the client and one of the node, 2 branches, 3 filters, 2 edits, 1 fault, any number of skipped stagings and failed listings | 3 264 103 | work that was looked at survives, commits that were read survive, ok means aligned, and with content while either guard against pointers (filter, listing) works, litter of aborted checkouts heals but for a lock |
| `ci_master` | 1 worker with 2 variants on 2 branches, 2 commits each, 2 faults (restarts, failing fetches and checkouts, rewritten branches) | 686 212 | a result is that of a worker told to build this variant at a commit not older than shown, and of that commit unless clone or checkout failed or the commit was pushed away; requests in any order do not kill the master, every variant is built again and again |
| `messages` | 2 messages that compete for a name, 2 aliases, 1 roster change, 1 fault, symmetry in the messages | 1 111 547 | no stream line without a file, the node's inbox loses nothing, ok means deposited, one deposit per seat under a steady roster |

The two that end in a counterexample, each a sentence of the source that the code
does not keep:

| Run | Sentence | What happens |
|---|---|---|
| `verdict` | `node.py:461`, ok iff rc is 0 and no error lines | a poll between DONE and the summary: good builds reported bad, and in fleet verbs the reverse |
| `atomic_publish` | `upload_cache.py:37`, atomic publish | a second putter truncates the inode that the first publishes |

Nine more configurations are kept beside these runs, to be run by hand; each ends in a
counterexample too:

| Configuration | Module | Sentence | What happens |
|---|---|---|---|
| `MCDepPipelinePlan.cfg` | `MCDepPipeline` | `obt.dep.pipeline.py:243`, the plan mirrors `should_build` | `--incremental` on a provisioned dep is planned as DONE, and the pools do nothing |
| `MCDepPipelinePrefetch.cfg` | `MCDepPipeline` | `obt.dep.pipeline.py:202`, fetched but NOT built | `--serial` builds prefetched deps |
| `MCNodeJobsCancel.cfg` | `MCNodeJobs` | `proto.py:41`, SIGTERM the pgid | a cancel that arrives before the handle is recorded signals nobody |
| `MCTreeSyncGuard.cfg` | `MCTreeSync` | `client.py:350`, refuses to clobber node-side edits | the guard does not look at links: a link takes the place of an edited file, or leads a later entry or deletion to it |
| `MCGitSyncForward.cfg` | `MCGitSync` | `client.py:852`, gitsync only fast-forwards | the ancestor check is about the node's HEAD, `checkout -B` resets the branch of the client's name, which may be another one and ahead: its commits are left without a branch |
| `MCGitSyncStubs.cfg` | `MCGitSync` | `client.py:934`, never let pointer text pass as a good sync | pointers of a checkout that failed are no change to git, and the scan of the next gitsync is about the files of its own commits |
| `MCGitSyncScan.cfg` | `MCGitSync` | `client.py:952`, every LFS path this sync wrote must be real content on disk now | the filter is told to skip, and the listing fails: `listing or []` |
| `MCCiMasterTold.cfg` | `MCCiMaster` | `worker_build_branch.py:64`, Running Job for Sha | the checkout of the commit fails, and the commands run over what is there |
| `MCMessagesLink.cfg` | `MCMessages` | `client.py:1105`, nothing was delivered | the relay's deadline passes, and the deposit goes on |

### What else the models bring out

Behaviour a user may not expect, each reachable in a model and confirmed in the source. For git sync and the CI
some of it breaks sentences of the source, which the table above quotes; for the rest the
source states no promise:

- *Git sync.* Commits of a branch that HEAD is not on are left without a branch (`OnlyFastForwards`), pointer
  text passes for a good sync when an earlier checkout has left it (`OkMeansContent`) or nobody lists it
  (`PointerScan`). A run that is out of time leaves a lock that no later gitsync gets past.
- *Tree sync.* A lost reply, an apply that failed half way or a torn log make the guard refuse the
  client's own content until `--force`. An empty directory, which no manifest shows, blocks a
  file of that name for ever. An edit between guard and apply is overwritten.
- *Messages.* Over ssh, or beside an orphan, two deposits of one second may take the same name, and one
  message is lost. A seat listed under two names gets a message twice when the roster changes
  between classification and sending. A deposit killed after its rename leaves a file without a line.
- *CI.* What is built may be newer than the commit shown, or another commit than the one the worker was told (`RanForSha`). A fetch that fails in a handler, or
  a restart of the master while a worker is past initialising, ends the master's thread.
- *Pipeline.* `--wipe` removes the source tree and leaves the manifest.

### Type invariants

Every module states its types (`TypeOK`, `ProgramTypeOK`, `CacheTypeOK` and so on), and each is a theorem.
The runs name only what a step of the code could really break.

### Why the bounds are enough

- *Pipeline.* The graph has what the scheduler can trip over: a shared prerequisite,
  a diamond, an independent dep, a prefetched dep hanging on a dep that is built, a dep that is
  built alone, a prerequisite the host does not support, and a priority that makes the scan meet a dependent before
  its prerequisites. Nothing is counted, so runs and kills are not bounded.
- *Registry.* Two lives of one node are what a stale record needs; nodes of other names
  have records, sockets and requests of their own. Two faults let a late Connect
  meet a restart of the controller or an expiry.
- *Relay.* One thread and two requests give a queue, a node that is busy or dead
  under a waiting thread, and a thread that has given up on a request the node still holds.
- *Jobs.* Two jobs and two workers give every race between two holders and between
  a queued and a running job; `MaxRestarts` is 1: a second
  restart finds nothing a first one did not leave. No symmetry is used, for the run
  checks liveness.
- *Cache.* Three putters: one may publish, one write, one be about to open. An inode
  per putter and one for the published name always suffice.
- *Upload.* A file one chunk longer than the content produces the stale tail, content
  of two chunks the gap and the interleaving. `MaxFaults` bounds changed files, timeouts
  and restarts together, so that three of them can combine.
- *Tree sync.* Two levels and two directories let a file, a link and a directory stand in each
  other's place and a link lead to a sibling. `MaxEdits` 2 lets an edit on each side, or two on one,
  meet one fault; the number of syncs is not bounded, so that what an earlier
  one left meets the next.
- *Git sync.* One commit of the node's own makes histories diverge; the client's second commit takes one
  file back to what it was and leaves the asset alone, so that content that looks right for
  another reason occurs. Two edits separate a look from the act that relies on it. With
  `MaxFaults` 2 (7.1 million states), and with every content in the hands of people on the node
  (10.4 million), the properties hold as well.
- *CI.* Workers share only the master's thread, which one worker can end as well as two. Two variants
  make the index move, two commits make a commit grow old, `MaxFaults` 2 lets restarts of
  both sides combine, and a rewritten branch or a failed checkout meet a restart.
- *Messages.* Two messages of one second, sender and subject compete for a name; a seat has two
  aliases in the code's own terms.

Deadlock is checked for the pipeline, the relay, the cache, the tree sync and the git sync. It is not in
`Registry`, which rests when every daemon is dead, in `NodeJobs`, `BlobPut` and `Messages`, where
the system comes to rest when no client wants anything more, and in `CiMaster`, which rests when
its master's thread is gone.

### Fairness

- Pipeline: `WF` of `PoolTick` (the dispatcher waits with a timeout of one second), of the steps of
  the serial loop, and of every job they started (a fetch or build process ends, well or badly).
  Nothing forces a kill, a new run, or a success.
- Registry: `WF` of a daemon's heartbeat thread, of the main loop for each request in the queues
  (ROUTER takes from its peers in turn) and of the proxy. A thread whose request is lost gets
  on by its deadline; nodes need not start, clients need not list.
- Relay: `WF` of each request's step at the controller, where `RelayTimeout` is the deadline
  (`RCVTIMEO`) that makes a thread return. The node and the processes owe nothing.
- Node: `WF` of each worker as a whole (`get(timeout=0.25)`, `wait(timeout=...)`).
  Processes owe nothing: a process that never ends is ended by the job's timeout.
- Cache: `WF` of a put that has begun. Readers and new puts owe nothing.
- Upload: `WF` of the fetch thread, of a client's loop, and of the next attempt of a
  client whose upload failed. The last is an assumption about the user of the push
  verbs, not about the code; without it `EventuallyPublished` says nothing.
- CI: `WF` of each worker's loop and of the master's thread for each worker, living or dead: the
  REP socket takes its peers in turn. Pushes and restarts owe nothing.
- Tree sync, git sync and messages are checked for safety only. Their clients do one thing after
  the other under a deadline, so that they end is no question; what they leave behind is.

## Proofs

Fifty-two theorems, each for every value of the constants that satisfies the named
assumptions of its module. They cover every invariant and every action property that a passing run
checks, and the safety part of both refinements.

| Module | Theorem | Statement |
|---|---|---|
| `PipelineProofs` | `TypeCorrect` | `Spec => []TypeOK` |
|  | `PrereqsFirst` | `Spec => []BuildAfterPrereqs` |
|  | `CrashSafe` | `Spec => []ManifestClosed` |
|  | `VerdictSound` | `Spec => []SuccessIsInstalled` |
|  | `PoolsBounded` | `Spec => []PoolBounds` |
|  | `PrefetchOnly` | `Spec => []PrefetchNotBuilt` |
|  | `FailuresJustified` | `Spec => NoFalseFailure` |
|  | `PipelineImplementsDagBuild` | `Spec => ImplementsDagBuild` |
|  | `ProgramTypeCorrect` | `ProgramSpec => []ProgramTypeOK` |
|  | `ProgramPrereqsFirst` | `ProgramSpec => []BuildAfterPrereqs` |
|  | `ProgramCrashSafe` | `ProgramSpec => []ManifestClosed` |
|  | `ProgramVerdictSound` | `ProgramSpec => []SuccessIsInstalled` |
|  | `ProgramPoolsBounded` | `ProgramSpec => []PoolBounds` |
|  | `ProgramFailuresJustified` | `ProgramSpec => NoFalseFailure` |
|  | `ProgramImplements` | `ProgramSpec => ProgramImplementsDagBuild` |
| `ControllerProofs` | `RegistryTypeCorrect` | `RegistrySpec => []RegistryTypeOK` |
|  | `ExchangesPairUp` | `RegistrySpec => []OneExchange` |
|  | `SubscribedOnce` | `RegistrySpec => []OneSubscription` |
|  | `RegistryImplementsFleet` | `RegistrySpec => ImplementsFleet` |
|  | `RelayTypeCorrect` | `RelaySpec => []RelayTypeOK` |
|  | `ClientsToldTheTruth` | `RelaySpec => []RepliesTruthful` |
|  | `SilenceHasACause` | `RelaySpec => []NothingUnheard` |
| `NodeJobsProofs` | `TypeCorrect` | `Spec => []TypeOK` |
|  | `ProcessesAccountedFor` | `Spec => []NoStrayProcess` |
|  | `JobsHeldOnce` | `Spec => []OneHolder` |
|  | `CancelledRightly` | `Spec => []CancelledOnRequest` |
|  | `ClientsOkRightly` | `Spec => []OkMeansExit0` |
|  | `LastWord` | `Spec => AnnouncedIsFinal` |
| `CacheProofs` | `CacheTypeCorrect` | `CacheSpec => []CacheTypeOK` |
|  | `DamageIsTransient` | `CacheSpec => []TornOnlyWhileWritten` |
|  | `LoserIsServed` | `CacheSpec => [](RaisedOnlyIfPublished /\ NamesDisjoint)` |
|  | `UploadTypeCorrect` | `UploadSpec => []UploadTypeOK` |
|  | `PublishedIsGood` | `UploadSpec => []PublishedGood` |
|  | `OkIsPublished` | `UploadSpec => []OkMeansPublished` |
|  | `UploadsAgree` | `UploadSpec => []NoMutualHarm` |
| `TreeSyncProofs` | `SyncTypeCorrect` | `Spec => []TypeOK` |
|  | `GuardProtectsWork` | `Spec => []GuardHolds` |
|  | `GuardRefusesForWork` | `Spec => []RefusedForWork` |
|  | `QuietSyncDelivers` | `Spec => []QuietSyncMatches` |
| `GitSyncProofs` | `TypeCorrect` | `Spec => []TypeOK` |
|  | `WorkSurvives` | `Spec => []WorkKept` |
|  | `CommitsSurvive` | `Spec => []CommitsKept` |
|  | `OkIsAligned` | `Spec => []OkMeansAligned` |
|  | `GitSyncHeals` | `Spec => []LitterHeals` |
| `MessagesProofs` | `MsgTypeCorrect` | `Spec => []TypeOK` |
|  | `LinesHaveFiles` | `Spec => []LineHasFile` |
|  | `NodeKeepsAll` | `Spec => []NodeInboxKeepsAll` |
|  | `OkIsDeposited` | `Spec => []OkMeansDeposited` |
|  | `SeatGetsOne` | `Spec => []DepositOnce` |
| `CiMasterProofs` | `CiTypeCorrect` | `Spec => []TypeOK` |
|  | `ShownResultFits` | `Spec => []ResultFits` |
|  | `MasterOutlivesWorkers` | `Spec => []MasterDies` |

*Pipeline, kills and verdict.* `CrashSafe` is not inductive: that a finished build leaves the
manifests closed needs its prerequisites to be installed, which needs that they were DONE when it
started (`BuildAfterPrereqs`), that they still are, and that DONE implies a manifest except on
deps the host does not support (`DoneInstalled`, `UnsupportedDone`). `IInv` is the
conjunction. The one long step is `Tick`: `DispatchMoves` and `TickMoves` reduce it,
whichever branch it takes, to what it can do to a single dep (`Moves`), and the
conjuncts of `IInv` follow from that.

*Pipeline, schedule.* The scans of the dispatcher take the first so many of a finite set under
a total order (list order, priority). The first lemmas of `PipelineProofs` prove what is needed of such
prefixes: they have no more members than there are slots, and are not empty when the set
and the slots are not. `PoolBounds` follows from the first. The refinement
needs the second: a dep given up by the cascade has a failed prerequisite by definition,
but the sweep for stuck deps gives up *every* open dep. It is sound because the sweep runs
only when nothing is in the pools and nothing was dispatched, and then the first open dep in the
chain's order has all prerequisites finished, so one of them failed (`StuckIsDoomed`); by the
same order each swept dep lies above a failed one.

*Whole program.* The serial loop never looks at prerequisites. `ProgramInv` adds to the pools' invariant
what makes that right: what the loop has passed comes before what it has not (`LoopOrder`), and is
done, failed or under way (`Passed`), hence done when nothing runs and nothing has failed (`BehindTheLoop`); so when a dep's turn comes and nothing failed,
everything under it is DONE (`NextIsReady`). The list's order is thereby the only thing the loop needs of the chain. A run of the pools
is a run of `DepPipeline` step by step, and `PoolStepRefines` reuses its refinement.

*Registry.* The inductive invariant adds to the stated properties that only started daemons have
sent anything (`SentByStarted`). Closing a socket and serving a request are the two steps
that move exchanges; a lemma about each (`HangUpExchange`, `ReplyExchange`) serves all actions
that do it. `RegistryImplementsFleet` licenses what the relay's theorems and run assume.

*Relay.* Four parts: where a request is on the wire tells whether it has been executed
(`WireOK`), what the relay has to say is true (`ResultOK`), what the client has heard is
true (`ClientOK`), what a client waits for is not lost without a cause (`WaitOK`); besides,
the queue holds each waiting request once (`PoolOK`), for a thread takes its
head without looking at its state.

*Jobs.* A job is in one place: in the queue once, with one worker, or nowhere (`Placed`). Where a
worker is tells what state, process and handle its job has (`WorkersOK`), what nobody
holds is at rest (`JobsOK`), and what is announced stays (`AnnouncedOK`). Together they are inductive. A worker's step moves
its own job and nothing of others, which `HolderStep` proves once for all of them; `JobStep` does it for the steps of cancels,
processes and clients. `LastWord` is the action property: after a job is announced, no worker
that could touch it holds it.

*Git sync.* Four parts: `work` lies outside what HEAD and the push log hold (`WorkOwn`); from `Judge` on, what the
gitsync has seen and the client does not hold is not in danger, because the guard would have refused it or
because it is litter that equals the target (`SeenOK`); beyond `Judge` the HEAD that was read is
an ancestor of the client's commit (`FastOnly`); while nobody interferes and no request fails, the node's HEAD is
where the gitsync read it and then where it put it (`Along`). That an undecided dirty file is the client's own is `JudgedOwn`, that a
checkout spares seen work is `Spared`. Commits survive because ancestors are transitive: whatever
the branch was, the commits of the HEAD that was read are below the one it is reset to.

`GitSyncHeals` needs what the two sides hold at each point of a gitsync nobody disturbs (`Phase`), that the client's
tree has content and no pointers (`LocalReal`), and that, unless the filter is told to skip, a pointer on the
node stands where HEAD has that very content (`PointersAtHead`). With them a refusal, by the guard or by git, names a lock or a file whose content is not
the target's, and a failed staging, checkout or scan an object the client could not provide. What a gitsync has missed
(`missed`) and the lock are part of the statement: neither theorem assumes that staging, listing or the node's kill go well.
The assumption on `Ancestors` is that of a history: reflexive, transitive, without cycles.

*Cache.* Unless a put was cut short, a torn file under the published name must be in somebody's hands, and it gets there from
`<sha>.tmp`; so a torn file under that name must be in somebody's hands too (`TmpHeld`), and until
its replace a putter's file is under one of the names (`PutNamed`), which is why the loser of the race, whose
`os.replace` raises, finds the blob there.

*Upload.* `PublishedGood` is a matter of types once `_h_blob_put` hashes what it renames; `OkMeansPublished`
needs that the last chunk of a client is answered only so. `NoMutualHarm` is the hard one: without faults
each client sends the same chunks, each request in the queue is its sender's current one
(`NetOK`), and the shared `.part` already holds whatever any client has written before its offset
(`Agreed`), so that nobody leaves a gap and every hash fits.

*Tree sync.* The lemmas about `TreeFS` say what placing and removing an entry do to every path, through links or
not (`RealIn`, `PlaceIs`, `RemoveIs`), and that a tree stays a tree (`PlaceTree`, `RemoveTree`). On them
rest three inductive invariants. `GuardInv` and `RequestInv` say that from the guard on neither the
sync nor any request of it, the late one included, has an entry to place on, or to delete at, above or
below a file with work it has seen; what it can still do to that work it does by way of a link, and `lost` says so.
`LogInv`: each tracked file is as HEAD or the push log has it, or somebody has worked on it, or it is
in `unlogged`; hence what the guard refuses for. `Quiet` follows an undisturbed sync from its first
look to its verdict: the destination as far as a manifest shows it is the planned one for the entries
done and the old one for those to come (`Progress`), directories that no manifest shows are accounted for, every
blob the apply will ask for has arrived (`BlobsSent`), and the request at the node carries the same plan (`Serves`).
`Between` is the lemma that makes each turn one entry: if no file of either tree is where the other has a
directory, links and directories are never in the way of an entry that is still to be done.

*Messages.* `DepOK` and `InboxOK` tie a deposit's point to its name, file and line. While the node
is the only way in, one deposit runs at a time and its name stays free until its file has it
(`OneAtATime`). `DepositOnce` rests on `SteadyOK`: while the roster stands still, `coord-x` is a target
only where it leads to the node, and `x`, which leads to it as well, is then passed over. That a free name is found at all needs more names than
deposits, which is a fact about cardinalities, and finitely many messages (`BoundsAssumption`).

*CI.* `GraspAt` says, of what a worker builds, of what it is told to build and of the report
a dead process has left behind, that the master would show it as it should; a report of a dead process
is harmless because the living one gets no further than waiting until it is served (`StaleOK`). For the master's
life it is enough that it knows the variant of every worker past initialising (`KnownAt`), as long as
neither it nor a fetch has failed. That what is built is the commit that was told rests on an invariant of its own
(`TreesOK`): wherever a worker, a request, a stale request or a shown result names both, the two agree unless a checkout has
failed or the commit is gone (`Told`); `gone` and the faults only grow (`Onward`), so that the excuse of a result stays.

Only model-checked: the liveness properties `Terminates`, `EveryJobEnds`, `EventuallyWhole`,
`EventuallyPublished`, `EventuallyListed`, `EventuallyWatched`, `PoolDrains` and `VariantsBuilt`,
which are outside the prover's reach (fairness and ENABLED), and what the chain computes (`DepChain`), which is induction
over data.

## What is left

- Two nodes of one name that are both up (each Connect replaces the other's record), and the
  resolution of `@` selectors, which reads the registry before the request is sent.
- Trees deeper than two levels, where a link's way to a file may go through further links.
- An abstract specification of a sync that both `TreeSync` and `GitSync` refine.
- A gitsync's checkout that the node runs after its client has given up (`Relay` has such requests, `GitSync` has not), a checkout
  killed between its index and its branch, and a node without git-lfs that takes the content of an LFS file for a change.
- The stat cache of `build_manifest`, which takes a file with unchanged size and mtime for unchanged.

## Not modelled

Clock synchronisation (a display), the retry loop inside a fetcher, the pip lock,
the terminal UI and log files, dep recipes, docker wrappers, environment and path
handling, systemd units: sequential code, declarations or pure I/O whose outcome no other
component depends on for its ordering.

The C++ parser and its database (`cpp_parser_descent.py`, `cpp_database_v2.py` and their
neighbours), the generators for the EDA tools and the platform layers (`macos.py`, `linux.py`) are
most of the repository's lines. They compute a result from an input and keep no state between
calls that another process or thread could see; a TLA+ model of them would repeat their text
case by case and say nothing a unit test does not. The models here therefore stand for
a small share of the lines and for most of the code in which order, concurrency and failure
matter.

Of the modelled components the following is left out: the restricted mode of a node, log reading
and the watch verbs, project templates, exclude patterns and file modes of a tree, the master seats of messages (a node route on another controller), the
web site of the CI, deployment markers and subspaces.

Failures that the models leave out, each at its line:

- tree sync: the exit status of `git status` is not read (`client.py:325`), so that a guard whose status fails sees a clean
  tree; `TreeSync` has the status always answered (`GitSync` has `DirtUnread`);
- git sync: the client's own git commands succeed, among them the diff that decides what is scanned (`client.py:889`);
  files on the node that git ignores are not untracked to it (`client.py:687`, `--exclude-standard`), and a checkout overwrites
  them, so `WorkKept` is about files git does not ignore;
- upload cache: the sidecar's write always ends well (the blob is published before it);
- CI: an exception while the master writes a log or the site (`_masterimpl.py:119-122`) ends its thread as a failing fetch does; an
  exception in a worker, as over a log that was not written, is `WorkerRestarts`; a fetch of submodules that fails is
  the checkout of part of a commit; a commit that is gone may come back, and `Advance` allows a build of it either way.
