# ccx: models of its cleanup daemon, its pull request store and its stack rebase

`ccx` is a command line tool for code and version control work by agents. Most
of it is sequential: a command reads files, git and GitHub, and prints. Three
parts are not. `internal/cleanup` is a daemon that deletes git worktrees slowly
and in the background, while their owners keep working and while the daemon
itself may be killed between any two writes, or be replaced by a newer one; a
mistake there loses work. `internal/prstate` is a view of a repository's pull requests that
every ccx process of a machine reads and refreshes through one state file, under
one budget of requests; a mistake there has agents ship on what is no longer
true. `ccx vcs stack` rewrites and publishes a stack of branches in many steps
that any process may die between and another take up, while people commit,
edit, push and land; a mistake there overwrites what somebody else wrote. The
three are modelled in TLA+, model-checked with TLC and, in part, proved about with TLAPS.

## The system

| Component | State | Operations | Interacts through |
|---|---|---|---|
| Relocator (`cleanup/relocate`) | none of its own: the tree, its admin directory `<common>/worktrees/<id>` (the `locked` marker, the `gitdir` backlink, `HEAD`), the recovery ref `refs/…/<job>`, the job record | `Accept`, `Pend`, `Intend`, `Advance` (bind, prove, mark, claim), `Retire`, `Admit`, `Readmit`, `Cancel` | the file system and git, the journal |
| Engine (`cleanup/daemon/engine.go`) | the queue, the switch (pause, hold), the open deletion, waiters, leases, finished jobs kept | one worker: commands, logical steps, retirement, slices, reconciliation; `Status`, `Wait`, `Stop` off the worker | channels, one mutex, a channel closed at each change |
| Journal (`cleanup/journal.go`) | one record per job, the switch | `Create`, `Save`, `Discard`, `Load`, `SaveSwitch`, each atomic | files |
| Activity gate, governor (`daemon/activity.go`, `governor.go`) | samples, rates, deadlines | decide when a slice or a step may run | the engine's loop |
| Tree walk (`cleanup/rmtree`) | open directories | delete a bounded number of entries | the file system |
| Server, client, wire (`daemon/server.go`, `client.go`) | serve lock, socket, listener, connections | listen, accept, one request per connection, shutdown and the order of its end | unix socket, file lock |
| Agent (`cleanup/agent`) | the installed program, the LaunchAgent | reach; connect: greet, pin, stop an outdated daemon, install, apply, wait | start lock, serve lock, socket, launchd, pids |
| Pull request store (`prstate`) | a state file and lease files shared by processes | read or peek, claim a poll, land it, degrade to REST, probe a refusal, record a push | files, GitHub |
| Stack rebase (`cli/stackrebase.go`, `cli/stackpublish.go`) | a directory per branch a run writes, the saved run, pins, receipts, refs of resolved heads | claim, reclaim, adopt, clear; replay, stop, resolve, push, record, move and align, continue, abort | files, git, the remote |
| Ship and the other stack commands (`cli/ship*.go`, `cli/stack*.go`) | branch metadata, pull requests | commit, push, open, restack, drop, move | git, GitHub, Graphite |
| Search index (`semsearch/index`) | segments and manifests | build, publish, collect | files |
| Everything else | none kept | functions from files to text | - |

`PROJECT.json` lists each component with its status.

What is hard here:

- **Interleaving.** The worker is alone, so handlers never overlap, but the user,
  git and other processes overlap every handler: a tree proven clean is edited
  before it is marked; a process enters a tree that is half deleted; a worktree
  is moved, locked or pruned by hand.
- **Crashes.** Intent, marker, phase, backlink and recovery ref are written
  one at a time. The journal is the only memory.
- **Two removals of one tree.** A plain request does not rejoin a forced job.
- **Pause and hold** arrive while a deletion is open.
- **Callers.** A request is offered on an unbuffered channel, answered on another
  and refused when the engine stops; waiters sleep on a channel that is replaced
  at every change, and may wait for a job that is pruned as it finishes.
- **Two daemons.** A daemon is started by hand, by launchd or by a client; a
  client may find an outdated one, and by the time it acts another may serve the
  same socket, behind the same pid even.
- **Runs without a master.** Processes that rebase stacks meet only in the file
  system: a directory is a claim, a rename takes it aside, an owner is a pid in a file.
- **Publishing.** A push may arrive though its answer says otherwise, a lease
  goes stale, a branch or its checkout changes between the check and the move.
- **Requests without a lock.** The processes that share the pull request store
  hold its lock for a commit, never for a request: a decision is taken on one
  reading of the state and applied to another, requests land in any order, fail,
  run past their reader's patience, or are never heard of again.

What makes each part correct: the relocator deletes nothing that was not proven
and pinned, and leaves no lock or hidden registration behind; the engine runs a
job forward only and answers every caller truthfully; the journal never forgets
what it answers for; the store tells a reader nothing older than it may be told,
whoever polled it, and spends no request that it may not; one daemon serves, and
only one that somebody found outdated is stopped; one process drives a run, and a
run overwrites nothing that others pushed or a user committed, edited or resolved.

## The modules

| Module | Models | Checked by |
|---|---|---|
| `WorktreeRemoval` | the removal of one linked worktree: relocator, worker, journal, user, git, crashes | `removal`, `removal_rivals`, `removal_hidden` |
| `RemovalPromise` | what the owner of a worktree may rely on | as a property |
| `WorktreeRemovalPromise` | the refinement mapping: `KeepsPromise == Promise!Spec` | `removal_rivals` |
| `WorktreeRemovalProofs` | the inductive invariant of `WorktreeRemoval`, its consequences, and the refinement | tlapm |
| `EngineCalls` | the calls into the engine: commands, waiters, leases, finish, stop | `calls` |
| `EngineCallsProofs` | invariants of `EngineCalls` | tlapm |
| `DaemonHandoff` | how a daemon comes to serve, is replaced and ends: server, client, agent, pids, launchd | `daemon_handoff` |
| `DaemonHandoffProofs` | the inductive invariant of `DaemonHandoff` and its consequences | tlapm |
| `PRStore` | the reads, polls, refusals, leases and pushes of the pull request store | `pr_answers`, `pr_pushes`, `pr_listings` |
| `PRStoreProofs` | types and four properties of `PRStore` | tlapm |
| `PRStoreReadsProofs` | what the reads of `PRStore` are told | tlapm |
| `StackClaims` | the run directories: who claims, reclaims, adopts and clears which run | `stack_claims`, `stack_claims_apart` |
| `StackClaimsProofs` | the inductive invariant of `StackClaims` and its consequences | tlapm |
| `StackPublish` | one run: replay, push, receipts, the move of the sources, continue and abort | `stack_publish`, `stack_publish_stops` |
| `StackPublishProofs` | the inductive invariant of `StackPublish` and its consequences | tlapm |
| `StackPublishRefsProofs` | a second invariant of `StackPublish`, over notes, hands and checkouts | tlapm |
| `MC...` | symmetry sets, stacks, tasks, versions and wants, for TLC | - |

How they compose: `DaemonHandoff` decides which process runs the engine, one at a
time; `EngineCalls` is what its clients see of that engine, `WorktreeRemoval` what the engine does to a
tree. `StackClaims` shows how processes come to drive a run, and where two do;
`StackPublish` models one run in detail, driven by one process at a time.

### WorktreeRemoval

State: the file system (`at` where the captured tree sits, `left` its entries,
`edits`, `head`, `kept` the commits some branch holds, `holder` a process in it,
`admin`, `lock`, `back` the backlink, `fresh`, `ref`), the journal (`rec`,
`paused`, `hold`), what a crash loses (`step`, `who` the handler under way,
`native`, `owned` what it has read, `open`, `root`, `since` the open deletion)
and whether the activity gate or the governor holds the tree (`shut`). `headLate`,
`editLate` and `strays` only observe: HEAD moved after the last proof compared it,
the tree was edited after the last proof read its status, and slices ran under a process.

A handler that makes one durable change is one action (`Remove`, `Defer`,
`Retry`, `Pause`, `AdmitTree`, `SliceTree`, ...). A handler that makes several,
or relies on something it read before a git or process probe, is split at those
points, and the user, other processes and a crash may run in between; the worker's own
steps may not.

| Actions | Code |
|---|---|
| `Remove`, `Defer`, `Cancel*`, `Retry` | `Engine.remove`, `intend`, `cancel`, `retry` with `Accept`, `Pend`, `Intend`, `Cancel` |
| `AwaitInactivity`, `ClaimProve` ... `ClaimEnter` | `release`, `settle`, `claim`, `prove`, `lock` in `advance.go`, `inplace.go` |
| `RetireProve` ... `RetireEnd` | `Relocator.Retire` |
| `AdmitClaimed`, `AdmitQuiet`, `AdmitStatus`, `Unregister`, `Rename`, `AdmitEnter`, `AdmitTree`, `AdmitRegistration` | `Relocator.Admit` |
| `OpenRoot`, `SliceTree`, `SliceAdmin`, `ReadmitTree`, `ReadmitAdmin`, `Park` | `Engine.open`, `slice`, `readmit`, `park`; `rmtree` |
| `Pause`, `Resume`, `Take`, `Release`, `AutoRetry`, `Reconcile`, `Sample`, `Crash`, `HourPasses` | `pause`, `take`, `release`, `retryAt`, `reconcile`, `gate.observe`, `load` |
| `Edit` ... `Prune` | the user, git and other processes |

An admission proof is three steps, as `prove` is (inplace.go:456-519): the marker, the pin and
HEAD are compared (`AdmitClaimed`, 484), what watches the tree and every process are
probed (`AdmitQuiet`, 504-507), and git status is read last, against the HEAD the tree has by then
(`AdmitStatus`, 510). So a commit made between the first and the last leaves a clean status,
and is admitted: the deletion then runs over a HEAD that is neither the job's nor pinned.
`ProvenWhileDeleting` states that window (`headLate`), and that nothing else gets through:
an edit in the same window is seen by the status and blocks.

What the environment may do:

- everything between two steps of the worker, up to `MaxExternal` events; a tree
  that was moved away comes back for free;
- `git worktree unlock` runs only under a hold. docs/worktree-cleanup.md:111-118
  asks for one around registration-changing maintenance; without that
  restriction a user can take the daemon's marker away at any time;
- in `ClaimProve` HEAD and the first status are read at the same instant (inplace.go:484
  and 497). A commit between the two is caught by the admission, which compares HEAD again;
- where a deletion opens again (`AdmitTree`), the recheck, the pin and HEAD are one step: the
  process probe comes before HEAD is read, and no event changes both;
- the gate holds the tree and its registration alike (`shut`), and only between two steps, or as a
  tree is moved out;
- an admin directory that has lost an entry is only `partial`: which one is gone
  does not matter to the properties.

Left out: adopted, orphaned, displaced, unbound and legacy jobs, submodules and
nested registrations, the claims of other worktrees on a path, the `Expected`
equality of deferred requests, admin directories a retired release abandoned,
an unborn HEAD, an engine without an activity gate (tests only), the watcher
quarantine, and the number of retries (a transient block may be retried at any time).

### EngineCalls

Here a job is only as far along as a caller can tell: absent, live, blocked on
something the daemon retries (`waits`) or leaves to a person (`stuck`), done or
gone. Each goroutine in `call` is offered, taken and over; each goroutine in
`Wait` is entering, looking, asleep or leaving. What the code does under `e.mu`
is one action; `finish` has one critical section for the job, one for its lease
and one for each job it prunes. `Run`'s context is not told apart from `Stop`:
the server closes both in one breath. Requests that only reply, such as a pause,
are not told apart from one that fails. `Stop` may fall before `Run`.

The answer "stopped" is the bare `ErrStopped`. Without an activity gate, which
only tests configure, a request whose step is cut short is answered with an
error that wraps it (engine.go:1183) and names the phase its job rests at; that
is an `error` here.

### DaemonHandoff

State: the machine (`serveLock`, `startLock`, `path` the daemon whose socket is
at the path, `program` the version installed, `managed` the daemon launchd runs,
`occupant` the process behind each pid), the daemons in the order they were started (`phase`,
`pid`, `version`, `asked`, `attached`), the clients (`pc`, `conn`, `seen` the pid
a client greeted and the process it found behind it). A daemon's number stands for the kernel's
unique id of a process, which is never used again.

| Actions | Code |
|---|---|
| `TakeLock`, `GiveUp`, `RemoveSocket`, `Listen`, `ListenFails` | `listen` |
| `Closing`, `Interrupt`, `Flush`, `CloseListener`, `Drain`, `Unlock`, `Exit` | `serve`, in its order: the listener unlinks the path, the connections are closed, handlers are waited for, the lock goes last |
| `Attach` | a handler whose client holds its connection open (`Wait`) |
| `Probe`, `Lock`, `Greet`, `Check`, `Pin`, `Hello` | `connect`: the hello, the start lock, the hello with the greeter pinned |
| `Connect`, `Verify`, `Send`, `Poll`, `AwaitExit` | `shutdown` and `Client.Shutdown` |
| `Claim`, `InstallProgram`, `Apply`, `ApplyFails`, `Unclaim` | `launch`, under the serve lock |
| `Ready`, `TimeOut` | `ready`, `leave`; the deadlines of the waits |
| `Reach`, `Vacant` | `reach`, which starts and stops nothing |
| `Serve`, `Restart`, `Crash`, `Reuse`, `Die` | `ccx vcs cleanup serve`, launchd, the kernel |

What is assumed: a client holds the serve lock for less than a daemon waits for
it (`Options.Timeout` says so, agent.go:62-67), so a daemon gives up only on
another daemon; launchd stops the instance it runs before it starts another, and
restarts after a failed exit only (`Spec`); a hello may always time out. No
command of this version connects, all of them reach (cli/cleanup_darwin.go:31);
`Connect` is modelled as the agent package offers it. Left out: the requests
themselves (`EngineCalls`) and whether the reply to one is lost with its connection
(server.go:104-107), user ids, damaged locks.

`InstallsAlone` is about daemons that hold the serve lock. One that a
client has applied and that has not taken it yet, because the client died or timed
out first, is not protected: an older client may install and apply its version over it.

### StackClaims

A stack rebase makes a directory for every branch it writes; the first holds the
saved run, the others name the first. State: the directories (`dir`), what each process has
renamed away (`tomb`), the saves, which stand for modification times
(`saves`, `stale`), the branches gone, and each process (`pc`, the runs it has
read in `seen`, the `run` in its hands).

| Actions | Code (`stackrebase.go`) |
|---|---|
| `Read`, `Admit`, `Admitted` | `stackBegin`, `stackGate`, `stackAdmit` |
| `TakeAside`, `PutBack`, `Condemn`, `DropClaim`, `DropRun` | `stackReclaim` |
| `AdoptLock`, `AdoptCheck`, `AdoptSave` | `stackAdopt`, `stackTakeOver` |
| `Resolve`, `TakeOver` | `stackResolveRun`, `stackTakeOver`, of `continue` and `abort` |
| `Disturb`, `Bury`, `Buried`, `Make`, `GiveUp`, `FirstSave` | `stackClaim`, `stackReclaimAbandoned`, `stackClaimedMeanwhile`, the first save |
| `Progress`, `Stop`, `Clear`, `Cleared` | the saves of `stackDrive`, `stackClearRun` |
| `Wait`, `Vanish`, `Die` | `stackStaleAfter` passing, branches landing, processes dying |

One action is one file operation, or several that nobody can tell apart.
What the gate answers before the plan is made is not listened to (stackrebase.go:526-536), and
a run that stopped in the worktree of the command refuses it, overlapping or not.
Assumed: a process between two file operations does not sleep through
`stackStaleAfter` (five minutes), except where it drives. `continue` and `abort`
take no lock (5075-5109), so two of them do drive one run. Left out: damaged
files, a temporary file of a process that died in a save, and runs that write the
current branch of the command but none of the branches it plans.

What else the model shows of the code, without a property: an adopt lock left by
a process that died stays, and its run is never adopted again (827); a claim that
fails leaves the directories that name an owner to the next five minutes
(5691); a process that dies while it holds a run aside loses it (1123-1150).

### StackPublish

One run of a stack, from its saved plan to its end. State: the repository
(`local`, the `tree` a checkout has its files at, `edited`, `pins`, `kept`,
`receipt`, the saved run `disk`, the conflict `workspace`), the remote (`remote`, `trunk`, `merged`),
the process (`pc`, its copy `run`, the leases it asks for, what it is moving).
A head is its patches (how much work, by whose hand), what it sits on, and a
number that tells two commits of the same content apart.

| Actions | Code |
|---|---|
| `Replay`, `OpenConflict`, `PinResolved`, `SaveReplays` | `stackReplay`, `stackPinHead`, `stackOpenConflict`, `stackPinResolved` in the loop of `stackDrive` |
| `PinAll`, `Publish`, `Push`, `Pushed`, `Recover`, `Release` | `stackPinPublication`, `stackPushPublication`, `gtRunPush`, `stackRecoverPublication`, `stackRepushOverEquivalent` |
| `RecordReceipts`, `DropPins` | `stackRecordPublication`, `stackCompletePublication` |
| `Choose`, `MoveRefs`, `Align`, `Restore` | `stackChooseSourceMoves`, `stackMovePublishedSources`, `gtRestackAlignHolder`, `stackRestoreSources` |
| `WriteRefs`, `RewriteHeld` | the end of a run that does not push |
| `Continue`, `Replan`, `Abort`, `KeepResolved`, `Settle` | `runStackContinue`, `stackReplan`, `runStackAbort`, `stackKeepResolved`, `stackSettle` |
| `Die`; `Commit`, `Edit`, `Discard`, `Switch`, `Resolve`, `OtherPush`, `Land` | the process, users, others |

Assumed: one process drives the run at a time, which `StackClaims` shows the code
does not guarantee (see `Apart` below); a user who finds a checkout
behind its branch does not commit in it; trunk moves when a pull request lands, the stack's lowest
or anybody else's, and every plan made anew reads it; the checkouts do not change their
branch between the reading of them and their alignment. Left out: branches that are
local only, kept, held, pinned or tips; plans that change nothing; the restack of
the remote's branches; an alignment killed part way; a tip held elsewhere; the
verdict of pull requests; Graphite's metadata and parked leases; the Git lane;
the deletion of branches.

Three messages say more than the process knows, and are not modelled: an abort
after a push that was never saved says that no branch moved
(stackrebase.go:4978); after a crash among the checkouts it says that they
are unchanged (4983), and after one between the receipts and their save that no receipt was
recorded (4992).

### PRStore

State: GitHub (`heads`, what its API has `shown`, `squashed` the pull requests
the queue has landed), the cache directory (`file` is `state.json`: claim, poll
and failure times, the GraphQL and REST backoffs, records and lane listings;
`lease` the times of the lease files), and each process (`pc`, what its read wants, when it
began, the clock as it last read it, the request it sends and its reply).
`pushes` (the last push recorded for each pull request, and whether a landed poll has
shown it) and `lacked` (what GitHub did not have, or had just told some poll it did not
have, when a read or a push began) only observe. A record has the fields the store decides
by: the head, whether the pull request is settled, whether Graphite was silent,
when it was polled, and the push it does not show yet; `seen` is when GitHub was really read.

| Actions | Code (`prstate.go`) |
|---|---|
| `Begin` | `Read`, `Peek`: the leases are renewed |
| `Look` | one turn of `readFor` up to the first request or lock: `load`, the backoff check, `unpolled`, the wait |
| `Probe`, `Claim` | `probe`; `claim`, which decides again under the lock |
| `Serve` | `GitHub.poll`, `restPass`: GitHub answers all, some or none of the pages |
| `Land`, `LandRest`, `Miss` | the commits of `fetch` and `degrade`, or a lock not had in time; then the follow-up of unread members, the fallback, the answer |
| `Cut`, `Over` | the read's budget runs out: `overBudget` |
| `Leave` | the caller has its answer, gives up or is killed, at any step |
| `GitPush`, `Renew`, `Mark` | git, then `Pushed`: leases, then the record under the lock |
| `Show`, `OpenPR`, `Squash`, `TimePasses` | GitHub, the queue, the clock |

What is assumed:

- every reading of the clock is an instant of its own (the code reads it in
  nanoseconds), so two polls never begin at the same time;
- a commit is one step: the state file and the leases it settles;
- one process of the machine pushes a branch at a time;
- `load` and the reading of the clock after it are one step.

Left out: the owner of stack metadata (`LegacyOwned`), budgets that grow with
the pages of a request, the error of a claim that cannot have the lock, the
stale view returned beside an error, damaged files, the app token and its REST
quota (`rest.go:60-139`).

## The runs

| Run | Question | Instance | States |
|---|---|---|---|
| `removal` | `ProvenWhileDeleting`, `StraysAreBounded`, `MarkerIsJournaled`, `HiddenIsOwned`, `PinnedWhileDeleting`, `HaltFreezes`, `TypeOK`, and `RemovalEnds` under `Fairness`, among events of user, git and other processes | 1 job, 2 commits, 3 entries, move root, 2 events of 8 kinds, 1 crash | 811k |
| `removal_rivals` | `DeletesUnderOwnMarker` and the refinement `KeepsPromise` | 2 jobs, 2 commits, 2 entries, move root, 1 event of 7 kinds, 1 crash | 1.1M |
| `removal_hidden` | finds `HiddenAtCapturedHead` violated | 1 job, 1 commit event | - |
| `calls` | `FinishReachesWaiters`, `KeptIsAwaited`, `LeasesAreLive`, `StoppedDidNothing`, `TypeOK`; `StopAnswers`, `WaitersWake` under `Fairness` | 1 caller, 1 waiter, 1 job, no finished job kept | 57k |
| `daemon_handoff` | `SocketIsServed`, `OnlyOutdatedStopped`, `InstallsAlone`, `TypeOK`; `StopEnds`, `ClientsAnswered` under fairness | 2 clients of different versions and protocols, 2 pids, 2 daemons, 1 mishap | 356k |
| `pr_answers` | `AnswersAreRecent`, `MissingIsTrue`, `FailureIsLatest`, `ClaimsAreSpaced`, `RefusalsAreHeeded` while requests fail or are refused | 2 processes, 1 pull request, 6 instants | 3.9M |
| `pr_pushes` | `PushesStand`, `NothingAges` with a queue, GitHub lagging and Graphite silent at times | 2 processes, 1 prefix, 1 push, 5 instants | 934k |
| `pr_listings` | finds `ListingsAreRecent` violated when requests fail | 1 prefix | - |
| `stack_claims` | `OneReclaims`, `ReclaimSparesMoved`, `TypeOK` | 3 processes with 4 mixes of commands, 2 branches, 3 saves, 2 deaths | 1.3M |
| `stack_claims_apart` | finds `Apart` violated | 3 rebases of 2 branches, nobody dies | - |
| `stack_publish` | `OthersKept`, `SourcesKept`, `ReceiptsAreTrue`, `ResolvedKept`, `CheckoutsFollow`, `TypeOK` | a stack of 2, 1 may conflict, both checked out, 2 events outside, any number of deaths | 536k |
| `stack_publish_stops` | finds `AbortKeepsStops` violated | the same, 1 event | - |

Larger instances were checked once, without an error, and are not kept as runs:
`WorktreeRemoval` with one job, three events of any kind and one crash (4.0M, safety; here a
tree that comes back counted as an event), and with two jobs and two events (5.7M,
`DeletesUnderOwnMarker`, nobody crashes);
`EngineCalls` with two waiters and two jobs (6.8M states, safety), and with either two
waiters or two jobs (liveness too); `PRStore` with two pull requests (3.2M with pushes, 10M with After, 6.4M with a prefix); `StackPublish` with
three events outside (5.9M); `StackClaims` with four processes on one branch (600k);
`DaemonHandoff` with three daemons and three versions, one of them no release (7.7M, safety).
`PRStore`'s `TypeOK` is proved, and not run.

**Bounds.** `TreeSize` exceeds `Readmit` in `removal`, so a deletion is
readmitted in the middle. Two events are enough for the sequences that
matter, since coming back and leaving are free (enter, leave and enter again; move, come back and be
pruned; a commit, then a process in the tree), with two commits HEAD moves and is `fresh`,
and one crash is a restart at
each step; a second crash meets the same journal. Two jobs are all the rivalry a tree can
have: a third would be rejoined or behave as one of them. What `removal_rivals` checks with one
event is proved for any number; that two rivals both end is not checked. One caller
suffices for `StoppedDidNothing`, which the proof extends to any number. `KeepDone = 0` makes
every finish prune at once, the case the kept jobs exist for. The events of a
run are chosen by `External`, so each run spends its bound on its own question.
The proofs below hold for every value.

Two daemons are one that serves and the one that would replace it; with two pids
one of them may be taken by another process or by the second daemon, which is
what `Verified` is for, and a mishap is a crash, a signal, a failed engine, a
reused pid or a client that dies. The older client speaks the older protocol, so
that each client finds the other's daemon too new or too old.

In `StackClaims` a reclaim meets a claim and an adoption at most: three processes.
Two branches give overlapping runs of one and two directories, in either
order. Three saves let a run be begun, saved by its driver and adopted. In `StackPublish` two branches are one below
and one above; two events outside are a commit or push, and the one that
undoes what the first made the run believe.

In `PRStore` two processes are a poller and the one it races; either may leave
and begin again, so a later reader is one of them. Times keep the order
they have in the code: `Interval` and `ReadBudget` are equal (30 seconds),
`PollBudget` is twice that, the lifetimes of leases and records are longer than
a run and the first instant is later than all of them, so that what was never
done is long ago. Five or six instants hold a claim, the interval after it, and
a second poll that begins and lands while the first is still out. Leases expire
and records are dropped only after such a run ends: that they do is not checked.

**Fairness.** `WorktreeRemoval`: the claim and the deletion of each job run if they become
possible again and again (strong fairness), the retirement and the cancellation if they stay
possible. The worker's loop takes its
turns in an order that starves none (engine.go:777-893): after each logical step
deletion runs for a multiple of its time, after each retirement likewise. A gate that
opens stays open for a sampling interval, and a turn runs before the next sample. The
clock runs and a process in the tree leaves at last. Nothing is
assumed of requests, the switch, the gate, retries, or crashes. In particular nothing bounds how long
the activity gate or the governor keeps a machine waiting (activity.go), so `RemovalEnds` is
conditional: it asks that the queue be free to delete again and again
(`[]<>MayRun`), and then that the job is gone, withdrawn, or blocked with a reason. `EngineCalls`: the
worker and each call are goroutines, which run when they can; jobs need never
move, nobody need give up, and the engine need never be stopped. `DaemonHandoff`: a daemon and a client that live
take their steps when they can, and a wait with a deadline ends; nothing is
assumed of launchd, of users, of the peer of a held connection, nor that a pid is ever free.

`PRStore` states no fairness and no liveness: its clock ends, and with it every
wait. `StackClaims` and `StackPublish` state none either: a run that stopped waits
for its user, and nothing in the code makes a process take up what a dead one left.

**Deadlock** is not checked: a queue whose jobs have ended, with its events
spent, an engine that has stopped, a store whose clock has ended, a machine whose
daemon has exited, and a run that is over really do come to rest. The liveness
properties say what may not be left undone then.

### What the runs found

- `removal_hidden`: `Retire` compares HEAD with the journaled one before its idle
  proof and not again before it truncates the backlink (retirement.go:434), so a
  commit in between is hidden with the registration. docs/worktree-cleanup.md:122
  says such a commit blocks the job. The commit is not lost:
  `ProvenWhileDeleting` and `PinnedWhileDeleting` hold, because the claim that
  follows proves the tree again and blocks.
- `pr_listings`: a failed poll falls back to REST for the records a want lacks
  (prstate.go:522-558). REST lists no lanes, and an old listing whose members
  are fresh, or are read by REST, answers the read.
- `stack_claims_apart`: `stackClearRun` (stackrebase.go:5774) removes the directory
  with the state of a run first. What is left of its claims then looks
  abandoned: a second rebase takes one aside and claims that branch, the
  first process removes that new claim, and a third claims the branch beside the
  second. docs/stack-rebase.md:277 says a run locks the branches it writes.
  `Apart` has a second cause, which takes five processes and is not kept as a run:
  the adopt lock of a run is a file in its directory that is removed by its path
  (stackrebase.go:835). When the directory is reclaimed and claimed anew between the
  lock and its removal, a late process removes the lock of another one
  in the new directory; or a directory put back brings its old lock and
  state back over an adoption. Two processes then adopt, and drive, one run. With four
  processes or fewer TLC finds no such behaviour.
- `stack_publish_stops`: `stackReplan` (stackrebase.go:5297) plans a run anew
  onto a source that moved, and forgets which stops had been resolved. An abort then
  keeps nothing of them; docs/stack-rebase.md:159 says it keeps every one.

More disagreements are stated in the modules as properties that fail; no run is
kept for them:

- A read with a `MaxAge` below `MinInterval` is told of records up to `MinInterval` old,
  which `AnswersAreRecent` allows for: `request` (prstate.go:885) spares the records
  younger than `MinInterval`, so such a read claims a poll that does not read what
  it lacks, and is answered with it. cli/vcspr.go:290 says that it polls.
- A poll that was told that a pull request does not exist drops its record and its lease when it
  lands, unless a later poll has the record (prstate.go:951). Polls are ordered by when they
  began, not by when GitHub answered, so it may land over one that began earlier and
  found the pull request; or between the lease of `Pushed` and its record, which a later commit
  then prunes. `AnswersAreRecent`, `MissingIsTrue` and `PushesStand` do not count pull
  requests of which GitHub had said so to a poll under way when the read or the push
  began (`Lacking`); counted, each of the three fails with two processes.
- `PushesLast`: `merge` (prstate.go:946) forgets a push as soon as one poll shows
  it. When a poll that began later had read GitHub earlier, it lands next and
  the head before the push comes back within `pushLag`; the comment at
  prstate.go:439 says the pushed head answers.
- `DoneMeansGone`: a job is done when its admin directory is deleted
  (engine.go:1248); a tree that was away when its root was admitted, and is back
  by then, is still there. job.go:68 says every owned root is gone.
- `MembersAreRead`: `verdict` (prstate.go:560-568) looks only for the pull requests a
  read names. A lane listing that another process replaced between the
  follow-up request and its landing is returned with members that have no record,
  and no error. prstate.go:343 promises everything named, polled recently. For
  the same reason a read may be answered with the empty record that `Pushed` made for a
  pull request its own poll did not find yet.
- `OpenIsListed`: `fresh` compares `Want.After` with records only
  (prstate.go:820-825). A listing from before answers `shipPRHead`
  (cli/ship.go:2836), which then takes a branch to have no pull request.

## The proofs

`WorktreeRemovalProofs` proves `Spec => []IInv` with

    IInv == TypeOK /\ Control /\ Marker /\ Proof /\ Proving /\ Strays

from the assumptions `WorktreeRemoval` names (ids are not confused with the
other values a variable takes, sizes are positive, bounds are natural numbers).
None of the properties is inductive alone:

- `Control` says where the worker can be: which phase, retirement and block the
  job under way has at each step, that `who` is the only job it may touch, and
  that an open deletion belongs to a physical job;
- `Marker` relates the lock to the record: a marker is placed only after the
  intent is on record, and a phase that has lost it has lost the registration;
- `Proving` is what a proof under way has read so far: the ref is pinned, HEAD is the
  recorded one unless it moved since it was compared, and, once the probes are over, no process was in
  the tree;
- `Proof` carries what a whole proof established across the steps up to the slice:
  the content is clean or forced unless it was edited after the status, HEAD is the recorded one
  unless it moved after it was compared, and the recovery ref names the recorded one;
- `Strays` relates the slices run under a process to those since the admission.

There is one lemma per action, and frame lemmas for the many actions that leave
a part alone. The conjuncts give `TypeCorrect`, `MarkersAnswered`,
`HiddenAnswered`, `DeletionsMarked`, `DeletionsPinned`, `DeletionsProven`,
`StraysBounded`; `HaltsFreeze` is an action property from the same invariant.

`PromiseKept` is the refinement, `Spec => KeepsPromise`: given `IInv` before and after a
step, the step is one of `RemovalPromise` or a stutter. Each action is matched with
the step it takes: a claim with `Begin`, a hidden backlink with `Hide`, a
slice with `Shrink`, the user's prune of a hidden registration with `Forget`, since
`HiddenIsOwned` says that a removal which deletes still answers for it. One more
invariant, `Tidy`, goes with it: only a removal not yet claimed has retired anything.
So whoever answers for a hidden registration when another removal is withdrawn is
still active.

`EngineCallsProofs` proves its invariants one beside the other. `CallsInv`: a command is in the
worker's hand or answered, never both, and a bare stop only answers one that was
not taken or was refused. `WaitsInv`: the count of a job's waiters is the
cardinality of the set of callers inside Wait for it (for any finite set of
waiters), hence a job pruned under a waiter is kept. They give
`StoppedCallsDidNothing`, `FinishesAreTold` and `NothingKeptForNobody`.
`LeasesInv` gives `LeasesStayLive`: the queue holds each finished job once and it is
done, so a prune never takes one with a lease, and a worker that is over stays over.
`TakenAreAnswered` and `WakeupsArrive` are what `StopAnswers` and `WaitersWake` rest on once
fairness is set apart: no answer is owed by nobody, and no waiter
sleeps through the change it waits for.

`PRStoreProofs` proves `Spec => []TypeInv` for any sets of processes, pull
requests and prefixes and any wants. `TypeInv` strengthens the types by when a process
holds a reading of the clock and a reply: the claim that writes its instant
into the file, or the landing that stamps records with it, must have one.
The steps that write the file are listed once (`FileSteps`); a landing keeps the
claim, blames only the last one, and takes a record only over an older one
(`LandedKeeps`, `MergeNewer`). They give `FailuresAreLatest`, `ClaimsSpaced` and
`NothingGrowsOld`. `RefusalsHeeded` goes through each way a read comes to ask,
by its action: under `Degrade` it can ask only REST.

`PRStoreReadsProofs` proves `Spec => [](TypeInv /\ ReadsInv)` with

    ReadsInv == HeldTypes /\ Shared /\ \A p \in Process : Held(p)
    Held(p)  == Timed(p) /\ Asks(p) /\ Told(p) /\ Leased(p) /\ Covered(p)

`AnswersAreRecent` rests on `Covered`: whatever a read wants and does not ask for
is on file as it needs it, so that a poll which lands for it need only bring the rest.
That stays so while other processes' polls land because of `Leased`: a lease as
recent as the read keeps the record from being pruned, and nothing drops the lease
of a pull request that exists and that no poll under way was told is missing
(`Found`, which once true stays true). `Told` says that what
GitHub answered covers all that was asked; `Asks`, that a read passes on the
error it began with; `Shared`, that a recorded push stands under its lease. `Grows` and `Lasts` say
what any step of any process leaves to the others, from which `HeldKept`
has every process but the one that moves. What the eight steps of a read come to is one
predicate, `Result`, proved of `Return`, `Send`, `Degrade` and `Decide`, then of each step.
They give `AnswersRecent`, `MissingTrue` and `PushesTold`.

`DaemonHandoffProofs` proves `Spec => []IInv` with

    IInv == TypeOK /\ LocksHeld /\ SocketIsServed /\ Numbers /\ Pins

for any sets of clients, pids and versions. `SocketIsServed` is not inductive
alone: that nobody else unlinks the path follows from `LocksHeld` (who is past
the lock holds it, and so nobody else is), which the order of `serve` keeps up to
its last step. `Numbers` says that the daemons yet to be started are unborn, that a pid is
occupied by one process and a live daemon occupies its own. `Pins` relates what a client saw to
the daemon it asks: from the hello on, the process behind the pid is the one
that was judged, or is gone; with `Verified`, the daemon on the second connection
is the one judged on the first. There is one lemma per actor and one per action
that an actor does not share. They give `TypeCorrect`, `SocketServed`,
`InstalledAlone` and `StoppedOutdated`.

`StackClaimsProofs` proves `Spec => []IInv` with

    IInv == Types /\ InHand /\ Aside /\ Single /\ Dated /\ Exact /\ Condemned

for any processes, branches, claims, and numbers of saves, deaths and waits. `Single` says
that what one save left is in one place: in one directory, or aside in one
process's hand, never in both, since a rename is all that moves it. `Dated` says
that no state is from a save yet to come, so a new save is in one place too. `Exact` relates the
readings to the files: what a process has read under a number is what
the file of that number still holds, wherever it is by now, though the file may be
gone. `Aside` says at which steps a process may hold a directory aside. `Condemned` says
what a reclaimer knows: what it takes aside moved no branch that stands, and once it
removes it, what it holds is what it had read. `InHand` has the run and the branch of each step.
There is one lemma per kind of change to the files (a directory fades, is taken
aside, is put back, is written), and one per action. They give `TypeCorrect`,
`ReclaimsOnce` and `MovedSpared`.

`StackPublishProofs` proves `Spec => []IInv` with

    IInv == Repo /\ Remote /\ Saved /\ InHand /\ ReceiptsAreTrue

for any stack, any branches that may conflict, with or without a push, and any
number of events outside. `Good` says of a run, saved or in hand, that what it
holds of a branch that has not landed (its source, the head it starts from, the
replayed one, its lease) is nobody else's, and that all of them carry the work of
the source: so a branch moved forth or back loses no commit (`MovesKeepWork`), and
a push under those leases meets no head of somebody else. `Stage` says what a
process may rely on at each step, which neither copy of the run says alone: past
the replays every branch has its head; from the push until the receipts, the
leases are our own and what is about to be written down has been shown; from the
receipts on there is one for every branch. That a branch to be replayed has a base
needs the order of the stack (`UpToIsOrder`, `LowestExists`, `HighestExists`, by
the well-foundedness of the strict subsets of a finite set). There is one lemma per
kind of step of the driver (ends, goes on, saves, plans anew) and one per action.
They give `TypeCorrect`, `OthersStand`, `SourcesStay` and `ReceiptsTrue`.

`StackPublishRefsProofs` proves `Spec => [](IInv /\ Refs)` with

    Refs == Control /\ Hands /\ Follow /\ Moves /\ Kept

which relates the run to what git holds beside it. `Control` says which notes the
saved run must carry at each step, since a resumed run goes by them alone. `Hands`:
what was resolved is by hand, sources are as their users made them, and so are the
branches until the run moves them. `Follow` and `Moves` are about the checkouts: one
that trails its branch is of a branch the run moves, which is where
the run put it, so its user has not committed there meanwhile; what is
left to align or to restore covers all that trail, in whatever order the stack has them.
`Kept` says where resolved work is: under its pin until the receipts or the moved
branches hold it, or under a kept ref, which an abort writes before it drops the
pin. They give `ResolvedStays` and `CheckoutsFollowed`.

The assumptions are those the modules name. In `PRStore` they are that times are
natural numbers, durations positive, the first instant later than
the lifetimes, which the theorems use only to tell `Never` from a reading, and
`PushLag` (ten minutes) no longer than `LeaseTTL` (fifteen): a push is told of
for as long as its lease keeps its record.

Only model-checked: the liveness properties (`RemovalEnds`, `StopAnswers`,
`WaitersWake`, `StopEnds`, `ClientsAnswered`), which are out of the prover's reach. Every
invariant, every action property and the refinement that a passing run checks is a
theorem.

## Not modelled, and the plan

The runs ask what the project has most to say about; what follows would take the
place of some of them, in this order:

1. `StackPublish`: the branches it leaves out (local only, kept, held, pinned), and
   the Git lane. With them, an abstract promise: a branch is at its old head or
   at its planned one, and says which.
2. `PRStore`: the lease files as steps of their own, expiry within a run, two
   pushers of a branch, and a liveness property over a clock that wraps time
   into the past; then the quota and the app token of `ghapi`.
3. `ActivityGate`: samples, the gate, the governor and the retry streak. `QueueIndex`: the status and schedule
   orders of engine.go:1723-1940, updated in place, against their definition.
4. `IndexPublication`: segments, manifests and their collection.
5. The ship commands, the shared fetch and `vcs push`.

The rest is not a matter of states: the code tools, the search routing, the
formatting and embedding kernels and the web fetch are functions from files to
text, the git wrappers and native probes are I/O, and build scripts, benches and test
support are not the program. `PROJECT.json` says of each what it is.
