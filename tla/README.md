# A TLA+ model of the mgmt engine

mgmt is a configuration management tool that does not run once: it keeps a graph
of *resources* (files, services, packages, ...) running, each of which watches
the part of the machine it manages and repairs it when it changes, while new
graphs replace the running one at any time. The graphs come from a program in a
reactive language, whose values change while it runs, and hosts cooperate through etcd.
This directory models the parts that make this work: the resource engine with all
that surrounds it, the function engine that runs the program, and the distributed
scheduler. It checks and proves what they are relied upon for. Paths below are relative to `src/`.

## Inventory

### What there is

| Component | Source | State it keeps | Operations | Hard behaviour |
|---|---|---|---|---|
| Resource worker | `engine/graph/actions.go` (`Worker`), `state.go` | per vertex: channels, `isStateOK`, `paused`, retries, contexts | Watch loop, process loop, Pause, Resume, Poke, cancel, remove | four goroutines, six channels that close, three selects with different handlers |
| Graph processing | `actions.go` (`Process`), `refresh.go` | timestamps, refresh flags, poke buffers | Process, BadTimestamps, refresh, back poke, poke | every vertex runs concurrently, on stale views of its neighbours |
| Engine lifecycle | `engine/graph/engine.go`, `background.go`, `pgraph/graphsync.go` | `graph`, `nextGraph`, `state`, `waits`, `metas`, `senders`, `bgState`, `paused` | Load, Commit, Pause, Resume, SoftInterrupt, Shutdown, Start/StopBackground | replacement of running vertices, failure of one step of many |
| Main loop | `lib/main.go` | `started`, GAPI, deploy, contexts | take a deploy, take a graph, exit | graphs, deploys, errors and ^C in any order |
| Converger | `converger/converger.go` | registered UIDs, their timers, `converged`, hold | Register, timers, recalculate, Pause, Resume | late timer callbacks, flags read without a lock |
| Semaphores | `engine/graph/semaphore.go`, `util/semaphore` | counters by id | semaLock, semaUnlock | lock order, creation on demand |
| Send/recv | `engine/graph/sendrecv.go` | sender index, sticky `Changed` flags | SendRecv, ClearRecv | values that cross graph swaps |
| Exporter | `engine/graph/exporter.go` | cache of what was exported | Export, Prune | cache against the distributed store |
| Reversals | `engine/graph/reverse.go` | a file per reversible resource | ReversalInit, ReversalCleanup, Reversals | crash between the two |
| Auto edges, auto grouping | `engine/graph/autoedge`, `autogroup` | the pending graph, a cache of descendants | AutoEdge, AutoGroup, VertexMerge | edges move while others rely on them, in the random order of maps |
| Graph library | `pgraph` | adjacency | add, delete, sort, reachability | sequential |
| Function engine | `lang/funcs/dage`, `txn`, `ref`, `structs` | function graph, reference counts, streams, epochs, tables | process, Call, Stream, Commit, Reverse, GC | the graph changes its own shape while it is traversed |
| Scheduler, election | `etcd/scheduler`, `etcd/util/election`, `engine/resources/schedule.go` | votes, sessions, the decision | Observe, SchedulerAdd, Withdraw, Cleanup, doScheduled | leases that expire, changes of the elected host |
| GAPI, language | `gapi`, `yamlgraph`, `lang` | AST | parse, unify, interpret | sequential |
| World | `etcd`, `engine/local` | keys, deploys | file system, deployer, watchers | etcd itself |
| Resources | `engine/resources` | the machine | Watch, CheckApply of each kind | the operating system |
| Command line, setup, metrics, keys | `cli`, `firstboot`, `entry`, `prometheus`, `pgp` | - | - | - |

### How the parts interact

```
 GAPI ---graphs---> main loop --Pause/Commit/Resume--> Engine --GraphSync--> vertices
                      |  Pause/Resume                    | start/remove       |  ^
                      v                                  v                    |  | pokes,
                  converger <--timers of each vertex-- Workers <--------------+  | refresh flags
                      |                                  ^  Watch -> process loop
                  state functions                        | background functions
```

* The **main loop** selects on deploys and graphs. For each graph it prepares the
  pending graph, pauses the converger and the engine, runs SendRecv, commits, prunes
  the exports, and resumes. It ends when `deployChan` closes.
* **Commit** compares both graphs vertex by vertex (`GraphSync`), removes what
  is gone or different (close, wait for the Worker, Cleanup), adds what is new, swaps
  the graph, starts background functions, then Workers, then frees the old states.
* A **Worker** has a Watch loop that sends events over an unbuffered channel, a process loop
  that receives them, and a multiplexer that cancels one context when any of six
  channels closes. The engine reaches in through `pauseSignal`, `resumeSignal`,
  `removeDone` and the cancel function of the running Process.
* **Process** of a vertex reads the timestamps of its neighbours, pokes them (a
  buffered channel of one) and sets flags on the edges between them.
  Around CheckApply it takes semaphores, receives values from senders and exports the resource.
* The **converger** is told of activity by each vertex through a UID with a timer.
* Between Load and Commit the **pending graph** gets the global noop, automatic edges,
  grouping and reversals, in this order, and is then checked for cycles.
* The **function engine** sends a table of values to the language whenever a
  stream has an event and the traversal ends; the language makes a graph of it.
* The **scheduler** of each host is a background function: `schedule` resources vote
  through it, and the elected host stores a decision that all hosts read.

### What would be wrong

Per component, the properties that make it correct, all of them listed with the line where
they are at stake under `hazards` in `PROJECT.json`:

* worker: nothing runs while paused; a restart never overlaps a Process; no
  change of the machine is forgotten; nothing panics; Pause and removal end;
* processing: prerequisites first; nothing is forgotten when pokes are dropped;
  notifications arrive; the graph comes to rest;
* lifecycle: the old Worker is gone before the new one starts; nothing runs during
  a commit; nothing is left of earlier graphs; the program exits;
* converger: busy is never reported as converged; no change is missed; silence
  while paused; it returns;
* pending graph: order and notifications survive grouping, no cycle gets through;
* send/recv, exports: the last value is applied and exported, once nothing is left to do;
* reversals: what has to be undone is on disk until it is undone, over crashes too;
* function engine: the graph has the shape the values ask for, the table is current,
  nothing is freed while somebody uses it, it comes to rest;
* scheduler: the decision fits the votes, does not flap, and somebody makes it.

## Modules

| Module | Models | Uses |
|---|---|---|
| `Vertex` | the contract of a vertex: held or not, how far its Process is, clean or not, a refresh asked for or not | - |
| `Worker` | one vertex in detail, one action per step of each goroutine | implements `Vertex` |
| `Process` | all vertices of a graph, each Worker reduced to where it is in Process | what Worker guarantees |
| `Engine` | the main loop, Commit and Shutdown, each Worker reduced to what Commit sees | what Worker guarantees |
| `Converger` | the coordinator and its UIDs | - |
| `Semaphores` | semaphores by id and who holds them | - |
| `Apply` | Process between timestamp check and pokes: semaphores, send/recv, CheckApply, export; graph swaps | `Semaphores` |
| `Pgraph` | the graph library as operators | - |
| `Pending` | the graph between Load and Commit: AutoEdge, AutoGroup, the check for cycles | `Pgraph` |
| `Reversal` | reversal files over graphs, restarts and crashes | - |
| `Txn` | transactions on the function graph and reference counts | - |
| `FuncEngine` | the function engine on programs that change their shape | `Txn`, `Pgraph` |
| `Election` | the Observer of an etcd election | - |
| `Scheduler` | votes, sessions and decisions of several hosts | `Election` |
| `MC*` | values for the constants of one module each | the module |
| `*Proofs` | inductive invariants and theorems | the module |

The three views of a Worker are connected by a contract. `Process` and `Engine` let a Worker be
paused only between two runs of Process, keep it paused until resumed, and end it when it is
removed. `Vertex` states this, and when CheckApply is called: exactly if the vertex was dirty, has just received
a value (which marks it dirty within Process, `actions.go:236`) or has a refresh to do, which CheckApply is called for although
the cached state is good (`actions.go:286`). It is clean, and the refresh done, only after a Process that went well; others mark it
dirty only while no Process runs. `Worker` with its goroutines, channels
and retries implements this (`IsVertex`, checked by run `worker` and proved). The
mapping: a vertex is held from the return of Pause to the call of Resume, it works while `proc` is in
Process, `due` is `refresh` and `seen` what Process has read of it, and it is dead when its process loop has exited or will not run Process any more.
That the contract's steps come at all is `PauseReturns` and `RemoveReturns`.

### Worker

`watch` and `proc` are the program counters of the Watch loop and of the process
loop, `engine` that of the goroutine that pauses, resumes and removes. `proc` is `"select"`,
`"limit"` or `"retry"` in the three selects of `Worker` (lines 630, 739 and 806),
`"check"` at the non-blocking select before each Process (864), and one of
`Processing` inside it. An event, a sentinel or an error is taken by `RecvEvent`,
`RecvWatchRestart` or `RecvWatchError`: the sender blocks on an unbuffered channel,
so send and receive are one step. `doneChans` are the six channels whose closing
cancels `doneCtx`; closing one twice sets `panicked`. `wrong` is the machine: it
changes at any time, a running Watch notices, CheckApply repairs. `genuine` is a
history variable: did the last Process fail with its context intact.
`refresh` stands for the flags of the incoming edges, which neighbours set at any time (`SetDownstreamRefresh`); `ProcessReceives`
is Process from SendRecv to the decision of `CheckApplyNeeded`, and `ProcessGivesUp` its early returns.
The metaparameters retry, delay, retryreset, limit, noop, poll and hidden are constants, and so is whether the resource can refresh.

### Process

A timestamp is only ever compared with that of a neighbour, so instead of a
number the state has `fresh`, the set of edges whose source is newer. With
`WallClock = FALSE` taking the time makes a vertex the newest; with `TRUE` it may compare
any way with vertices that ran before, as when the clock is set back. Process is cut
into the steps between which another Worker can be noticed: the timestamp check,
each poke, the read of the refresh flags, CheckApply, the clearing and
setting of flags, the timestamp. `Pause` and `Resume` sweep the vertices in the
topological order and its reverse.

### Engine

A vertex is a pointer: `<<name, load>>` is the resource of that name in the graph
that arrived as number `load`, so a replaced resource and its replacement are two
vertices of one name. `pc` is the place of the one goroutine that drives the engine. Each
step of a commit that can fail has an action in which it does. The maps of the
engine are the sets of their keys. A Worker that exits reads two of these maps under a
lock that their writer does not hold; `WorkerExits` therefore includes Go's fatal error
"concurrent map read and map write".

### Converger

Time is a counter. A timer that fired is `"fired"` until its callback gets the mutex of
the UID; if the timer is replaced or stopped before that, the callback is `stale`. Storing
a flag and poking the main loop are two steps (`owesPoke`), as are the single
reads of `convergedSnapshot`. `active` is a history variable.

### Apply and Semaphores

A sender `s` and a receiver `r` run Process concurrently. `pc` says how far each is; a failing step goes
back to `Retry` with what the code keeps. The export runs next to CheckApply, as the code's goroutine does
(`ex`). `Semaphores` keeps for each vertex the list of what it has taken, in the order in which it takes
it. `Swap` is the whole sequence pause, SendRecv, Commit, first part of Prune; the deletions of Prune
follow one by one. SetResources and DelResources are atomic transactions of etcd. Meta:retry is -1.

### Pending

Resources are numbered as `RHVSort` orders them, so the two loops of `VertexNext` are a counter
over pairs. A graph is a set of edges and the subset that notifies. An operator that walks a map returns the
set of all results: `VertexMerge` moves the incoming and then the outgoing edges in every order
and over every shortest path (`Move` is one turn of its loops, `Moved` a whole loop). AutoEdge is one step, since nobody
else sees the pending graph. `KindsAssumption` says what `RHVSlice.Less` compares first: a longer kind has a smaller number.

### Reversal

`file` and `machine` survive a crash, all else is lost. A commit is a list of removals, then of additions
(`todo`), each of which may fail, and os.WriteFile is two steps, `ReversalWrite` and `Written`. What a resource wants is a content,
to exist, to be absent, or (`Edit`) a content without a state, which FileRes leaves undefined: then the reversal has
what the file contains, or no content if there is no file, and CheckApply does not create one. `Wants` is what the frontend may ask for.
`owed` is a history variable: from the moment a resource with Meta:reverse may run until its
reversal has succeeded, it holds what would undo it.

### Txn and FuncEngine

A program is one of six, with two inputs whose values decide its shape: nested if expressions, the same with an input
whose failure nobody catches, map over a list, except, a for statement and an if statement. `Txn` is the list of operations of a transaction, what it
will give back when reversed, and the reference counts from which GC decides. `AddGraph` lists the operations in one order where the code
walks a map: the counts are sums, the traversal takes any topological order, and the order in which functions are added only shows in the order of their Inits.
Graph field `redone` is a history variable: has a reversal been reversed (Reverse after Reverse with an empty Commit in between)? `FuncEngine` is the
loop of `process()`: take an event, traverse the topological order, call what is outdated by its epoch, stop
when a call changed the graph, send the table at the end. `inc` numbers the incarnations of
a function, so that events and streams of an earlier one can be told apart.

### Election and Scheduler

An election of etcd is the queue of its keys; the holder of the oldest is the leader. Hosts hear of changes as
events they have not taken yet. A vote is a key with or without a lease; `orphan` is one that
nobody renews and that expires at some time. `Crash`, `CutOff` and the failing calls count against `MaxFaults`.
A vote is read (`getData`), and the decision made and stored (`doScheduled`), in two steps, so that it may be outdated when it is stored.
The transaction of SchedulerAdd or SchedulerWithdraw may fail after etcd has run it, and CheckApply is tried again (`TxnFails`); a Watch that
fails runs its deferred SchedulerCleanup and is restarted (`WatchFails`), as does one that ends with its resource (`WatchReturns`).
Simplified: SchedulerAdd's session and transaction are one step, as are running the strategy and
storing the decision; resources with Meta:noop, which do not vote, are left out; etcd's repeated delivery of the same leader, and events that a host which is not
elected ignores, are left out.

## Runs

| Run | Instance | Shows |
|---|---|---|
| `worker` | a watching, refreshable vertex, retry 1, delay, rate limit, retryreset, fresh or spent retries | restarts, events, received values, refreshes, interrupts and retries, and that Worker implements Vertex |
| `worker_live` | retry for ever, no delay, no limit: the tightest loops | Pause and removal return |
| `process` | two prerequisites of one vertex, notify edges, one extra event, pauses | order, no lost work |
| `process_live` | a row of three, its last vertex noop and hidden | a graph in which each vertex has at most one prerequisite comes to rest; for others see `MCProcessJoin.cfg` |
| `apply` | two semaphores in opposite orders, two values, two hosts, two swaps, two failures | received values are applied and exported, nobody waits for ever for a semaphore |
| `pending` | every DAG of four resources, four choices of kinds, one notification, one automatic edge | grouping keeps order, notifications and DAG and is complete; cycles are found |
| `engine` | two names, one with a background function, one with rewatch, two graphs | Commit is alone, leaves what the new graph needs and nothing else, and never panics; the exit completes and is clean |
| `reversal` | two resources, one of them at times without a state, one content, noop or not, unbounded graphs, failures and crashes | instructions survive until they are carried out |
| `converger` | two UIDs, duration 1, time 0 to 1 | busy is never converged, no poke is lost, Pause returns, and Run does when the program ends |
| `funcs` | all six programs; lists of 0 to 2, two changes, failing streams, cancellation | references and shape until a reversal is reversed, tables; comes to rest and returns |
| `scheduler` | two hosts, one with a ttl, one pick, a swap and a fault | decisions fit votes and do not flap, votes arrive, nobody wrongly stays elected |
| `scheduler_elected` | as `scheduler`, without faults | finding: `SomeoneIsElected` is violated |

### Further properties

The type invariants and some properties that follow in part from those of the runs are not part of a run.
For `Worker` (`TypeOK`, `NoProcessWhilePaused`, `NoPanic`, `DoneNeverHitsProcess`), `Process` (`TypeOK`,
`PrerequisitesFirst`), `Converger` (`TypeOK`, `PausedIsSilent`), `Reversal` (`TypeOK`, `TornByCrash`), `Engine` (`TypeOK`,
`ExitIsClean`), `Apply` (`TypeOK`, `SemaphoresBalance`, `CleanIsApplied`), `Scheduler` (`TypeOK`, `VotesHaveOwners`) and `Pending` (`TypeOK`)
they are proved. For `FuncEngine` a second configuration has them, on the instance of the run; it is run by hand and passes.

| Configuration | Properties |
|---|---|
| `MCFuncEngineMore.cfg` | `TypeOK`, `NeverFails`, without the for statement |

### Bounds

* `Worker` is finite without a bound. Retry 1 has a first failure that is retried and a second
  that is permanent; an inherited 0 starts with the last one; for ever is -1.
* `Process`: the smallest graph in which a poke is left to another
  prerequisite is two into one. `MaxEvents` counts events beyond the initial one of each vertex; back
  pokes, retries and resumes already make every vertex run any number of times. `process_live` has a row of three, so that a back poke goes
  to a vertex that is itself back-poking while its prerequisite pokes; it has no extra event. The premise `OnePrerequisite` of `Converges` is where it stops being true.
  What the proofs cover does not depend on the graph.
* `Engine`: `MaxLoads = 2` gives every case of a name in Commit: new, kept, replaced, removed,
  reloaded after an error, and the empty graph of Shutdown comes as a third.
  Two names are needed for one failure among several.
* `Converger`: with `Duration = 1` a timer can fire within `MaxTime = 1`, be replaced, and its
  callback come late; two UIDs are needed for a snapshot that changes under its reader.
* `Apply`: one value beyond the first of each sender makes an old and a new one; two swaps remove and bring
  back a resource; two faults let a retry fail again.
* `Pending`: four resources are the smallest graph in which one merge outdates the cache for another pair
  (a1 -> b1, b2 -> a2), and have a hierarchy of three kinds next to another resource. `MaxNotify = 1`,
  since merging is a disjunction and notifications do not influence each other.
* `Reversal` is finite without a bound. `n1` is a file with a content or absent, `n2` one with a content or with a content and no state.
* `FuncEngine`: two changes replace a shape and replace it again, or change both inputs; a list of two has
  an element that goes and one that stays, and an empty list is the program in which an empty Commit is followed by a Reverse. There the if
  and for statements bring an old subgraph back; `ReferencesHaveOwners` and `GraphFollowsInputs` except the graphs after that (`redone`), and
  `MCFuncEngineReverse.cfg` shows that without the exception the code violates `ShapeFollowsInputs`. The error that
  stops the engine when a list gets shorter is in the run, and `ComesToRest` excepts it.
* `Scheduler`: one fault at any place, one swap per host.

Deadlock checking is off for `Engine` (after a failed Cleanup the program waits for ever, which
`ShutdownCompletes` excludes in its statement), `Apply`, `Pending` and `Scheduler`, which stop when
nothing is left to do or the bounds are used up. The others have a step for the proper end, or
never end, so that a standstill would be reported.

### Fairness

Weak fairness says that a goroutine that can run does. Strong fairness is used for
cases of a `select` that are ready again and again: Go picks among ready cases
at random. Watch returns when its context is cancelled and CheckApply returns
at all, as the resource guide (`docs/resource-guide.md`) demands of resources; the same goes for Stream
of a function. Nothing is assumed to fail, to succeed, to change, to poke, to deploy or to be interrupted.
In `Engine` a GAPI may send graphs for ever; a closed `deployChan` is selected in the end. In `Converger`
UIDs unregister when the program ends (`control = "ended"`), since the Workers are then removed. A state function that fails does not end it: only the
context of Run is cancelled, so Run waits on (`FailureReturns` below), and `RunReturns` starts from the end of the program. In `Apply` a retry that may
succeed again and again is bounded by `MaxFaults`. In `FuncEngine` fairness of `process()` is written
with its guard `Busy` and its steps `Moves`, which is weak fairness without ENABLED. In `Scheduler`
calls to etcd return and leases that nobody renews run out.

## Findings

One run expects a violation, and `findings` in `PROJECT.json` quotes the comment it contradicts:
`election.go:190`. A host that finds somebody elected never campaigns. When the elected
host leaves, even in good order, nobody is elected again while these schedulers run.

### Counterexample configurations

Each of these is run by hand (`tlc -config X.cfg MC...`) and violates the property named.

| Configuration | Property | What happens |
|---|---|---|
| `MCWorkerStart.cfg` | `InitialEventStarts` | `actions.go:761`: an initial event taken by a satellite select does not set `started`, and the vertex sleeps until the next event |
| `MCProcessNotify.cfg` | `NotificationsArrive` | `actions.go:387`: with two prerequisites at rest, the notification of one is set and nobody is poked |
| `MCProcessRefresh.cfg` | `PendingUntilServed` | `actions.go:348`: a notification that arrives during CheckApply is cleared with the one that was served, although `engine/edge.go:45` calls the flag "is there a notify pending for the dest vertex ?" |
| `MCProcessJoin.cfg` | `EveryGraphConverges` | two prerequisites each poke a vertex that puts itself off twice and back-pokes both, in step with each other, for ever; it takes this one schedule and costs processor time only. About a minute |
| `MCConvergerHold.cfg` | `NoLostHold` | `converger.go:220`: a hold that expires while the state functions run is lost |
| `MCConverger.cfg` with `Duration = 1`, one UID, and only this property | `FailureReturns` | `converger.go:178`: after a failed state function Run waits for every UID to unregister; `main.go:615-624` ends the program, and with it the UIDs, only once Run has returned, so "converger run failed" is reported when something else has ended the program |
| `MCEngineShutdown.cfg` | `ShutdownAlwaysCompletes` | `engine.go:414`: one failing Cleanup makes Shutdown hang |
| `MCEnginePause.cfg` | `NeverPausedTwice` | `main.go:1148`: after a failed commit, a graph that arrives before `deployChan` closes pauses the converger twice, which panics |
| `MCApplyExport.cfg` | `ExportsAreCurrent` | `actions.go:319`: `ClearRecv` runs before the error of the export is looked at. If the export of a newly received value fails, the retry finds nothing changed and the cache valid, and other hosts keep the old value; `exporter.go:117` says "If send/recv or any other weird resource method changes things, then we also want to invalidate the state cache." |
| `MCPendingNotify.cfg` | `UserNotifyKept` | `autoedge.go:167`: an automatic edge overwrites an edge of the program, and with it Notify. `docs/language-guide.md:358` says of Notify and Listen "the second two are normal edge dependencies that also send notifications"; `pgraph.go:286` has a TODO for it |
| `MCReversalNoop.cfg` | `NoopIsNoop` | `main.go:1118`: reversals join the graph after the global noop was applied to it, and run for real; `docs/documentation.md:390` says "Globally force all resources into no-op mode" |
| `MCReversalTorn.cfg` | `NeverTorn` | `reverse.go:307`: a crash between truncation and write loses the instructions, also when the file was to be rewritten unchanged, and no graph can be loaded any more |
| `MCFuncEngineFor.cfg` | `NeverFails` | `for.go:151`: when a list gets shorter, the element functions of the old one are called with the new list and index it out of range, which stops the function engine |
| `MCFuncEngineGlitch.cfg` | `TableIsConsistent` | a table can hold values of two inputs and a join of older ones, against "All values in a returned table should be part of the same epoch" in `dage.go` |
| `MCFuncEngineReverse.cfg` | `ShapeFollowsInputs` | `txn.go`, `ref.go:172`: Reverse after Reverse, with an empty Commit in between, brings the old subgraph back (an if statement without else; the same happens to a for statement whose list becomes empty) |

Also seen while modelling:

* Worker: after a failed Watch has called `cancelProcess` and before its sentinel is taken, one more Process
  may begin, uncancelled (the new Watch waits for it); a vertex that is paused while its permanent
  failure is being delivered may be passed over by Resume and keeps its goroutine until it is removed.
* A snapshot of the converger can show a combination of flags that never held at one instant. With a
  clock that steps back, a vertex may run on prerequisites older than itself.
* `StopBackground` cannot report an error, because `background.go:92` stores another variable.
* A list that names one semaphore twice waits for itself, although `actions.go:141` says "there is no way to
  permanently deadlock"; `main.go:1077` can append such a name.
* SetResources and DelResources return the opposite of what their comments say (`resources.go:196`, `world.go:147`).
  Resources whose export failed halfway are not in the cache, so Prune never deletes them.
* VertexMerge can drop an order if the graph has a cycle. No such graph runs: one cycle
  always stays, and the check at the end finds it (`OnlyDagsRun`).
* A resource whose reversal depends on the machine (a file that is to be absent, or a mode without a content)
  fails at every restart with "existing, pending, reversible resource exists", once the
  machine has changed. A first deploy with --noop stores a noop reversal. Overwrite, which would help, is set nowhere.
* `dage.go` says that a function is quiescent when its Cleanup runs; its stream is cancelled, not awaited.
* A Scheduler that is started again in the same process keeps the strategy of the first one, which is the
  exception of `NoChurn`; a host that restarts while its old key exists believes to be elected; a decision is stored
  without a test of leadership; a vote whose lease expired comes back only when the decision changes;
  an error of NewSession returns with the mutex locked (`scheduler.go:432`).

## Proofs

Proved by TLAPS for every value of the constants that satisfies the named assumptions.

**WorkerProofs**: all invariants of `Worker` and its action property, for all metaparameters. No property is inductive alone. `IInv` adds: why each done channel is
closed (`DoneReasons`), what the engine goroutine may rely on at each place (`Handshake`: from the
return of Pause on, the process loop is parked or will never run Process again), what holds while
a Process runs (`Running`), that a Watch without its initial event is not believed
(`Withdrawn`), that a verdict about to be stored is not outdated (`Tracked`), and what a
returning Process leaves to be judged (`Verdict`). `RetryOnlyOnFailure` follows from `Verdict`,
since only `ProcessReturns` spends a retry. `Refinement` shows `Spec => IsVertex` from the same
invariant: initial states map to initial states, and each action of each goroutine to one step of `Vertex` or
to none. That CheckApply is called exactly if there is something to do, refreshes and received values included, is the step of
`ProcessReceives` (`Apply` or `Skip`); an event marks the vertex dirty from the three selects only, where it is idle (`Mark`).

**ReversalProofs**: the four invariants of `Reversal`, for any resources and contents, under the
assumption `~Overwrite` stated in each theorem (no frontend sets it). `IInv` adds what GraphSync has done so far
(`Progress`), that the pending graph has the reversal of what is gone (`Planned`), that a file being written
holds what is owed (`Writing`), that only resources of the frontend leave reversals (`Origin`), and that a reversal whose
state is OK has paid (`Done`), which is why erasing the file is safe.

**ConvergerProofs**: the four invariants of `Converger`, for any set of UIDs and
any duration, the disabled coordinator included. `NoLostPoke` needs an invariant about a reader whose
data changes behind it: `Reading` says that every flag already read is as it was read, unless its UID
still owes a poke or one is buffered, and `Decided` carries that to the moment the loop
blocks. `Timers` ties an armed timer to the last activity, from which
`ConvergedUIDIsQuiet` follows; `Control` pairs the caller with the loop.

**ProcessProofs**: for every acyclic graph. `SafeInv` holds under any clock and gives the types and
`PrerequisitesFirst`. `WorkInv` assumes a clock that moves forward (`WallClock = FALSE`, stated in the
theorems) and gives `PrerequisitesNewer` and `NoLostWork`. Its core is a pair: `Behind`
says that each prerequisite that holds back a waiting vertex is itself waiting or will run,
`Wakes` that a waiting vertex nobody holds back any more has a poke on its way, or a pause that
makes up for a skipped one. When all is quiet, `Behind` sends each waiting vertex to another
waiting one, which `DagAssumption` makes impossible: the set of waiting vertices would have no
first element.

**EngineProofs**: the invariants of `Engine` and its action property, for any resources, kinds and number of
graphs. `IInv` says for each place of Commit what has been done for the vertices already visited and what is left
for the others: GraphSync (`Syncing`, `Removing`), after the swap of the graph (`Swapped`), the background functions
(`Booted`), the Workers (`Starting`), the old states (`Stopping`), and between two commits `Installed`. `Fresh` and
`Pending` say that the graph to install has left no trace yet, which is why a replacement is never mistaken for what it
replaces; `Owned` that every Worker belongs to the graph, `Quiet` that it is paused where it has to be, and `Control` what
a failure rules out. `CommitIsExclusive` and `ExitIsClean` follow from these; `RetriesSurviveReplacement` is about
the swap of the graph, the one step that drops metas: `Owned` gives that no vertex that stays has the name of one that goes.

**ApplyProofs**: the six invariants of `Apply`, for any values, hosts, semaphores and lists of them. `Holding` ties the
place of a vertex in its list to the place in Process. `Applied` says what `isStateOK` means at each place of Process, `Told` that a flag
about to be cleared was seen, `Served` that whoever lacks the last value is due or running, `Known` and
`InWorld` what the cache of the exporter may be trusted for. `SemaphoresBalance` needs that a list can be sorted and that the sorted
list has each semaphore as often as the list (`Taken` counts the one, `Released` the other). That is induction over the length of the
list; it is done with the least length that fails (`LeastNumber`, from the library's `WFMin`), by inserting
the last element into the sorted rest.

**SchedulerProofs**: the types, `DecisionFitsVotes`, `VotesHaveOwners` and the action property `NoChurn`, for any hosts, any number to
pick, and any swaps and faults. `Candidate` says what a host that campaigns or believes to be elected may
rely on: a key that is gone does not come back in the same life of its host. Hence a strategy's memory is
that of the last decision (`Remembers`), or its host will never decide with it again. `Decides` carries the votes from
their reading to the decision; `Owns` follows a vote through removal and exit. Under them are
lemmas about `Filter`, by counting (`Ranks`, `Filtered`): what it keeps, in which order, and that nothing moves back,
so that the first `MaxCount` hosts of a rotation stay first.

**PendingProofs**: the invariants of `Pending`, for any number of resources, any kinds in the order of `RHVSort`, any acyclic program
and any automatic edges; and three theorems about the algorithms on their own. It has four layers.

* *Recursion.* `Descendants`, `bfsShortestPath`, `Kahn` and `Moved` are recursive functions. `Iteration` proves with the least
  number that fails that such a function exists, so that each satisfies its equations (`ReachEquations`, `PathEquations`,
  `KahnEquations`, `MovedEquations`).
* *Graphs.* `Below` is the least set closed under the edges. `DescendantsAreBelow` shows that the search computes it (a set that grows at every
  turn is complete after as many turns as there are vertices), and from then on all is about `Below`. `SortMeansDag`
  and `DagIsSorted` are the two halves of Kahn's algorithm: what is listed comes after all that is before it, and what waits for
  nothing more is listed or on the stack.
* *One merge.* Half-way through `VertexMerge` the graph has neither the old order nor the new one: w still has
  edges and v already has some of them. The invariant of its loops, `Loop`, looks at the graph through the
  map that takes w to v: its image never has more edges than that of the graph before, and orders as much,
  or closes a cycle as that one does. `QuotientAcyclic` says that this image has no cycle if neither vertex was below the other, and
  `VertexMergeWell` what follows when no edge of w is left. It is the guarantee that the comment of `VertexMerge` claims
  (`autogroup/util.go:47`), and also says that a cycle that was there stays.
* *The run.* The properties are not inductive: a merge trusts the cache, and a later pair trusts what an earlier one found.
  `IInv` adds that the cache is right (`CacheCorrect`), that there is a cycle now if and only if there was one (`CycleKept`),
  and for `GroupedAsFarAsPossible` `Compared`: a pair that was looked at and could be one group is ordered, which
  later merges keep. `Groups` says why no pair escapes by being skipped: a vertex has a group only after its row
  began, so that of two packages the smaller one takes in the other, and a child goes into a parent with a larger number, whose row comes
  after its own. This is where the reverse order of `RHVSort` is needed. `NoFalseAlarm` is an action property
  that follows from `CycleKept` and `DagIsSorted`.

**Only model-checked**: every liveness property, since fairness is outside of what these proofs can treat; all of
`FuncEngine`, whose steps fold a transaction of any length over the function graph and its reference counts; and the findings, which are counterexamples.

**Assumptions**: those named in the modules (`DagAssumption` comes from the topological sort
that the main loop runs on each graph before it is committed; `SchedulerAssumption` says that `Order` lists each host once;
`ResAssumption` and `KindsAssumption` that the resources are numbered as `RHVSort` orders them; the
others are types and distinct model values) and those stated in a theorem. `SemaAssumption` allows a list that names a semaphore twice: the
invariants hold for it, although it waits for itself.

## Not modelled

`components` in `PROJECT.json` gives the reason for each part. In short: the parser, the types, unification and the rest of
the language front end are a sequential compiler; resources and utilities act on the operating system; the etcd
wrappers rest on etcd's own guarantees; metrics, keys, command line and setup are input and output.
These are most of the lines of the repository, so the models cover a small share of them and most of its concurrency.
Left out of modelled components: log messages, prometheus counters, the third ^C (`Interrupt`), which only calls
into resources, owner and mode of files, the reflection that copies values, and the order of functions with affinity.

## Plan

Done: every module above with its runs; proofs for `Worker` (with the refinement of `Vertex`), `Process`, `Converger`, `Reversal`,
`Engine`, `Apply`, `Scheduler` and `Pending`.

Next: the reference counts of `Txn` (`ReferencesHaveOwners`), then that the function graph has the shape its inputs
call for (`GraphFollowsInputs`). `Iteration` and the layers above it in `PendingProofs` are what a proof about its folds
would start from.
