# TensorGrid: specification and verification

TLA+ modules of TensorGrid (a cluster that pools the machines of one owner to
run and fine-tune language models), the TLC configurations that check them on
small instances, and TLAPS proofs of what matters most for instances of any
size. Paths are relative to the repository's root. `PROJECT.json` maps each
definition to the lines of Rust it stands for, lists what can go wrong in the
code (hazards) and where the code and its words disagree (findings).

    tlc -workers 2 -config MCMembership.cfg MCMembership     # a run
    tlapm MembershipProofs.tla                               # the proofs

## 1. The system

| Part | State it keeps | Operations | Talks to |
|---|---|---|---|
| Coordinator: HTTP API and heartbeat monitor (`services/coordinator/src/{main,api}.rs`) | `ClusterState`: id, map of nodes, pairing manager, each under a tokio `RwLock`; only in memory | `register_node`, `send_heartbeat`, `get_cluster`, the monitor's sweep every 5 s | node agents over HTTP |
| Node agent (`services/node-agent`) | node id, client, counter of failed attempts | register, heartbeat every 2 s, back-off and reconnection | coordinator |
| Node control (`services/coordinator/src/node_control.rs`) | the coordinator's `ClusterState` | `register`, `heartbeat`, `probe`, `prepare_plan`, `commit_plan`, `cancel_plan`, `drain`, `set_permissions`, `benchmark` | gRPC clients; the registry; the pairing manager |
| Secure pairing (`crates/secure-pairing`) | pending challenges, node keys | challenge, verify, revoke, clean up | node control |
| Scheduler (`services/scheduler`) | `node_allocations` and `sessions`, two locks | `schedule`, `release_session`, `get_stats` | a snapshot of the cluster |
| Tensor directory (`services/tensor-directory`) | `tensors` and `node_tensors`, two locks | register, add, remove, transfer, evict, list, statistics | whoever places tensors |
| Planner (`services/planner`) | none between calls | `create_plan` | the executor, which gets the plan by value |
| Pipeline executor (`services/pipeline-executor`) | `active_sessions`, one lock | initialize, execute, pause, resume, cancel | the planner's plans |
| Fine-tuning (`services/fine-tuning`) | `jobs`, one lock; a background task per start | create, start, pause, resume, cancel, delete | its own background tasks |
| Model registry (`services/model-registry`) | `models`, one lock; a cache of files | register, unregister, mark, unmark | the file system |
| TCP transport (`transports/tcp`) | count of active connections, a task for each | accept, handle a connection, acknowledge; the client's connect, send, ping | TCP peers |
| QUIC, RDMA, topology, runtimes, model format, hardware probe, observability, desktop UI, protocols | see section 7 | | |

The services are libraries or processes that share no memory but for the
coordinator's `ClusterState`; inside each, tokio tasks on several threads share
maps under fair read-write locks. What is hard is what happens between two
awaits: a lock given up and another taken, a clock read before a lock, a file
looked for before it is written, a caller who drops its future, a task that
waits with a lock in its hand, requests and replies that are lost or late, and
processes that restart with empty maps.

What makes each part correct:

* membership: the registry is never staler than its thresholds promise; only
  silent nodes are suspected or removed, and all of them are removed;
* node control: plans go to nodes that serve and not to nodes told to drain; one
  certificate for each challenge;
* scheduler: reservations add up whatever the order of calls, no node gets
  more than it has, refusals leave nothing behind, the lists of active sessions
  show what is reserved;
* directory: index and placements agree, and differ only by what dropped callers
  and replaced registrations leave; an eviction is complete but for that; a
  version tells that the copies changed; calls end;
* planner and executor: stages tile the layers of the model, tokens pass
  through all of them in order, other callers do not come between;
* fine-tuning: jobs are trained until they end, and then stay as they are;
* registry: the file of a registered model is the whole file, and a file that is
  in the cache can be removed again;
* TCP: the count is the connections being handled and those that failed, an
  acknowledgment is for all that the header announced, nobody but a peer that
  stops sending holds a handler up.

## 2. Modules

| Module | What it models | MC module | Proofs |
|---|---|---|---|
| `Membership` | registry, monitor, HTTP handlers, agents, the calls between them, time | `MCMembership` | `MembershipProofs` |
| `LeaseRegistry` | abstract: leases that are granted, renewed and swept away, with a limit on how long a spent one stays | | refined by `Membership` |
| `SecurePairing` | pairing manager | | `ControlProofs` |
| `NodeControl` | gRPC handlers; extends `Membership` (registry, monitor, time, crashes) and `SecurePairing` | `MCNodeControl` | `ControlProofs` |
| `Scheduler` | the scheduler | `MCScheduler` | `SchedulerProofs` |
| `Reservations` | abstract: a ledger whose reservations are made and given back whole | | refined by `Scheduler` |
| `TensorDirectory` | the directory and its two locks | `MCTensorDirectory` | `DirectoryProofs` |
| `AtomicDirectory` | abstract: one map, each call a single step, no locks and no index | | refined by `TensorDirectory` |
| `Planner` | `create_plan`, one step per turn of its loop | | `InferenceProofs` |
| `PipelineExecutor` | the executor and its lock | | `InferenceProofs` |
| `Inference` | extends both: sessions are initialized with plans the planner made | `MCInference` | `InferenceProofs` |
| `FineTuning` | jobs, background tasks, the lock | `MCFineTuning` | `FineTuningProofs` |
| `JobLifecycle` | abstract: the life of a job from creation to deletion | | refined by `FineTuning` |
| `ModelRegistry` | entries, files and calls step by step | `MCModelRegistry` | `RegistryProofs` |
| `TcpTransport` | server, handlers, the count, clients and other peers | `MCTcpTransport` | `TcpProofs` |

Conventions. A task's step ends where the code awaits something or gives up a
lock that others wait for; what is done under a lock between two awaits is one
step. Who may be dropped is a caller, while it waits for a lock: the scheduler, the
directory, the executor, fine-tuning, the registry and node control each have the
step for it, and it is never fair. A variable has the name of the field it stands for. Variables whose
comment says `history` observe and guard nothing. A definition whose comment
calls it a bug is not used: it is what a definition of the code could have been
by mistake, and the property it is paired with in `PROJECT.json` is false with it.

### Membership

`nodes` is `ClusterState.nodes`, `last_heartbeat` kept as an age. `monitor` has
two phases, because `heartbeat_monitor` reads `now` (main.rs:122) before it
waits for the lock: `MonitorTick` reads the clock, `MonitorSweep` is the loop
under the lock, with both thresholds. `register_node` likewise stamps an entry
before it has the lock: `StampRegistration`, `HandleRegister`. An agent is a
process with the states of `start_heartbeat_loop`; its two node ids are there
because the loop reads `node_id` once (main.rs:97) and keeps using it.
Connections break before or after the request took effect, calls are delayed
for any time (the client has no timeout), agents are killed, the coordinator
crashes and starts again with an empty registry. `Tick` is time; it waits for
what the program does at once or within `LockDelay` and `CallTime`.
`LeaseRegistry` keeps of all this the ages of the entries, and whether the
coordinator runs: a lease is granted, possibly with an age; renewed; swept away
only when it is spent; and none gets older than term and grace together, the
grace being the monitor's period and what its clock and the lock cost.

### NodeControl, SecurePairing

`register` makes a challenge and stamps the entry under the pairing manager's
lock (`BeginRegister`), which it keeps while it waits for the registry's
(`FinishRegister`, or `DropRegister` when the caller goes away). The other
handlers have one lock for one step. `probe` makes a node Healthy without a new
`last_heartbeat`; `heartbeat` makes it Healthy whatever it was, Draining
included: `Drain` sets the status and is all there is of a drain. `heard` is
history. The HTTP agents take no steps here, having the same effects on the
registry as `register` and `heartbeat`. What a plan needs and a node has is left
out: a plan without weights fits everywhere, so that whether a plan can be
accepted is decided by the status.

### Scheduler

A call goes through the await points of `schedule`, `release_session` or
`get_stats`. `ReserveResources` is the loop under the lock of the allocations,
`StoreSession` the insert under the lock of the sessions; between them other
calls run, or the caller drops the call (`DropCall`). `release_session` keeps
the lock of the sessions until it has the other. The cluster is a constant,
because the service works on the one it was built with. Two histories say where the
lists of active sessions (`active`) may differ from the reservations: `lost` counts
those whose record is gone, by id, and `struck` the entries that a release has struck
of other reservations under its id, since `retain` drops every copy.

### TensorDirectory

Two locks with their queues. `FirstLock` says which a call takes first: this is
all that `evict_from_node` and `get_tensors_on_node` do differently. Placements
and index are bags, since `add_placement` tests for nothing and both vectors can
name a node or a tensor twice. `transfer_tensor` gives up the lock between its
check of the source and its addition. `DropCall` is a caller that goes away while it
waits: for its first lock without a trace, for its second with `tensors` changed, the
index not, and the first lock given up. Two histories keep the account: `missed`
the copies no list will ever name, `stale` the mentions of copies that are gone (a
registration that replaces another one leaves such, too). `AtomicDirectory` shows of
all this the set of nodes that have a copy of each tensor (`Where`), of a call
whether it has taken effect (`Done`), and which copies on a node an eviction may
overlook (`Hidden`): a two-lock call takes effect under its first lock, or is given
up before or after that; and an eviction, which takes effect under its second, must
find every copy there is but the hidden ones.

### Planner, PipelineExecutor, Inference

`CreatePlan` chooses strategy (from the averages of the
links' measurements and the GPUs at hand) and nodes (in any order: a `HashMap`), `AddStage`
is one turn of `partition_model`'s loop with its rounding, clamp and `continue`,
`FinishPlan` its end. The executor keeps its lock over the awaits of a whole
execution; `NextStage`, `NextPass` and `FinishExecute` are what happens between
two sleeps. `Inference` makes plans first and uses them then. Nothing is lost by
that: the two share no state, and a plan is passed by value.

### FineTuning

One fair lock (`queue`), which a dropped call leaves (`DropCall`); a task cannot be
dropped. `Train` has the states of `run_training`. The read guard of line 257 lives
as long as the `if let` it is in, hence also while the trainer waits for the resume:
`GuardHolders`. A job has its id (`used`) from the moment `create_job` is called.
`JobLifecycle` has the same jobs without callers, trainers and lock.

### ModelRegistry

`register_model` looks for the file (`LookForFile`), opens the target
(`OpenCopy`, which truncates it), copies (`FinishCopy`, `FailCopy`) and inserts
the entry (`InsertModel`), with a lock only for the last: a caller who goes away while
it waits for that (`DropCall`) leaves its file in the cache. `unregister_model`
removes the file under the lock. `abandoned` is history: the files that a
dropped or failed call or a restart left to nobody. `dirs` starts as any set, because the
directory a file goes into is created by no code. `Restart` empties the memory
and keeps the files.

### TcpTransport

A handler is `handle_connection`, from `accept` to the end of its task; a step
ends at an await of the stream. The count's lock is never held over an await, so
counting is one step and uncounting another; an error passed on by `?` ends the
task in between (`Fail`). Peers are `TcpClient`s, whose first header panics
(`ClientPanics`), and other programs of the same format, which send a header,
any part of the payload, and close or reset the connection when they like. Of the
length in a header the lowest byte is lost: `LengthUnit` is 256 in the code.

## 3. Runs

| Run | Instance | Distinct states | Shows |
|---|---|---|---|
| `membership` | 2 agents, thresholds 3 and 5, period 2, lock delay 1, 1 fault, fair | 226 thousand | staleness is bounded, suspicion only of silent nodes, the service implements `LeaseRegistry` (so only silent nodes are removed), no false suspicion without faults, entries nobody sends heartbeats for leave |
| `membership_reconnect` | 1 agent, 2 faults, everything repaired | 27 thousand | finding 1 |
| `node_control` | 2 node ids, thresholds 1 and 2, 1 crash, expiry 2 | 647 thousand | plans on serving nodes, one certificate each |
| `node_drain` | 1 node id, no faults, fair | 1.5 thousand | finding 4 |
| `scheduler` | 4 nodes (3 healthy, 2 selected), 3 sessions, 3 tasks, ids reused, calls dropped | 3.7 thousand (symmetry) | allocations add up, the service implements `Reservations`, lists and statistics agree with reservations |
| `tensor_directory` | 2 tensors, 2 nodes, 3 tasks, 4 calls, calls dropped | 112 thousand (symmetry) | the index differs from the copies only by what dropped callers and replaced registrations leave, the service implements `AtomicDirectory`, versions tell changes, calls go on unless an eviction or a listing crosses another call |
| `directory_eviction` | 1 tensor, 1 node, 2 calls | 377 | finding 2 |
| `inference` | 3 nodes, 2 with a GPU, up to 4 layers, up to 2 links; then 2 clients, 2 sessions, 4 calls, 3 token values | 417 thousand | stages tile the model, passes are complete and in order, pauses hold, calls return |
| `fine_tuning` | 2 clients, 2 jobs, 2 tasks at a time, 2 epochs, 5 calls, calls dropped | 109 thousand | running jobs have a task, the service implements `JobLifecycle`, progress, jobs, calls and tasks end unless a task is caught in the wait for a resume |
| `fine_tuning_resume` | 1 client, 1 job, 4 calls | 568 | finding 3 |
| `model_registry` | 3 clients, 2 models, 2 nodes, 6 calls, calls dropped, 2 faults | 603 thousand (symmetry) | when registered files are whole, which files nobody can remove |
| `tcp_transport` | 3 connections, one of a `TcpClient`; lengths up to 3, unit 2, buffer 1 | 553 thousand | the count is the live handlers and the failed ones, acknowledged payloads were read, handlers end unless their peer stays silent |

Why the bounds are enough:

* Membership. The times keep the order they have in the code (heartbeat <
  period < suspicion < removal); 3 and 5 are no multiples of the period, as 10 s
  and 30 s are, so that a sweep can come just before a threshold as well as at
  it. One fault is a lost request, a lost or late reply, an agent killed or a
  coordinator that crashes, at any moment of any interleaving; that is
  what it takes for a ghost entry (a registration whose reply is lost is made
  again) or a silent agent. Agents do not interact except through ids and
  the lock, so two of them are as good as many; the safety properties are
  proved for any number, any thresholds and any number of faults.
  `NoFalseSuspicion` needs two calls and a period between heartbeats to fit into
  the suspicion threshold. In the run they just do (1 + 1 + 1 and 3); with a
  threshold one smaller than that TLC finds a suspicion of a healthy node. With
  the 2 s and 10 s of the code, calls of up to 4 s are harmless.
* Node control. Two ids let one node be drained, probed or paired while another
  one registers, which is all they share; the crash comes at any moment. A drain
  that is undone takes one node.
* Scheduler. Three reservations fit on a node and the fourth does not, with
  two selected nodes out of three that tie; three tasks give every pair of
  overlapping calls and one more. The main invariants are proved for any cluster.
* Directory. A deadlock takes two calls; a copy that is overlooked, or a mention
  that outlives its copy, three (one that is dropped half-way or replaced, one that
  changes the tensor, one that evicts), with one more in between. The theorems hold
  for any number of calls.
* Inference. Up to four layers on one, two or three nodes covers numbers that
  divide and that do not, and nodes left without a layer; proved for any
  number. Four calls: two sessions set up, one executes, and one interferes.
* Fine-tuning. Five calls reach two trainers on one job with a cancel after it, or a
  deleted job whose task goes on;
  two epochs separate the first, a middle and the last check.
* Registry. Two copies into one file, a third call that finds the file or is
  dropped, and two faults on the way.
* TCP. Handlers share the count and nothing else: three of them give one that
  counts, one that uncounts and one that has failed. Length 3 with unit 2 is
  both announced short and read in more than one piece.

`CHECK_DEADLOCK FALSE` is in the configurations in which the number of calls is
bounded (directory, inference, fine-tuning, registry) or of connections (TCP): when all
are made and over nothing is left to do, and except for the registry, which has
no two locks, a real deadlock is what a property is about. The other runs check for deadlocks.

Numbers of tokens, layers, epochs and times are small; the arithmetic of the code
is on 32 and 64 bits and does not wrap at the sizes it is used with. What could
go below zero (the scheduler's subtractions) is covered by `AllocationsAddUp`.

## 4. Fairness

Safety needs none. `Spec` states some only in `Inference` and `TcpTransport`;
`ControlSpec` of `NodeControl` and the `FairSpec`s have it too. Where liveness is
checked:

* the tokio runtime polls every task that can go on: weak fairness of the steps
  of each task, never of a caller's decision to call, to pause or to go away;
* fair locks are modelled by their queues, so that weak fairness is enough;
* time passes (`WF` of `Tick`) and the monitor's timer is served;
* a TCP handler reads what has arrived and notices that the peer has closed
  (`WF` of `Handle`); no peer has to send, or to close, ever;
* faults, restarts and late answers need not happen. Only
  `RepairedSpec`, used to show that an agent stays out although everything is
  repaired, assumes that the coordinator comes back and late calls arrive.

`ResumeIsHeard` and `EvictionEnds` are violated by behaviours in which everybody is
polled and nobody can move, unless a caller loses patience, which neither holds
against the program: a call that is given up counts as ended.
`DrainedNodesGetNoPlan` is violated by a few steps and needs no fairness.

## 5. Findings

1. `membership_reconnect`: README.md:156 promises automatic reconnection. A
   heartbeat of an unknown node is answered `success: false`, which the agent
   takes for success: after a restart of the coordinator, or after its removal,
   it never registers again (node-agent/src/main.rs:126).
2. `directory_eviction`: `evict_from_node` takes the two locks in the order
   opposite to that of the other operations; an eviction and a registration
   block each other and the service (tensor-directory/src/lib.rs:199).
3. `fine_tuning_resume`: a trainer waits for the resume with the read guard in
   its hand; the resume waits for the write guard (fine-tuning/src/lib.rs:257).
4. `node_drain`: the design says of a node that is disconnected "Stop assigning new
   work" and "Remove node from future plans" (ιδεα.md:1542, 1546; README.md:157
   promises a graceful drain). `drain` sets a status that the node's next heartbeat
   or a probe overwrites; then plans are accepted for it again (node_control.rs:158,
   186). `DrainsHold` shows that nothing else ends a drain.

Not a run, but a theorem (`ClientsGetNowhere`): `write_header` copies eight bytes to
positions 17..25 of a buffer of 24 and panics whatever the message (tcp/src/lib.rs:203,
303), so that no ping is answered and `TcpClient` can send nothing at all.

Properties that hold, and whose wording says what a caller has to expect:
`AllocationsAddUp` and `ReservationsAreAtomic` (scheduling an id that is in use
overwrites the only record of its reservation: what it held is accounted for in
`leaked` and no call gives it back), `ListsAddUp` (the release of one reservation
strikes the entries of all others under its id), `IndexAddsUp` and `CallsAreAtomic` (a
caller dropped between its locks leaves a copy that no eviction finds, or a mention of
a copy that is gone), `ProgressGoesOn` (starting a paused job puts
a second trainer on it), `JobsFollowLifecycle` (a job cancelled in its last epoch
ends up completed), `RegisteredFilesAreWhole` (a failed copy, or a removal that
overtakes a registration, leaves an entry without its file, and a partial file is
taken for the model from then on), `NoOrphans` (a dropped registration leaves a file
that no call can remove), `PlansOnServingNodes` (a probe counts as news of a node),
`CountIsAccounted` (a connection that fails stays
counted), `AckedIsRead` (up to 255 bytes of a payload are neither read nor missed).

## 6. Proofs

All for any values of the constants that satisfy the named assumptions.

**`MembershipProofs`**, from `MembershipAssumption` (naturals; suspicion before
removal; the lock is had within a period; calls that are not delayed are
shorter than the suspicion threshold; two attempts at least). `InductiveInvariant`:
`IInv` is `TypeOK`, `BoundedStaleness` and `SuspectOnlyWhenSilent` with three
facts without which they are not inductive: a registration's clock is no older
than its call (`CallsMatch`), so that an entry cannot enter the registry older
than `CallTime`; an agent that has not given up has attempts left and none
counted while it has a client (`AttemptsBounded`); a coordinator that is down
has no entries. The step that matters is the sweep: what it leaves is within
the thresholds of a clock that is `SinceTick` old, and the next sweep comes a
period later at most with a clock at most `LockDelay` older. From it:
`TypeCorrect`, `StalenessIsBounded`, `SuspicionIsJustified`, and for steps
`RemovalIsJustified` and `HeartbeatFailureIsRetried`.

`NoSuspicionWithoutFaults` has one more hypothesis, `2 * CallTime +
HeartbeatEvery <= SuspectAfter`. `WellTimed` says for each phase of an
agent how old its entry can be as long as there has been no fault: no older than
its call when it waits for the answer to a registration, no older than call and
timer together between two heartbeats, and a call longer while a heartbeat is on its
way. Each of these ages is within the threshold, so that a sweep neither suspects
nor removes the entry of an agent that runs, and no heartbeat finds its entry gone.

`ImplementsLeases` maps each step to one of `LeaseRegistry`. Most are stutters, or
one grant or renewal. The sweep removes spent leases by the invariant's account of
the monitor's clock; and `Tick`, which abstractly may only go on while no
lease is past its grace, is where `BoundedStaleness` is used.

`LostIdsStayLost` is what is behind finding 1. Ids enter the registry only when they are
new (`OnlyNewIdsEnter`), and an agent's loop keeps the id it started with, even
when the agent registers again (`IdsIssued`); so once the registry has lost that id, each
heartbeat the loop still sends is for an unknown node.

`GhostsAreBounded` is about what `get_cluster` sums. An agent that registers again
gets a second entry, whose resources count twice until the first expires. Without
a strengthening the bound, one entry too many per fault, is not inductive:
`GhostsPaid` adds to the entries the agents that are still going to register
(`Registers`), so that a registration moves one from here to there, and only a
fault makes an agent with an entry register again. It needs that `Agents` is
finite, and counts with the lemmas on finite sets.

**`SchedulerProofs`**, from `SchedulerAssumption` (finite sets, natural
amounts, a positive CPU share). `IInv` is `TypeOK`, `AllocationsAddUp` and
`NoOvercommit` with the fact that every call past its selection is about the
same `SelectedNodes`. That makes all selected nodes equally loaded, by a
multiple of the share: the number of reservations held by sessions, by calls on
their way, or by nobody. The proof counts: each step moves one reservation
between the three, or makes or frees one. It follows that the unsigned subtractions never underflow, and
that a reservation fails on the first node or on none, which is why a refusal
leaves nothing behind.

`StatisticsAreCovered` is about the sum that `get_stats` makes of the nodes' shares.
A sum over a set is a recursive function, and the library's induction theorems
take an operator as a parameter, which no installed prover can instantiate. The
section on sums gets around that: `LeastNumber` (the least element of a set of naturals, from
`WFMin`) gives a least counterexample, and from it that the recursive definition
has a value on every finite set (`SumExists`), and what it is when
all summands are equal (`SumOfEqualLoads`), as those of the selected nodes are.

`ImplementsLedger` maps this to `Reservations`, with `held` the number of
reservations: a reservation adds one share to each selected node and one to
`held`, a release takes both away, every other step stutters. It needs the
invariant for a release: what is subtracted was there.

`ListsAreExact` follows each step's effect on the reservations held under one id (`Held`):
a reservation adds one and an entry, storing or losing it changes neither, and a release,
which takes one away, strikes the entries of all the others, which then count as
struck. `CarefulCallersLoseNothing` says what callers have to keep to. As
long as no id in use was scheduled and no call with a reservation was dropped
(`NothingLost`), an id belongs to one call or to one session (`OneHolder`), so that
each step lists or strikes out exactly one session. If callers never do either,
nothing is lost, the lists name every session with a reservation once and nothing else, and
between calls the nodes carry the live sessions' load only.

**`DirectoryProofs`**, from `DirectoryAssumption`. `Control`: of two callers that
hold the same lock, both only read. Nobody is told that by the lock's queue
alone; it follows because a caller gets a lock only when its holders let it.
`Data`: a copy that the index does not name belongs to one caller between its two
steps, or is one of those whose caller was dropped there (`missed`); a mention of no
copy was left by such a caller or by a registration that replaced the copy
(`stale`); and what is missed or about to be indexed is there, so that a registration can
turn the account over. Control and data need each other: two writers between their steps would
each leave a copy unindexed, and the account could not tell whose it is
(`IndexIsAccountedFor`). With it an eviction, which looks in the index, finds all copies
that no dropped caller left unindexed, because it holds the index's lock and then also the
tensors', where nobody is half way: this is the step on which `ImplementsAtomic` rests.
`VersionsGrow` looks at each write.
`OnlyCrossingCallsBlock` says that finding 2 is the only way in which the
directory can stop. `Queues`: a caller is in the queue of the lock it waits
for or has been given, exactly once, and in no other; the head of a queue is kept out only by
a holder. So when nobody can go on, the holder of each lock waits for the other
one, and these two calls took their first locks in opposite orders.
`CrossingsLast`: with an eviction on one side, nothing but the drop of one of the two
ends that. Until then neither lock is granted for writing again, so that both calls stay
and the maps never change.
`CallsRunOut`: the steps a call has left (`Left`, three at most) get fewer with each
of its steps and when it is dropped, and are changed by no other call; so all calls
return unless lock orders cross.

**`InferenceProofs`**, from `PlannerAssumption` (finitely many nodes, a GPU
subset, measurements that are naturals) and `ExecutorAssumption`.
`LoopInvariant`: after t turns `current_layer` is min(t * share,
layers), with share the rounded-up quotient; the stages so far tile
0..current_layer; stage k is on the k-th node; and a node is skipped only when
nothing is left. Share * nodes >= layers, from the rounding, gives that the
loop's end has placed every layer: `LayersArePlaced`, `NodesAreRight`.
For the executor: the client whose request is executed is at the head of the
lock's queue, its session exists and is Running, and every session's stages are
a plan that tiles its model. Only the head acts, and a caller that drops its
future leaves the queue without touching a session, so that
`StagesRunInOrder` and `PausesHold` follow; `PassesAreComplete` puts the two together:
the executor's next stage begins at the layer at which the plan's last one ended.
That calls return has a safety half. `FirstInLineIsServed`: the queue lists the
callers that wait, each once, and the first of them can take a step (`CanServe`, the
guards written out). `CallsComeToAnEnd`: with each of its steps the holder returns
and leaves the queue, or has fewer stages left, a number that nobody else changes;
and no other caller falls back in the queue.

**`FineTuningProofs`**, from `FineTuningAssumption`. `IInv` ties jobs to
trainers: each running or paused job has one; a trainer's job was handed out and
is not Pending; ids that are still to be inserted have no trainer; and a job with
a single trainer is not ahead of it. `JobsAreTrained`, `ProgressIsKept`; for
`WaitsForGood`, which says that finding 3 is for good, no step of anyone takes the guard
from a trainer that waits, whoever gives up in the meantime;
`ImplementsLifecycle` maps each step to one of `JobLifecycle`.
`LockIsPassedOn` says when the service can stop. The queue holds who waits for the lock,
once, and a dropped call is taken out of it (`QueueFits`, by what `RemoveAt` does to a
queue without duplicates); the first in it has a step to take, unless a task waits for a
resume and the first is a writer, as every call and every task's update but a
read is: finding 3 is the only way, the bound on `Trainers` aside.
`TrainingRunsOut`: a task has at most `StepsLeft` steps left; each of its steps makes them
fewer, but for the rounds of the wait, and no call and no other task on the same
job changes them.

**`RegistryProofs`**, from `RegistryAssumption`. Each file is `Settled`: whole, or being
written by the copy that truncated it last, or absent with nobody counting on it,
or disturbed by a failed copy, a crash or a removal: `FilesAreWhole`. `NoFileIsLeftBehind`
rests on the lock (whoever has taken an entry out has it until the file is gone): a file
that nobody answers for any more is one that a call gave up, and it stays abandoned until
a registration inserts its model or a removal takes it away.
`OnlyUnregisteredFilesGo` rests on another part: an entry that was taken out stays
away until its file is removed, because inserting takes the lock that is held.

**`ControlProofs`**, from the assumptions of both modules. Of the monitor's
invariant only one inequality is needed: a node shown Healthy was heard of no
longer ago than suspicion threshold, time since the clock was read and delay of
the lock together (`EntryOK`); and nobody told it to drain since. `PlansAreServed`.
`CertificatesAreUnique`: an answered challenge leaves the pending ones in
the same step, and ids are not issued twice.
`DrainsHold`: nothing but news of the node itself ends a drain, or keeps its entry from
growing older; so the two ways of finding 4 are the only ones. `SilentNodesAreGone`: no entry gets older than
removal threshold, monitor period and wait for the lock (`SweptInTime`, which follows the
monitor's clock through wake-up and sweep). It has one more hypothesis, that the lock is
had within the removal threshold: an entry enters with the age of its registration's wait.

**`TcpProofs`**, from `TcpAssumption`. `ConnectionOK`: what was read was sent,
and never exceeds the length as read; nothing is read after the acknowledgment. The
count is the cardinality of the handlers counted or failed (`CountIsKept`); so the
saturating subtraction never saturates. `AcksAreEarned` is arithmetic on the lost byte.
`HandlersAreReady`: with nothing more to come on its connection a handler that has not
ended has a step to take, so that only a peer that keeps an incomplete message open holds
one up. `HandlersWearOut`: `Work`, the steps a handler has left, goes down with each of
them and is never raised by a peer that sends more.
`ClientsGetNowhere` says what the panic of `write_header` comes to: a client's stream never brings a header,
so that its handler can only fail, and stays counted.

Every invariant and action property of a passing run has a theorem, and so has
each refinement. Only model-checked is liveness, which is beyond the prover
(fairness and ENABLED): `SilentNodesLeave`, `TrainingEnds`,
`EveryCallReturns`, `HandlersEnd`. Each has a safety half that is proved. For the last
three it is that somebody can go on and that a natural number gets smaller; what
stays with TLC is that weak fairness makes them go on, that the number cannot get
smaller for ever, and that the guards written out in `CanServe`, `HasStep` and `Ready`
are those under which the actions are enabled. For `SilentNodesLeave` it is a bound on the
age of an entry (`BoundedStaleness`), which only renewals, those of the node itself, make
young again (`ImplementsLeases`); what stays with TLC is that time goes on. The four properties of the findings are false and have none. No
module uses a RECURSIVE operator.

## 7. What is not modelled, and assumptions

* `set_permissions` and `benchmark`: nothing reads what the first writes, the
  second has no state. `get_cluster` reads; how old what it reads can be is
  `BoundedStaleness`. `verify_certificate` looks at signature and expiry only, so
  that a revoked node's certificate goes on verifying: a function without state.
* The planner's KV-cache plan and performance estimate, the scheduler's
  throughput, scores, losses: floating point that no later step depends on. The
  quotient of `partition_model` is computed in f32; it equals the integer one
  below 2^24 layers.
* A model's id has sixteen hex digits of its checksum; the model identifies the two.
  `get_cached_path` builds a path from these digits, which is never the path of the
  cached file, named by the whole checksum: a function of the id, and left out.
* Executed plans never have the CPU-offload stage that comments of the planner
  (planner/src/lib.rs:108, 176) speak of: its branch (219) is for layers that the GPU
  stages leave, and by `LayersArePlaced` they leave none.
* What marking a model as cached leaves after it is registered again (nothing) is
  in the model, and no property is about it.
* QUIC: a wrapper of the quinn library around a list of connections from which
  nothing is removed; its client has no configuration and cannot connect.
  RDMA: simulated maps behind a lock each, with no step that spans two.
* TCP: `max_connections` and `timeout_secs` are configured and never used, hence
  no limit and no timeout in the model.
* Topology and hardware probe: readings and placeholders for them. Observability:
  logs and counters. Cluster types, protocols: declarations. Runtimes: simulated
  kernels, one owner for each handle. Model format: a parser without state.
* The coordinator's `planner.rs` and the agent's resource manager and runtime
  adapter: placeholders.
* Desktop UI: each command forwards an HTTP request, and waits for it with
  the client's read guard; the answers it expects are not those the coordinator
  gives, so no protocol of two parties is there to check.
* Node control is code that the coordinator's `main.rs` does not declare as a
  module yet; it is modelled as it would run beside the HTTP interface.
* A file that is registered does not change while it is, and nobody else
  touches the cache. Locks are granted within `LockDelay`. Signatures are what
  they claim, or do not verify.

## 8. How the parts depend on each other

The order in which to read, and to change, the project: `Membership`
with `LeaseRegistry`, `Scheduler` with `Reservations`, `TensorDirectory` with `AtomicDirectory`, `FineTuning`
with `JobLifecycle`, `Planner` and `PipelineExecutor` before `Inference`,
`ModelRegistry`, `SecurePairing` before `NodeControl`, `TcpTransport`. A change
to a module takes its abstract module, its run and its proof module with it; a
change to `Membership` also those of `NodeControl`.

What would come next: the timing of `Membership` under several faults (how long
an agent may be out of the registry while it reconnects), and QUIC, RDMA and the
desktop UI when they have a protocol.
