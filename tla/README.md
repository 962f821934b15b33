# Formal models of the burn-out pipeline framework

This directory holds TLA+ models of the concurrent core of the repository: the
pipelines that run a tracker's processes, one thread each or all in one, the
classes beside them that own threads or share state between them, and one
process whose steps form a protocol over many frames. The models
are checked with TLC on small instances, and the most important properties of
most of them are proved with TLAPS for every value of the constants.

All paths below are relative to `src/library/`.

## 1. The system

A *process* (`process_framework/process.h`) is a step function with input and
output ports; a step returns SUCCESS, SKIP, FLUSH, NO_OUTPUT or FAILURE. A
*pipeline* (`pipeline_framework/`) connects processes as *nodes* with *edges*. In
the synchronous pipeline one thread executes the nodes in topological order. In
the asynchronous one every node has a thread and every edge is a bounded queue.
A *super process* is a process that contains a pipeline, with *pads* through
which frames enter and leave it.

Everything else in the library (image transforms, detectors, trackers,
descriptors, readers and writers, learning) is the code inside the steps. Its
state is numerical and sequential, with a few exceptions that own threads or are
used by several.

### Components

| component | state | operations | what is hard |
|---|---|---|---|
| asynchronous edge, `async_pipeline_edge.h` | status queue, data queue, `no_more_input`, a mutex, two condition variables | `pull_data` (by the upstream thread), `push_data` (by the downstream thread), `reset`, `edge_queue_length` | two queues edited separately must stay paired; notification after the unlock; a flush edits the middle of the stream; interruption inside a wait |
| asynchronous pipeline and nodes, `async_pipeline.cxx`, `async_pipeline_node.cxx`, `pipeline_node.cxx` | a thread, `last_execute_state`, `is_critical`, `thread_mut_` per node | the node loop, `run`, `run_async`, `wait`, `cancel`, `reset` | branches have to stay in the same frame; a run must end; starting, joining and cancelling by several threads |
| synchronous pipeline, `sync_pipeline.cxx`, `sync_pipeline_node.cxx` | the execution order, the last status per node | `execute`, `run`, `reset` | failures kept for later steps, a flush over an edge that has no queue |
| super process, `super_process.cxx`, pads in `async_pipeline.cxx:217-568` | an edge-status queue, a feeder thread, the inner pipeline | `run_with_pads`, `feed_pads_job`, `fail_recover` | a second pipeline within a step; statuses of an old run; interruption outside the handler |
| pipeline graph, `pipeline.cxx` | nodes, edges, execution order | `reset`, `reset_downstream`, reordering | an order in which every input is there when it is needed |
| queue monitor, `pipeline_queue_monitor.cxx` | a thread that reports lengths | periodic read | reads without the lock |
| training thread, `utilities/training_thread.cxx` | a current thread with a task queue, a status, abandoned threads | `execute_if_able`, `block_until_finished`, `forced_reset`, destructor | a thread abandoned at any point; a status read without the lock |
| tile workers, `object_detectors/threaded_detector.h`, `video_transforms/threaded_image_transform.h` | a queue, status, mutex and condition variable per thread | `apply_function`, `worker_thread`, destructor | statuses and queues without a lock, lost notifications, one condition variable for both directions |
| online descriptor workers, `descriptors/online_descriptor_thread_system.cxx` | as above, with success and failure | `process_tasks`, `worker_thread`, `shutdown` | a result that crosses two flags; a worker that crashed |
| object cache, `utilities/object_cache.h`, `utilities/uuid_able.h` | the objects by UUID, a reference count in each | `ref`, `unref`, `add`, `remove`, `lookup` | a count changed outside the critical section; UUIDs that change |
| async observer process, `utilities/async_observer_process.txx` | a slot, three flags, a condition variable | `set_input`, `step`, `get_data` | one condition variable for three parties |
| resource pool and users, `resource_pool/` | named values, observers, owners | create, use, get, set, observe, notify, delete, destructor of a user | an iterator used after the unlock, ownership of a name one did not create |
| shot stitching, `tracking/shot_stitching_process.txx` | a state machine, a queue of packets, an anchor, the product of all stitches so far | `step2`, `flush_queue`, `record_glitch_frame`, `attempt_stitching`, `reset` | an adjustment made at one glitch and used until the next; frames held back and dropped; a glitch given up |
| external proxy process, `process_framework/external_proxy_process.cxx` | a counted shared library | `initialize`, destructor | a count that is not matched |
| buffering processes, plugin manager, klt mutex, data formats, numerical algorithms, logger | | | sequential, or I/O |

How they interact: a node's thread calls `push_data()` on its incoming edges,
steps its process, and calls `pull_data()` on its outgoing edges; the names are
those of the port, so the *producer* calls `pull_data`. The application's thread
starts the node threads and waits for the output nodes; any thread may cancel.
The step of a super process's node is another pipeline's run. Processes share
data beside the edges through the resource pool, and tracks through smart
pointers and the object cache. A training thread, the tile workers and the
descriptor workers are used by one thread each, the one that steps the process
that owns them. An observer process is read by threads outside the pipeline.

What makes each component correct:

- *edge*: a FIFO of (status, value) pairs from which only a flush drops values;
  bounded; no wait that should have ended goes on.
- *pipelines*: the inputs of a step belong to one frame; a run handles each frame
  once and returns; both kinds of pipelines give every node the same stream of
  statuses; cancel stops every thread; a new run sees nothing of the last.
- *super process*: what its pads announce together belongs together, no inner
  thread outlives the run, and the run comes to its end.
- *training thread*: the newest task is executed, an abandoned thread begins
  none, waits end.
- *tile and descriptor workers*: each task is done once before the call returns,
  with the right result; lost notifications only delay.
- *object cache*: no pointer is left to a deleted object, and the cache has
  exactly the objects that are referenced. The code keeps neither in every case; the model
  says in which steps it fails, and that it holds up to them.
- *observer process*: each item is read once and in order; nobody waits for ever.
- *resource pool*: a resource has an owner; observers see the last value.
- *shot stitching*: whoever follows the flags of new references never mistakes a
  frame's reference; frames are missing only where a stitch bridges them.

The list of hazards, each with its line and the properties that would catch it,
is in `PROJECT.json`.

## 2. Modules

| module | models |
|---|---|
| `EdgeQueues` | the state of an edge and what each call does to it under the mutex, as functions on a record |
| `AsyncEdge` | one edge with its two threads: mutex, condition variables, spurious wakeups, interruption, restart |
| `StatusChannel` | abstract specification of an edge: one queue of messages |
| `Subsequences` | the enumeration of a finite set of numbers, and what a flush leaves of a sequence, without recursion |
| `PipelineNetwork` | the nodes of a pipeline and their connections, as a constant chosen in the initial state |
| `ProcessSteps` | what the statuses a node finds on its inputs make of its step, for both kinds of pipelines |
| `FrameStreams` | abstract specification of any pipeline: a stream of statuses per node |
| `AsyncPipeline` | the node threads on a network of edges, and the calls `run`, `wait`, `cancel`, `reset` of two callers |
| `AsyncStreams` | `AsyncPipeline` with the history variable that the refinement of `FrameStreams` needs, and the kinds of networks that proofs and runs tell apart |
| `SyncPipeline` | `execute()`, `run()` and `reset()` of the synchronous pipeline |
| `PipelineGraph` | `reorder()` and the output nodes |
| `SuperProcess` | `run_with_pads()`, the feeder and the inner nodes, with the outer pipeline as their environment |
| `TrainingThread` | the training thread and its caller |
| `TileWorkers` | the tile workers and their caller |
| `DescriptorWorkers` | the online descriptor workers and their caller |
| `ObjectCache` | threads with smart pointers, the reference counts and the cache |
| `ObserverProcess` | the pipeline's thread and the readers of an observer process |
| `ResourcePool` | processes that share resources through the pool |
| `ShotStitching` | the steps of the shot stitching process, with the processes upstream that give it homographies |
| `...Proofs` for `EdgeQueues`, `AsyncEdge`, `AsyncPipeline` (with `AsyncStreams`), `TileWorkers`, `ShotStitching` | proofs |
| `SyncAndSuperProofs` | proofs for `SyncPipeline` and `SuperProcess` |
| `UtilityProofs` | proofs for `TrainingThread`, `ObserverProcess` and `DescriptorWorkers` |
| `RegistryProofs` | proofs for `ObjectCache` and `ResourcePool` |
| `MC...` | instances for TLC |

How they are composed. `EdgeQueues` is shared: `AsyncEdge` adds the locks and condition
variables of one edge, `AsyncPipeline` and `SuperProcess` connect many. In these two a wait
on an edge is a guard; `AsyncEdge` is what justifies it (`NoLostWakeup`, `WaitsEnd`), and that
a thread *has begun* to wait is kept in the state because an interrupted thread
stops nowhere else. `PipelineNetwork` and `ProcessSteps` are shared by `AsyncPipeline`, `SyncPipeline` and
`FrameStreams`, which the first two implement.

### State and actions

**AsyncEdge.** `edge` is the record of the two queues, `no_more_input` and
`last_size`. `producer` and `consumer` say where the two threads are: outside
the edge, before the mutex, in a wait, out of it and before the mutex again, or
past it with the notification still to be sent. One action is one section under
the mutex (`PullData`, `PullDataResumes`, `PushData`), one notification
(`ProducerNotifies`, `ConsumerNotifies`), a wakeup for no reason, or an interruption.
The values of a producer are members of `Data`.

**AsyncPipeline.** A *network* has the nodes in execution order, the edges in the
order of connecting with their kind (required, optional, only for order), what
each process may return, which nodes step on skipped input, which are output
nodes, after how many steps a source fails, how often the application runs the
pipeline, when another thread may cancel it, the capacity of each edge, and
which processes hold frames back, how many, and whether they may begin again.
Such a process answers NO_OUTPUT to its first frames; when it has what it needs it
calls `push_output()` for each (`PushBegins`, `PushEnds`), a loop over the outgoing edges in the
middle of its step (`ExecuteHolder`), and then returns with the frame of the step. They stand
for `scene_obstruction_detector_process` and `border_detection_process`. `node[n]` is the thread of a
node: its place in the loop of `async_pipeline_node::run()`, the edges that the loop it is in
has still to visit, the status of the step, and whether it waits or was
interrupted. One action is one turn of `execute_incoming_edges()`, one of its
re-synchronising loop after a FLUSH, the step, one turn of `execute_outgoing_edges()`, or the
end of an interrupted wait. `call[c]` is what is left of the call a caller is in, as a
sequence of visits: `run_async` visits every node with `manage_thread()`, `wait` joins the output
nodes, then interrupts and joins the others, `cancel` has four loops. A visit reads
`is_critical` when it comes to a node, as the code does, and needs `thread_mut_`. A value is
known by the run, the number of flushes and the number of the step that made it,
which is all the properties compare. `AsyncStreams` adds `stream[n]`, the statuses that
node n has announced in this run.

**FrameStreams.** `stream[n]` grows by one status at a time: the k-th depends on the
k-th statuses of the sources of n, on whether n steps on skipped input, and on
what its process may return; a node that has failed counts as failed in every
later frame. When all output nodes have failed the streams may begin anew. It
promises nothing of networks with FLUSH or NO_OUTPUT, which change how many
statuses travel on a branch, nor of ordering edges (`add_execution_dependency()`), which the two pipelines treat
differently, nor of what a second run finds in the queues after a failure.

**SyncPipeline.** A node keeps only its last status, the last of its `stream`. One
action is one turn of the loop of `execute()`: a failed node is passed over
(`PassOver`), another one's inputs are read up to the edge that ends the loop
(`StatusOfEdges`; an ordering edge counts like an edge with data, required or optional) and it steps (`ExecuteNode`), or the loop that looks for a FLUSH on the
other edges is entered and never left (`EmptyOtherEdges`), or the program dies for a
NO_OUTPUT on an input (`Die`). `EndExecute` collects the output nodes; `RunAgain` is `reset()`.

**SuperProcess.** The inner pipeline is a set of *lanes*, chains of nodes from an
input pad to an output pad, each segment an edge of `EdgeQueues`. `Main` is the thread
of the outer node: it starts the inner nodes and the feeder, takes statuses from
`edge_status_queue`, reads the output pads, announces, and at the end interrupts and
joins. The feeder takes a frame from the outer pipeline, feeds the pads one by
one and queues its status. A recovery resets the failed node and what is
downstream of it. The outer pipeline may be cancelled: it interrupts and joins
the outer nodes, and then the inner ones. Of the outer edges nothing is known
but that they may make a thread wait.

**TrainingThread.** Tasks are numbered as they are handed over. `thread[id]`,
`status[id]`, `queue[id]` and `interrupted[id]` are one `thread_info_t` each. A section under a
mutex is one action. `forced_reset()` has two steps, because it reads the status
before it locks. A task may return or throw at any time. The time limit of each
wait makes a wait a guard that is tested again and again.

**TileWorkers.** `caller` is the place in `apply_function()`; the caller becomes thread 0
while it does its own share. Statuses are written without the mutex, as in the
code, and the test of a status and the wait that follows it are two steps with
the mutex held between them, so notifications that come in between are lost.
An image is abstracted to the number of its tiles.

**DescriptorWorkers.** The same protocol with every thread in the background.
`success[id]` is the flag of a thread in `worker_thread()`, `result` the one of `process_tasks()`, and
`executed` and `failed` record what really happened to each task. A task succeeds,
fails or throws; one that throws ends its thread and leaves the status RUNNING.

**ObjectCache.** Each thread has a smart pointer in each of its places. `ref()` has
the steps test of the count, `add()` under the mutex of the cache, increment;
`unref()` has decrement, then `remove()` and deletion. Any thread may look up any UUID; `lookup()` makes its
pointer with the mutex held, and as the entry cannot change meanwhile, finding it and the test in `ref()`
are one step. `subtrack` says how subtracks, which get the UUID of another track, are made. `broken` is a history
variable: why a thread will come to use freed memory, a last pointer dropped past a lookup (`Overtakes`), or an entry
found that was left behind. What that use does is undefined, so the model ends with it: every
step begins with pointers and calls to existing objects (`Intact`).

**ObserverProcess.** The pipeline's thread goes through `set_input()` and `step()`, a reader
through `get_data()`; all wait on one condition variable, and each `notify_one()` is a step
after the section under the mutex and wakes any one of those who wait. A wait
may end for no reason. The thread of the pipeline may be interrupted.

**ResourcePool.** `pool[n]` is a resource with its value (the number of the change
that set it) and its observers. `call[u]` is the call of a process whose lock was
released: it holds what `find()` returned, then the observers that the signal has
still to call, each of which reads the resource in its callback. `seen` and `since`
are history variables: what an observer has read last, and what there was when
it began to observe. The destructor of a user deletes what it owns name by name.

**ShotStitching.** A step of the process is one action, with one disjunct for each case of
`step2()`: not enabled, no anchor yet, good frames, within a glitch, and a shot
that begins. A homography keeps its two flags, the reference it maps to
and whether the matrix is right for what these say (`exact`): a product is right only
if what one factor maps to is what the other maps from. Registration of two
images works or does not. What the frames bring is read from `homography_process` and its
super process: a usable frame begins a reference or continues that of the frame
before, a frame that ends a shot drops it. `output` is a history variable. So is `misled`,
set where the code uses an adjustment that does not belong to the frame: see
the assumptions below.

## 3. What the runs check

| run | instance | question |
|---|---|---|
| `async_edge` | capacity 1, two values | Are the queues paired, is no wakeup lost, is the length that is read current, is the edge a FIFO (`ImplementsChannel`)? |
| `async_pipeline` | nine networks of three nodes; edges of capacity 1, one of 2 | Do the branches stay in step, is no frame lost or taken twice, also past a process that holds frames back, is a run that ends by itself complete, does every run and every cancel return, and does every node have the stream that `FrameStreams` promises? |
| `sync_pipeline` | every acyclic connection of three nodes inserted in any order, and seven networks with a flush, a missing output, an ordering edge, required or optional, or a second run | Does every node have the stream that `FrameStreams` promises, and does `run()` return unless a FLUSH meets a join? |
| `super_process` | seven settings of one or two lanes of one or two nodes, three of them cancelled | Do the pads agree on the frame, do the lanes hold what the status queue promises, does a thread outlive the run, and do the run and `cancel()` end? |
| `tile_workers` | three threads, one to four tiles, two calls, the destructor | Is each tile handled once before the call returns, are the queues safe without a lock, do the call and the destructor return? |
| `descriptor_workers` | two threads, none to four tasks, three calls, `shutdown()` | Is each task executed once, does the result tell of a failure in this frame and in no other, does the call return unless a task threw? |
| `training_thread` | three tasks, two resets | Which tasks begin, and do the waits end? |
| `object_cache` | three objects, three threads with two pointers each, who look up anything, each kind of subtracks | In which steps only does a thread come to use a deleted object, and is the cache exact up to them? |
| `observer_process` | up to two readers, three items | Is every item got once and in order, and is a single reader served? |
| `resource_pool` | three processes, one name, three changes | Do the observers have the last value, and has every resource an owner? |
| `shot_stitching` | eight frames in one or two streams, 24 settings of the parameters | Does every frame given downstream map to the reference that the flags tell of, over several glitches, and are frames missing only where a stitch bridges them? |
| `cancel_blocked` | a chain whose source has no end | shows that `cancel()` waits for the join of `run()` |

The last one checks a sentence of the repository's documentation that the code
does not keep; `PROJECT.json` quotes it under `findings`. It breaks where the
passing runs say it may: every source of the networks of `async_pipeline` ends.

Further configurations, which no run of `PROJECT.json` uses, show the edges of what
holds. Each ends in a counterexample.

| configuration | module | what it shows |
|---|---|---|
| `MCCancelAtStart` | `MCAsyncPipeline` | `CancelReturns`: a pipeline that is cancelled while it is started may have a node that both interrupting loops pass over |
| `MCStaleAfterReset` | `MCAsyncPipeline` | `ValuesOfThisRun`: after a failure in the middle, frames of the first run reach the second |
| `MCNoTiles` | `TileWorkers` | `ApplyReturns`: an image without tiles, for which thread 0 waits to be tasked |
| `MCCrashedWorker` | `DescriptorWorkers` | `AlwaysReturns`: a task that throws leaves `process_tasks()` waiting |
| `MCUnfinishedTask` | `TrainingThread` | `FinishedWhenUnblocked`: `block_until_finished()` returns with a task queued, which it does not see |
| `MCAbandonedTask` | `TrainingThread` | `NoTaskAfterDestructor`: an abandoned thread still executes its task after the destructor |
| `MCConcurrentLookup` | `ObjectCache` | `Intact`: a lookup by a thread that does not hold the object meets its deletion, because the count is decremented outside the critical section that `object_cache.h:111-113` and `123-125` ask for |
| `MCSubtracks` | `ObjectCache` | `Intact`: a subtrack replaces the original in the cache, and its entry stays when it is deleted |
| `MCResourceDeleted` | `MCResourcePool` | `FoundIsPresent`: a destructor deletes a resource between `find()` and the call of its observers |
| `MCFlushPastFailure` | `MCAsyncPipeline` | `RunReturns`: a required input fails while the source flushes, and the loop that looks for the FLUSH on the other edges waits for ever |
| `MCResetBuffer` | `MCAsyncPipeline` | `RunReturns`: in the network of `metadata_mask_super_process` the process that holds frames back has another edge beside it that is too short |
| `MCHeldPastReset` | `MCAsyncPipeline` | `ValuesOfThisRun`: frames held when the stream ends are pushed in the next run |
| `MCGivenUp` | `ShotStitching` | `ReferencesAlwaysKept`: a glitch that is given up is adjusted for the shot before, where `shot_stitching_process.h:29` says that its packets are flushed unchanged |

**Bounds.** An edge of capacity 1 holds two entries, so it is full, half full and
empty, and a flush meets a full edge. `Capacity` is the only constant the edge's
behaviour depends on besides the set of values, of which two show a value
delivered for another. A diamond is the smallest network in which a frame
arrives over two paths of different length, three frames are more than its
short path can buffer, and each of the other networks adds one feature: flushes,
recovery from skips, two outputs with an ordering edge, an optional second
source, cancellation, a second run, a process that holds frames back beside a
direct edge. That edge has exactly the capacity needed (an edge of capacity c
takes c + 1 entries), and there are frames left when the held ones were given;
with one entry less the run does not return. For the synchronous pipeline all connections
of three nodes are taken, so that the order of insertion, of connecting and of
execution differ in every way. Two lanes are needed for pads that may disagree,
and three frames fill the edge of a lane that has failed; a chain of two nodes
has one that is downstream of the one that recovers. Two calls of `apply_function()` are
needed for a worker that has not yet sent the notification of the first; one
tile fewer than threads leaves a queue empty, one more gives a queue two tiles.
The third frame of `process_tasks()` comes after one that failed and one that did not.
Two resets make two abandoned threads beside the current one. Three threads with
two pointers each on three objects let one thread look up what a second drops,
while a third copies, hands over or makes a subtrack of it; threads and objects are
alike, so the run takes one state of those that differ in their names (`SYMMETRY`, and no liveness is checked). Two readers compete for one item,
and the third item comes when both have been served. Three processes are an
owner, another that takes itself for the owner, and an observer that is neither;
three changes let two announcements overlap and a third follow.
Two frames make a shot in half of the settings of the shot stitching process, and eight let two glitches be
stitched, so that the second adjustment is a product with the first, or one
given up after one that was stitched.

The bounds that are not the system's are named: `frames`, `runs` and the single
`cancel` in a network, `frames`, `recoveries` and `cancels` in a setting, `MaxCalls` and `TaskCounts`, `MaxTasks` and
`MaxResets`, `MaxItems`, `MaxChanges`, `MaxFrames` and `MaxRuns`. `holds` and `capacity` are the system's.

**Fairness.** Each thread is weakly fair: the operating system runs a thread that
can go on. A process returns from its step, a task ends, and a timed wait ends
after its second. In `AsyncEdge` only the threads *inside* a call are fair, nothing is
assumed of when a process makes its next call. In `SuperProcess` the outer pipeline at last
has a frame, or room for one. `TileWorkers` and `DescriptorWorkers` assume strong fairness of the two
steps that take a mutex: the other side holds it for an instant between two
waits of a second, and a thread that asks again and again finds it free. In
`ObserverProcess` nothing is assumed of when a reader calls, nor that a wait ends for no reason.

`CHECK_DEADLOCK FALSE` stands in the configurations of systems that stop: a pipeline whose
runs have returned, workers and training threads that were joined, processes
that were destroyed, threads that hold nothing and have no object left to make.

**Assumptions of the properties.** `EdgesCountFrames` speaks of networks without FLUSH in which only
processes that hold frames back answer NO_OUTPUT (`OneStatusPerFrame`); a comment in `process.h` asks of processes
that reach a join over several paths to send one status per frame. `RunIsComplete` leaves out
processes that hold frames back, which lose those they hold at the end of the
stream. A SKIP or FLUSH that passes such a process overtakes the frames it holds,
so the sources of their networks only succeed. `LanesMatchStatusQueue` has the same assumption (`Counted`). `RunEnds` of the super process excepts two lanes of which one
failed (`HeldUp`): the feeder then waits for room in it, or `Main` for its FLUSH; both are
hazards of the code. `CancelReturns` excepts only the second (`Spins`): the loop at
`async_pipeline.cxx:349` has no interruption point. A setting with a recovery has one lane. `BlockReturns` and `LastTaskIsTaken` leave
out a thread that ended because a task threw, `ProcessReturns` a call in which one threw.
`ReaderServed` speaks of one reader: of two, one may be woken by the other's notification.
`object_cache.h:111-113` and `123-125` demand that the critical section include the count, and `ref()` and `unref()` have it outside;
a subtrack's UUID is changed without the cache. So `PointersLive` does not say that no pointer is ever left to a
deleted object, which is false, but that two steps only lead there: the last pointer dropped past a lookup that has found the
object, whoever looks up, and the lookup of an entry left behind, which takes subtracks with a UUID of their own.
`CacheExact` speaks of programs without subtracks, up to the first of these steps. It allows an entry without a
pointer in two moments, after `add()` and before `remove()` (`AtItsEdge`): a lookup that comes then locks the mutex twice.
`resource_pool` destroys a process only when none is in a call, which is how the library
destroys pipelines (`DestroyedRunning` is the other case).
`ReferencesKept`, and `GapsAreBridged` for what was dropped, except a stream from the step in which the process was `misled`. That
happens in two ways. A glitch that is given up, because it lasts too long or the
stream ends, is flushed while the adjustment of an earlier stitch is still in
force; a frame in it that begins a new reference is adjusted with the others,
and loses its flag. And `attempt_stitching()` uses the packet of the anchor without asking whether it
is still one, which it is not when the last good frame began a reference.
`MCGivenUp` shows the counterexample without the exception.

## 4. What is proved

The proofs cover every value of the constants, with the named assumptions of
the module.

**The edge** (`AsyncEdgeProofs`; `CapacityAssumption`, `NoDataAssumption`). The type invariant,
`DataMatchesStatus`, `BoundedInTransit`, `NoLostWakeup`, `ClosedWhenDrained`, `SizeIsCurrent`, and that the edge implements
`StatusChannel`. None of these is inductive alone: popping a value is defined only if the
queues are paired, a flush that is followed by a wait leaves `last_size` untouched
only because a full edge after a flush had nothing to drop, which in turn needs
the bound. `EdgeInvariant` is their conjunction and is proved action by action. The lemmas (`EdgeQueuesProofs`, which the proofs of the asynchronous pipeline use too)
count the SUCCESS entries of a status queue through append, tail and flush. The
refinement maps the n-th SUCCESS to the n-th value; each step is a step of the
channel or a stutter, a flush being a choice of the surviving positions
(`EnumerationIsOnto` shows that the model's enumeration reaches all of
them). The type invariant, `BoundedInTransit` and `ClosedWhenDrained` are not listed in the run: they are
proved, and the channel has the last two.

**The asynchronous pipeline** (`AsyncPipelineProofs`; `NetworksAssumption`, `AsyncNetworksAssumption`,
`CapacityAssumption`). For every network, all capacities, any number of frames and of runs:

- `TypeCorrect`: the type invariant, with what ties the parts of a thread together: the
  edges still to be visited are edges of this node, each once; a thread that
  holds frames has a network that lets it.
- `CountsCorrect`: `EdgesCountFrames`, whatever fails and whoever cancels, in the first run, and in
  every run of a pipeline that is `Undisturbed`.
- `CompleteCorrect`: `RunIsComplete`, for networks that end by themselves (`EndsByItself`).
- `InputsCorrect` and `ValuesCorrect`: `InputsSynchronized` and `ValuesOfThisRun`, for networks that
  give one status for each frame and in which no SKIP passes a process that
  holds frames back (`Timed`), in the runs that `CountsCorrect` is about.
- `AsyncImplementsFrameStreams`: the refinement.

`Undisturbed` means that nobody cancelled and that the network ends by itself: only sources
fail, each edge with data makes its sink fail, no node is without such an edge
unless it is a source, and every node has a part in what an output node gets
(`LeadToOutputs`). The last is needed because `wait()` joins the output nodes only and interrupts the
others: a node on which no output depends may be cut short in the middle of a
frame. Of the networks of the run `async_pipeline`, the two that run twice end by themselves.

The invariant has four layers, since each needs the one before.
`Known` says where the calls are: what is left of the application's call is the end
of a fixed program (`CallsAreKnown`), nodes are started and reset in order and once, those
that were joined have ended, and, unless cancelled, a thread is interrupted only
when all output nodes were joined (`ThreadKnown`). `InStep` counts: an edge holds as many statuses as
its source has produced and its sink not consumed, until the source has failed
and said so or the sink was cut, and no failure is followed by anything. `Ends` adds for
undisturbed runs when: each node fails after `net.frames` steps and not before, and it
has told every data edge before anybody interrupts it (`Past`), because a node whose
output node has ended has itself passed the failure on. This is where `LeadToOutputs` is used:
the set of nodes that are past it contains the outputs and is closed upstream.
It also gives the next run empty edges. `InTime` numbers the values: those that a
process is given were made in the step of the same number, those on an edge
in the steps that its sink has still to take, those held back are the last ones.
A SKIP that passed a holding process would break it; `NoSkips` says there is none.

The refinement has an invariant of its own, `InStream`. The stream of a node has as
many entries as the thread counts steps (`NodeStream`); what a thread has found so far in a
frame is what those of its sources that it has visited made of that frame (`NodeFound`);
and an edge holds the entries of its source's stream from the next that its
sink takes (`EdgeStream`), or is closed, and then the stream is not longer than what was taken.
A step of a process is then a step of the channel of statuses, the reset of the
first node is the reset of the streams (`Ends` has all outputs failed), and everything else is a
stutter. Its one hypothesis, `NetworksEnd`, says that a network that runs more than once and of
which `FrameStreams` promises something ends by itself and is not cancelled; `MCAsyncPipeline` has TLC
evaluate it (`RunsEnd`). Without it the second run meets frames of the first, and what a node
makes of them is not what `FrameStreams` says. A network with an endless source is covered as
far as nothing was announced: its steps are not counted, so its streams stay empty.

**The synchronous pipeline** (`SyncAndSuperProofs`; `NetworksAssumption`). The type invariant for every network,
and, for every set of networks whose execution order is topological
(`NetworksInOrder`, which the run evaluates for the networks that `reorder()` makes), that the
pipeline implements `FrameStreams`. `StreamInvariant` says that there is a frame k which the nodes
before the position of `execute()` have in their streams, and those behind it not
yet, unless they failed earlier (`Frame(k)`), and that what is noted of the outputs is
what those before the position have made of it (`OutputsNoted`). From it the k-th status
of each source is known when a node steps, so that the last status of the source,
which is what the code reads, is the k-th, or the failure that counts as such;
and that `run()` returns only when every output node has failed, so that a reset is one
that `FrameStreams` allows.

**The super process** (`SyncAndSuperProofs`; `SettingsAssumption`, `CapacityAssumption`). For any number of lanes, of nodes
in a lane, of frames and of recoveries, and all capacities. Nothing more is assumed for two theorems:

- `SuperTypeCorrect`: the type invariant `SuperTypes`, which stands in no configuration. It needs `WorkInHand` (a step that ended with SUCCESS has a frame to
  announce, so that only numbers of frames are on an edge) and that the queues of
  every edge are paired.
- `NothingIsLeftRunning`: `NothingOutlivesRun`. `ThreadInvariant` says who may wait where, what the flags of the feeder tell of its
  place, and that the inner threads are over once `Main` has joined them or `cancel()` has. An
  interrupted join is the interesting step: it joins again.

`PadsKeepStep` and `LanesMatchQueue` state `PadsInStep` and `LanesMatchStatusQueue`, the first with the hypothesis `Counted`, which the
second contains: no inner process answers NO_OUTPUT or FLUSH, and with status forwarding
no frame arrives as a FLUSH. A process that swallows a status in one of two lanes does put
the pads out of step, so `PadsInStep` without `Counted` is only checked on the settings of the
run. Neither is inductive, since what is on a pad was decided when the feeder gave it. `SuperInvariant` numbers
the statuses that the feeder gave to the lanes. There is a sequence g of the frames that they were given
for, a number `took[s]` of those that were taken from each segment, and a number r of those that every
pad had given when the last round ended (`Alignment`):

- `LanesAligned`: the first edges have all of g, but the lanes that the feeder still has to
  visit; a node has taken one status for each that it announced, and one more while it
  announces; from every pad `Main` took r, and one more from those before the present one in a round.
- `ValuesAligned`: a value on an edge, or in the hands of a node, is the frame of its number.
- `ForwardingAligned` and `QueueAligned`: with forwarding g is every frame; without, those that arrived with SUCCESS,
  as many as `Main` has asked for and the queue still promises, and the i-th SUCCESS in the queue belongs
  to the frame that many rounds ahead.

A round that ends with SUCCESS thus has the same number at each pad, and the number is of the frame
of the round. `LoopInvariant` says what fails: a FAILURE is the last thing in a lane,
and whoever closes an edge has failed because of it. A lane that has failed is left out of the numbering of
the pads, for reading a closed edge takes nothing; where there is
one lane, which is where there are recoveries, the FAILURE itself is the last status that was counted, so the pad goes on with the next
frame behind it. The numbering holds
until `Main` leaves its loop; `LoopIsLeftOnce` says that it does not come back. `InLaneAligned` turns the numbering into
what a lane holds, the difference of what was given and what was taken.

**The training thread** (`UtilityProofs`; `TrainingAssumption`). The type invariant,
`AbandonedBeginNothing` and `NewestBegins`. The invariant: an abandoned thread is interrupted, and either its
queue is empty or its status is still ABANDONED or it has ended (the status may
be overwritten by UNTASKED, but only with an empty queue that nobody fills
again); a thread not launched has an empty queue; the current queue ends with
the newest task, which is valid. A thread that begins a task has taken it under
the lock with a status other than ABANDONED, hence is the current one.

**The tile workers** (`TileWorkersProofs`; `TileAssumption`). The type invariant, `TilesAccountedFor`,
`ReturnsWhenDone` and `QueueHasOneUser`, for any number of threads, tiles and calls. `TileInvariant` says what
a status means: TASKED or RUNNING while the thread is at its tiles, FINISHED with an empty
queue once the thread was started, WAITING for every thread that is not yet started or
was already collected. `ReturnsWhenDone` follows because the caller returns after it has
collected every thread, all queues are then empty, and tiles are in a queue or
done. `FrontOfQueue` (a non-empty queue has a front) uses the well-foundedness of the natural numbers.

**The descriptor workers** (`UtilityProofs`; `DescriptorAssumption`). For any number of threads, tasks and frames:
`ResultTellsFailure` and `EachTaskOnce`, and the type invariant as a part of `DescriptorInvariant`. `TasksDealt` says that a task
is in the queue of its thread or was executed once; `StatusTells` what a status says of its
thread, as for the tile workers, and of its failures: none while it is TASKED or
FINISHED_W_SUCCESS, at least one when it is FINISHED_W_FAILURE, and `success[id]` while the thread executes;
`ResultSoFar` that the result tells of the failures of the threads already collected. The
status is what keeps two frames apart: a thread may be slow to send the
notification of the last one, but its status is WAITING before the next begins.

**The object cache** (`RegistryProofs`; `KindsAssumption`, `NamesAssumption`). For any number of objects, threads and
places, and lookups of anything by anyone: `PointersLive`, subtracks included, and `CacheExact`. Nothing is assumed
of who looks up; what is excepted are states of the model (`broken`), and the step that leads to each is
one of the two that `PointersLive` names. `UnlessBroken` is the invariant: `RefInvariant` as long as `broken` is "no". It counts:
the reference count of an object is the number of pointers to it (`Counted`); a thread in
`ref()` has a pointer to the object, or is the only one that knows it (`RefSafe`), and so is
a thread in `remove()` (`RemoveSafe`); a lookup holds the mutex (`LookupSafe`), and what it has found has a pointer still (`Known`),
or else the step that dropped it has set `broken`; an entry is of an object that exists, unless subtracks change their UUID (`EntriesSound`).
`CacheInvariant` adds when the entry of an object is in the cache: from the end of `add()` to
`remove()`. The lemmas count pointers when one is made, copied or dropped.

**The observer process** (`UtilityProofs`; `ObserverAssumption`). For any number of readers and items,
`EachItemOnce`; and `NoLostWakeup`: with one reader, of the two threads one is always about to wake the
other, which is why `ReaderServed` holds without a wakeup for no reason. `ObserverInvariant` adds to them
who may wait (`WaitsInCall`), how many items are got, available and on the way (`ItemsCounted`), and
that an item that was set is the one to be stepped (`SetBeforeStep`).

**The resource pool** (`RegistryProofs`; `PoolAssumption`). For any number of processes, names and changes,
`ObserversUpToDate` and `NoOrphans`. The core of `PoolInvariant` is `StaleAreCalled`: an observer that has not read the value
is still to be called by a change that is under way, or one that will collect
the observers. It is the reason why two announcements in the wrong order do no
harm: an observer is not handed a value, it reads the last one.

**Shot stitching** (`ShotStitchingProofs`; `StitchingAssumption`). For all parameters and any number of frames,
glitches and streams: `ReferencesKept`, `GapsAreBridged`, and `BufferBounded`, a bound of the queue that no run
lists. None is inductive, since what a frame will be adjusted by was
computed long before it arrived. `QueueInvariant` says that the frames held back are the
last ones received, unadjusted, and that each one that continues a shot is
preceded in the queue by the one that began it, so a registration has a frame to
use, and frames behind it have its reference. `ReferenceInvariant` says, unless misled, what the
state has to do with the last frame given: the adjustment leads from the
reference of the anchor to that of the last frame, and the next frame from
upstream is in the reference of the anchor. `BufferInvariant` counts: between two frames of a
glitch there are fewer frames than a shot needs. The lemmas show for each case
of `step2()` that what it gives continues what was given (`OutputGrows`).

**Only model-checked.** Liveness (`WaitsEnd`, `RunReturns`, `RunEnds`, `CancelReturns`, `ApplyReturns`, `ShutdownCompletes`,
`ProcessReturns`, `LastTaskIsTaken`, `BlockReturns`, `DestructorReturns`, `ReaderServed`) is out of the prover's reach. Of
safety: `InputsSynchronized` on networks that flush, where the number of a frame is not that of the
step; `PadsInStep` on settings that are not `Counted`. `PipelineGraph` is recursive, and evaluated on every graph of
three nodes.

## 5. What is not modelled

- Of the asynchronous pipeline: `add_without_execute()`, the destructor, the 100 ms wait of `is_running()` and calls of `run_async()`
  that overlap, `reset()` on a node that still runs.
- Of the super process: a synchronous pipeline inside, inner nodes that join
  several pads, a super process that is run again.
- Of the pipeline graph: the checks of connections, configuration and
  initialisation, drawing.
- Of the object cache: `set_uuid()` by other code than the subtracks, and everything that follows the use of
  freed memory.
- Of the tile and descriptor workers: an interruption of the node thread that calls, which leaves
  `apply_function()` or `process_tasks()` from its timed wait while workers are still at their tasks, and a function that throws
  at a tile, which ends the program in a worker and leaves `apply_function()` in thread 0.
- Of the resource pool: `has_resource()` and lists of names, which change
  nothing, and a change that an observer makes from its own callback.
- Of shot stitching: the numbers of features that decide whether a registration is valid,
  and the outputs that only pass through. The process answers SKIP for each
  frame it holds back and gives it later all the same, so it sends more statuses than it
  had frames; that is harmless only where everything downstream comes through
  it. `shot_stitching_process.h:30-31` has the frames of a stitched glitch passed on as "frame not
  processed"; the code drops them, and so does the model.
- `osd_mask_refinement_process`, which holds one frame back and has optional ports: it loses the last
  frame.
- The queue monitor reads `last_size`, which `SizeIsCurrent` covers.
- The external proxy process: a count around the loading of a shared library,
  whose effects are in the loader and the plugin.
- Ring buffers and paired buffers: containers with one owner. The klt mutex: one
  global mutex. Readers, writers, plugins, logging: input and output. Numerical
  code, which is by far the largest part of the library: no state that the steps
  of different actors share.
- `src/vidtk3p` and the other third-party code in the repository.
- Torn reads of the statuses and flags that are read without a lock: each is one
  machine word, written by one store, and is modelled as such.
