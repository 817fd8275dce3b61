# A TLA+ model of the LLM serving simulator

The repository is a simulator of large-language-model inference on clusters of
accelerators with processing in memory. One program, one thread: it pushes
requests through a scheduler, lets every simulated device walk a graph of
modules (attention, experts, collectives), adds up the time each module takes,
and reports latencies and throughput.

Nothing in it runs concurrently, and yet its control is that of a concurrent
system: data-parallel ranks share a queue and decide together on a phase, two
machines with clocks of their own hand requests to each other, devices wait for
each other at syncs and set each other's clocks. A mistake there does not crash
the program. It produces a table of plausible wrong numbers, or a loop that
spins through its remaining iterations without doing anything. That is what the
modules here are about. Paths below are relative to `src/`, the root of the
repository.

## 1. Inventory

### Request scheduler -- `src/scheduler/scheduler.*`, `sequence.*`

*State.* A queue of requests that wait (`sequence_queue`), a batch of requests
for every data-parallel rank (`running_queue`), a rotation counter that is a
`static` of `fillRunningQueue`, and per request its prompt length, total
length, current length, tokens of the coming iteration, and whether its first
token has been reported.

*Operations.* `fillSequenceQueue` / `pushSeq` (new requests), `fillRunningQueue`
(queue to batches), `setMetadata` (who gets how many tokens in the coming
iteration), `updateScheduler` and `updateSchedulerSumGenSplit` (lengths advance,
completed requests leave, first tokens are reported), `hittingQueue` (warm-up
without devices), `addLatency`.

*Hard.* Completion and first-token report are tested with `==`; a prompt on any
rank holds up the decodes of all; shares are integer divisions; a request that
is not served keeps its number of tokens; two containers hold the same pointers.

*Correct when* a request is in one container once, its tokens never step over a
length, no phase or budget is mixed up, batches are filled, and every request
that is admitted completes.

### Serving loops -- `src/hardware/cluster.cpp` (`runIteration*`)

*State.* `total_time` (clock of the decode machine), `sum_machine_time` (clock
of the prompt machine), the number of turns.

*Operations.* A turn calls `setMetadata`, `run`, one of the updates, and the two
fills. The colocated loop (`runIterationMixed`) runs prompts and decodes on the
same devices; the disaggregated loop (`runIterationSumGenSplit`) has a machine
for each.

*Hard.* The branch for a turn without tokens `continue`s before the clock moves
and before the fills; the two clocks drift apart and a decode may only start
when one has passed the time the other wrote down.

*Correct when* turns make progress, decodes start after their prompt, and turns
on one machine do not overlap.

### Device run loop and module graph -- `cluster.cpp`, `node.cpp`, `device.cpp`, `src/module/module_graph.*`

*State.* Per device a position in its list of modules, a clock, a set of ready
tensors, and a set of marks (`timeboard_synced`).

*Operations.* `Cluster::run` calls the devices in turn until none has modules
left; `TopModuleGraph::run` runs one module after the other until one is not
ready; `sync_devices` sets the clocks of a group to the latest; `restart`.

*Hard.* The device that finds a sync ready does the work of the others and
leaves marks for them; marks and clocks are written across devices; readiness is
per tensor, and some syncs look at a tensor that has long been ready.

*Correct when* devices leave a sync at the same time, no mark outlives its sync,
time never runs backwards, and no ring of waiting arises.

### Decoder and expert modules -- `src/model/llm.cpp`, `src/module/decoder.cpp`, `layer.cpp`, `expert.cpp`, `communication.cpp`, `route.cpp`

The order of the modules a device runs, what each waits for and whom it syncs
with. The MoE layer computes the number of tokens of each expert on device 0 for
all and reads them on every device. *Correct when* no reader sees the counts of
another layer or iteration.

### Expert routing -- `src/module/route.cpp`, `Scheduler`, `BatchedSequence`

Per batch the number of its tokens that each expert gets, drawn or read from a
trace; the sum over the batches, which replaces them; a split of the experts of
a device between its high and its low unit. *Hard.* Counts are cleared, drawn,
copied and overwritten in place; `cur_layer` wraps at a number that need not be
the number of MoE layers; the split is a greedy. *Correct when* tokens are
conserved over batches and experts, and the split is no worse than any the
greedy passes by.

### Dispatch and combine -- `src/module/communication.cpp`

`MoEScatter` and `MoEGather` compute, on every device for itself, the bytes it
sends and receives inside its node and between nodes, and charge the slower
direction. *Hard.* Both ends of a transfer are computed separately, by different
formulas. *Correct when* what is sent is what is received, and more tokens never
take less time.

### Executor, execution-time cache, layer timing -- `src/hardware/executor.*`, `device.cpp`, `*_impl.cpp`

A module asks `Device::execution` for a layer with a list of processors. The
`Executor` calls the function of that layer for each of them (GPU, logic die,
PIM) and keeps the fastest. The functions, about 7000 lines, are cost formulas:
operations, bytes, and accesses to tensors, whose simulated times are looked up
in a cache under layer, processor, request and size. *Hard.* Functions reshape
tensors that the next one finds; keys leave out tensor and address; products of
ints overflow. *Correct when* an entry stands for the access that finds it, a
layer is charged the same whatever ran before, no unit is used beyond its rate,
and cost grows with work.

### Memory capacity -- `Cluster::checkMemorySize`

Cuts the batch size to what fits, once per configuration. *Hard.* Three
different estimates of a cache; products of ints; what it leaves need not be
divisible by the ranks, and may be negative. *Correct when* what is admitted
later fits, and no more is given up than need be.

### Status and time board -- `src/module/timeboard.*`, `status.h`, `module_graph.cpp`

A stack of stamps opened and closed around modules, and the times of the high
and the low unit of a device. *Hard.* `device_time` is set back to the time of a
unit by a mark on a tensor, and joined again by the next tensor without one.
*Correct when* no executed time is lost at a join and stamps nest.

### DRAM interface, PIM kernels, address mapping -- `src/dram/`

Memory objects are laid out over an address space (`MMapController`), operands
become command lists (`pimkernel/`), which `DRAMInterface` hands to ramulator2
(a submodule that is not in the tree) and ticks until done. Only a sample of the
commands is simulated, those of one channel, or of one bank for the units behind
banks; a closed formula replaces the simulation when it is off. *Correct when*
weights are disjoint, the sample stands for the tensor, and the formula counts
what the simulation would.

### Near-bank PIM -- `src/dram/nearbank/`

The latency of a product on processing elements behind the row buffers. *Hard.*
A formula per number of row-buffer fills; callers rebuild a latency from its
parts. *Correct when* latency grows with the context across the boundaries.

### Others

*Latency report and statistics* (`addLatency`'s lists, `stat.h`): sums of
floating-point fields. *Configuration and entry* (`eval/test.cpp`,
`model_config.h`, `hardware_config.h`): checks that are the assumptions of the
modules here. *Attention, linear, activation, norm modules*: shape arithmetic
around a call of `Device::execution`.
*ASIC*: a Scala generator for area and power figures. *ramulator2*: external.

### Interactions

```
 arrivals ──> sequence_queue ──> running_queue[rank] ──> completed
                 fillSequenceQueue   fillRunningQueue       updateScheduler
                                        │ setMetadata          ▲
                                        ▼                      │ time
  serving loop  ───────────────>  Cluster::run  ── max of device clocks
                                        │
                     device 0 … n-1: TopModuleGraph::run
                        │ ready, clocks, marks      │ Device::execution
                        └── sync_devices            └── cache ── executor ── *_impl ── DRAMInterface
```
All arrows are calls. Shared state: the scheduler (every device reads token and
expert counts from it), the ready flags, marks and clocks of devices (written by
other devices in `sync_devices`), the cache (one for all devices).

## 2. Modules

| module | models | uses |
|---|---|---|
| `Scheduler` | class `Scheduler` with its sequences and batches: state, one operator per method, and the properties that hold under either loop | |
| `ColocatedServing` | `runIteration` with `runIterationMixed`, `hittingQueue` and the fills, as a state machine over `Scheduler` | `Scheduler` |
| `RequestLifecycle` | abstract: free, waiting, prefill, decode, free | |
| `DisaggServing` | `runIteration` with `runIterationSumGenSplit`, two clocks and the handoff | `Scheduler` |
| `DecoderGraph` | the list of modules that `LLM::forward` leaves on every device | |
| `ModuleGraph` | `Cluster::run`, `TopModuleGraph::run`, `check_ready`, `sync_devices`, `restart` | `DecoderGraph` |
| `NearbankPIM` | `computeGEMVLatency` in element counts and times per element | |
| `LayerCost` | the functions of all `*_impl.cpp` files as programs of steps | `NearbankPIM` |
| `DramMapping` | address mappings, filters of the kernels, `run_ideal`'s formula | |
| `MMapController` | placing and resizing memory objects | `DramMapping` |
| `LayerExecution` | modules' processor lists, `Executor`, cache, running a `LayerCost` program | `LayerCost`, `DramMapping` |
| `TimeBoard` | stamps and the clocks of two units on one device | |
| `ExpertRouting` | `update_expert`, `aggregate_expert`, `Route` | |
| `MoETransfer` | `MoEScatter` and `MoEGather` | |
| `MemoryCheck` | `checkMemorySize` and the admissions after it | |
| `SchedulerProofs` | lemmas: what every operator of `Scheduler` preserves | `Scheduler` |
| `SetSums` | lemmas: sums and maxima over finite sets, as the community modules define them | |
| `ColocatedProofs` | the theorems about `ColocatedServing` | `SchedulerProofs`, `ColocatedServing`, `SetSums` |
| `DisaggProofs` | the theorems about `DisaggServing` | `SchedulerProofs`, `DisaggServing` |
| `GraphProofs` | the order of the modules in the graph of any list of layers, and the theorems about `ModuleGraph` | `ModuleGraph`, `SetSums` |
| `RoutingProofs` | the theorems about `ExpertRouting` and `TimeBoard`: what keeps two units busy, and their clocks | `ExpertRouting`, `TimeBoard`, `SetSums` |
| `TransferProofs` | the theorems about `MoETransfer` | `MoETransfer`, `SetSums` |
| `MemoryProofs` | the theorems about `MMapController` and `MemoryCheck` | `MMapController`, `MemoryCheck`, `SetSums` |
| `MC*` | the lengths, layers, workloads, models, clusters and systems of the runs | |

### Scheduler

A request is a member of `Requests`. An identity is *free* when no container of
the scheduler holds it; `pushSeq` takes a free one and a completed request gives
its identity back with blank fields. `Requests` is thus a bound on requests that
live at the same time, not on requests altogether.

| model | code |
|---|---|
| `sequence_queue`, `running_queue`, `rotate` | the members of the same name; the `static int rotate` of `fillRunningQueue`, modulo the number of ranks |
| `input_len`, `total_len`, `current_len`, `num_process_token`, `record` | the fields of `Sequence` |
| `SumSeqs`, `GenSeqs`, `hasSumSeq` | `get_sum`, `get_gen`, `hasSumSeq` |
| `SetTokens(process_sum, process_gen, eligible)` | the assignments of `setMetadata`; the loops choose the arguments as its conditions on `disagg` and `gen_start_time` do |
| `UpdateSequences(S)` | `updateScheduler` (`S` = all) and `updateSchedulerSumGenSplit` (`S` = prompts) |
| `PushSequence` | `pushSeq`, `pushDummySeq`, `pushRealSeq` for one request |
| `PlaceHead` | one turn of the loop in `fillRunningQueue` |

A batch is a set: no property depends on the order in a batch. Experts of a
sequence, latency fields and arrival times are left out.

`ConfigAssumption` states what the configuration guarantees: the assertion of
`pushSeq` that a configured prompt is shorter than the model's maximum, and the
checks of `eval/test.cpp` on mode and output length. It does not ask that
`dp_degree` divides `total_batch_size`, that the prefill budget is positive, or
that a trace respects the model's maximum, because the code does not either.

### ColocatedServing

`pc` is the next call of the loop; `todo` counts the turns of its inner loops,
so that every push and every placement is a step. `hits` counts down the first
fill and the warm-up iterations of `hittingQueue`: 10000 in the code, any number
in `0 .. MaxHits` in the model.

Device time steers this loop in two places only. `addLatency` writes
`gen_start_time = total_time` and `setMetadata` compares it with a later
`total_time`: every decode is eligible. And the number of arrivals of an
iteration with `use_inject_rate` is that of a time span: here any number up to
`MaxArrivals`. So the model has no clock.

### DisaggServing

Here time matters: `total_time`, `sum_machine_time` and `gen_start_time` are
variables and the time of a turn is any of `Durations`. The closed loop only.
`iter` is the configured number of turns and what bounds the clocks; when it is
reached the loop stops, which is why the runs of this module do not check for
deadlock. `earliest` is a history variable: when a request entered its batch on the
clock of the batches, and the time of every prompt turn it has been part of since. No
handoff may be earlier.

### DecoderGraph and ModuleGraph

`DecoderGraph` computes the sequence of nodes from the list of layer kinds. A
node has the fields the run loop tells apart: does it sync, with which group,
which tensor it waits for, which tensor it sets, does time pass in it, does it
read or write the expert counts. Modules that follow each other without a sync
on one device are one node, since no other device looks at a tensor between
them. Wrapper modules without a `graph_execution` of their own are not in the
list in the code either.

`ModuleGraph` walks the list. `RunModule` and `RunSync` are one turn of
`TopModuleGraph::run`; `GoOn` is the return from it to `Cluster::run` when the
module is not ready; `Restart` is `restartModuleGraph` with the next iteration.
The order of devices is that of the code, so that a run is deterministic up to
durations; the durations decide nothing about control, but they are what the
clocks compare. `left` is a history variable: when a device left its last sync.
`iteration` is a parity that tells the counts of two iterations apart. The pop
stamp, which adds the duration to the clock, is taken with `forward`.

Parallel execution on high and low units is off here: `TimeBoard` has it, for one
device.

### LayerCost and LayerExecution

A function such as `AttentionSumExecutionGPU` is a *program*: a sequence of steps,
one per stage and sequence (prompts) or one per stage (decodes). A step is a record
of operations, bytes, compute and memory time, the accesses issued when the memory
is simulated and when it is ideal, and how its time is made of the two (`"max"`,
`"compute"`, `"opb"`). The functions for three processors repeat each other with
small differences; the differences are what the definitions spell out (a dropped
write, a doubled rate, a key of another processor, a padded length, columns that
are not set), and what they share is an operator.

| model | code |
|---|---|
| `Steps`, `RunStep` | the loops of the called function, one stage at a time |
| `issueRamulator` | `issueRamulator` and `getIdealMemoryStatus`, with `setShape` before them |
| `cache`, `CacheKey` | `Cluster::execution_time_cache`, `CacheKey` |
| `counters`, `run_ideal` | the counters of the DRAM interface, cleared by every access but one of size 0 in ideal mode, which adds those of the access before once more |
| `shape` | the shapes of the call's tensors, which functions change and leave changed |
| `tried`, `optimal`, `result` | statuses of the loop in `Executor::execution`; `Device::exec_status` |
| `WrapInt` | an expression of `int`s; `WordSpan` is 2^32 in the units of the run |

An execution has a `workload` with the systems, near-bank switches (`nb_config`) and
calls that go with it; it is chosen at the start and never changes, like a
configuration that is read once. A failed `assertTrue` ends the program: at the start of
the absorbed prompt functions (`HeadsMatch`) `RunStep` is then not enabled, at the end of
a function `EndFunction` is not.

A function returns at once if its batch has no tokens (`Nothing`), which is not the same
as no requests: a decode that waits for its turn is in the batch with no token and is
looped over all the same, with tensors of size 0. In ideal mode such an access leaves the
counters of the one before, so that what it costs depends on its neighbours:
`BatchPaysForItsParts` and `TrafficIsAccesses` are about batches in which every request
has a token (`AllTakePart`), and the workload "waiting" is there for the others, with
ideal memory only. (With simulated memory a request without commands is for ramulator2,
which is not in the tree.)

Times are whole multiples of the time of an operation or a byte; `logic_x = 4`,
`pim_x = 16`, `op_b` 8 and 1 as in the configuration. `ATTENTION_MIXED` and
`MLA_MIXED` are in the tables of the executor but no module constructs them; they
are modelled as the functions they are: they use their operations and bytes for the
utilizations and report neither. Per-stage breakdowns of the statistics are
left out.

### DramMapping and MMapController

`Digits` gives the mixed-radix digits both mappings are made of. A kernel is the
predicate by which it keeps a command for a bundle. Opened rows (`Activations`) are
what ramulator2 would count for those commands, each row once: the one external
definition. `GeometryAssumption` asks for as many logic dies as cubes, as all
configurations have. (`vecToAddrLOGIC`, the inverse of one of the mappings, has no
caller and is left out.)

### TimeBoard

A graph is the list of pushes and pops of an attention block or of an expert layer.
An entry has the mark of its tensor. `done` is a history variable: when the work of
each unit is really done. `SetTime` is the sync of `ModuleGraph` seen from one
device: it waits for any of `Durations`. The units are those that `eval/test.cpp`
makes of a configuration: one, which is then both the high and the low unit, or a GPU
with a logic die or PIM below it.

### ExpertRouting, MoETransfer, MemoryCheck

`ExpertRouting` draws one expert at a time; `sort` leaves equals in any order.
`MoETransfer` starts from any counts the gate can leave and computes both exchanges.
The `model` of the one and the `cluster` of the other are chosen at the start.
`MemoryCheck` takes the sizes of weights and tensors as numbers and recomputes the
activations exactly in its properties, where the code computes them in `int`.
`ActivationExact` says that the two agree; the systems of the run are of that kind, and
TLC evaluates it there as an assumption (`InstanceIsExact`).

## 3. What is checked

Every property has a mutant in `PROJECT.json`: a definition of the model with the
kind of slip a programmer makes there (a budget that is not shared, a request
that is not erased, a group replaced by the device itself). Under the mutant the run
of the property finds it violated. The mutated forms stand in the modules next to the definition they
replace.

| run | instance | shows |
|---|---|---|
| `colocated` | 5 requests for 5 places of 2 ranks, budget 3, prompts of 1 and 4 tokens, with fairness | `TypeOK`, `OneHome`, `NoOvershoot`, `OnePhasePerIteration`, `PrefillBudget`, `FirstTokenReported`, `ImplementsLifecycle`, and that requests are admitted (`QueuedAdmitted`) and complete (`AdmittedCompletes`) |
| `colocated_injected` | 5 requests for 4 places, arrivals at a rate, budget 1, half of a prompt reused | `IdleOnlyWhenStarved`: an iteration without tokens has no requests, or prompts that outnumber the budget on each rank that has prompts |
| `disagg` | 3 requests, 7 turns, turns of 1 or 2 time units | `NoOvershoot` where decodes keep tokens through prompt turns, `NoDecodeBeforeHandoff`, `HandoffReached`, `PromptTakesItsTurns` |
| `graph` | 4 devices in 2 tensor-parallel groups, a dense and a MoE layer, experts and 1 shared expert on all, with fairness | `SyncedTogether`, `MarksAreUsed`, `CountsOfThisLayer`, `ClocksMoveAtSync`, `IterationEnds` |
| `layers`, workload "sequence" | any 3 of 16 layer calls on systems of one or two processors, simulated memory | `HitsAreFaithful`, `ChargedAsIfAlone` |
| `layers`, workload "table" | all 11 layers, 3 processors, ideal and simulated, both precisions, flash on and off | `UtilizationAtMostOne`, `LongerNeverCheaper`, `BatchPaysForItsParts`, `TrafficIsAccesses`, `FlashDoesTheWork` |
| `layers`, workload "waiting" | decodes and prompts of which some have no token in this iteration, 3 processors, ideal memory | `ChargedAsIfAlone`, `UtilizationAtMostOne`, `LongerNeverCheaper` where accesses are empty |
| `layers`, workload "nearbank" | batches of decodes with the near-bank model, every switch | `CallerWithinOneFill`, `LongerNeverCheaper`, `BatchPaysForItsParts` |
| `mmap` | two cubes of four channels, tensors of 3 to 289 bytes at up to 3 places | `WeightsDisjoint`, `SampleStandsForTensor`, `IdealCountsSimulated` |
| `timeboard` | attention blocks of three kinds, expert layers, one and two units, serial and parallel, parallel asked for on a single unit | `NoTimeLost`, `StampsNest` |
| `routing` | six models: drawn experts, a trace, dense and MoE layers in turn, `top_k` equal to the number of experts, 8 experts in groups; two with dense layers that `num_layer` does not count right (`first_k_dense`, an `expert_freq` that does not divide); with fairness | `CountsAddUp`, `SplitBestOfPrefixes`, `CurLayerIsLayer`, `RoutingEnds` |
| `memory` | 14 systems, 7 capacities, 3 batch sizes | `ResidentFits`, `NotOverCautious` |
| `transfer` | 2 nodes of 8 devices in groups with 1 token, 2 nodes of 2 devices with 3, prompts and decodes | `SentIsReceived`, `TokensNeverSpeedUp` |

Every state machine states the type of its variables next to its properties
(`TypeOK`, `LETypeOK`, `MMTypeOK`, `TBTypeOK`, `ERTypeOK`; `MTTypeOK` of `MoETransfer`
stands in `TransferProofs`); the configuration of `colocated` is the one that checks
it, and a theorem `TypeCorrect` (`BoardTypeCorrect`) proves it for the two loops,
`ModuleGraph`, `ExpertRouting`, `MoETransfer` and `TimeBoard`; for `MMapController` it is
part of the inductive invariant (`MMInv`).

### Bounds

* *Requests.* The closed loop of an even configuration never has more than
  `total_batch_size` requests alive. With five places for two ranks of two, or with a
  rate, the queue grows: pushing stops when no identity is free. One identity more
  than the batches hold makes a request wait behind full batches, which is the case
  that matters.
* *Ranks and places.* Two ranks of two: the least in which a rank with prompts
  holds up one with decodes, in which a share divides and truncates, and in which
  the rotation can start at either rank.
* *Lengths.* A short prompt with a long answer and a long prompt with a short
  one, so that phases overlap in every way; with three tokens of budget the long
  prompt needs several iterations and its last share is clamped.
* *MaxHits = 1* (3 when disaggregated). A warm-up iteration is an ordinary
  iteration without devices; it changes which state the main loop starts in, and
  those states recur in the main loop except when disaggregated, where only the
  warm-up makes decodes without a handoff time. The three make requests of all lengths get there.
* *iter = 7* is enough for two requests to pass through prompt, handoff and the
  last decode with turns of the sum machine in between.
* *Devices, layers.* Four devices in two groups are the least in which syncs of a
  group and of all devices alternate and could overtake each other. A dense and a MoE
  layer and an endless restart show counts of one layer or iteration taken for those
  of another, and what an iteration leaves to the next.
* *Layer calls.* Dimensions are small and different from each other, so that no two
  products agree by accident; lengths on both sides of a multiple of four and of a
  tile; an empty expert and an empty batch. Calls interact through the cache and
  through shapes only: one call fills, one finds, and a third comes between.
* *Addresses.* The sizes include one below a bundle, one that is no multiple of a
  bundle and one of more than a round over all banks; with three tensors every
  weight may start in the middle of a round.
* *Near-bank contexts.* Row buffers of 4 and 16 elements, so that decodes of a few
  tokens of context pass the boundaries of several fills.
* *Experts.* Three experts for two tokens make ties and empty experts; eight is the
  least number that is moved in groups of two.
* *Transfers.* What is sent and received is linear in the tokens: one token, of any
  batch for any expert, decides `SentIsReceived` on two nodes of eight. Times are
  about one more token on top of some: three tokens on two nodes of two reach every
  combination of links. Latencies have the order of `hardware_config.h`, where the
  network in a node has the larger one.
* *Durations {0, 1}*: equal and unequal clocks, in any pattern over modules.

### Fairness

The simulator is one thread that never blocks; whatever is enabled next is
executed. `FairSpec` is weak fairness of `Next` as a whole and of nothing finer:
the order in which ranks and devices are served comes from the code, not from an
assumption. `AdmittedCompletes` is checked with a prefill share of at least one
token and requests that outlive their prompt; without either it fails, which
is a consequence of the code's priority of prompts (hazards in `PROJECT.json`). The
runs are of mixed mode; decode and prefill mode are covered by the theorems of
section 4, for safety.

`FairSpec` of `ExpertRouting` also asks for weak fairness of each `DrawExpert(e)`: the
generator takes every value again and again. `RoutingEnds` is then that the set
fills up; it needs `top_k` not above the number of experts, the assumption that the
configurations meet.

### Refinement

`RequestLifecycle` is the promise to a user: stages in order, bounded batches, and
no decode completes while a prompt is unfinished in a batch. `ColocatedServing`
implements it with the mapping `StageOf`, from the container that holds the
request and from its lengths. `DisaggServing` does not, and should not: its decodes
complete beside prompts.

### Where comments and code disagree

Two runs end in a counterexample on purpose.

* `colocated_decode_cut`. `eval/test.cpp:262-264` refuses decode mode with an
  output of one. `pushSeq` cuts the output afterwards; with a prompt one short of
  the model's maximum a request enters with `current_len = total_len`, steps over
  it and is never popped.
* `disagg_idle`. The branch for `getNumProcessToken() == 0` is commented "if no
  reqeusts, add time" (`cluster.cpp:552`): the 20 ms are assigned to a local variable
  and dropped by `continue`. When every decode waits for a handoff in the future, the
  clock that would reach it does not move.

Others were met while modelling. They lie outside the instances, or a property says
exactly what holds instead:

* The same branch of the colocated loop (`cluster.cpp:480`). With more prompts on a
  rank than `max_process_token`, every share is zero: the branch is taken with full
  batches, changes nothing, and is taken again for the rest of the run.
  `IdleOnlyWhenStarved` says that this is the only way to get there with requests.
* `nearbank_pim.h:82-84` says that the size of the computed element determines the
  throughput of a processing element; the code takes the packed rate whenever the
  *stored* data is low-bit, also for a product computed in FP16.
* `AttentionSumExecutionGPU` asserts that it moved a positive number of bytes; the
  bytes are a sum of `int` products, negative for a prompt of 16512 tokens with eight
  heads of 128.
* `checkMemorySize` reduces the batch until it fits; the attention scores of a batch
  are an `int` product (`cluster.cpp:206`) that wraps at 4096 tokens and 128 heads,
  and the batch is kept.
* `checkMemorySize` sizes the cache of absorbed decodes by full heads when the
  configuration does not compress the cache (`cluster.cpp:247`), while the tensors of
  that attention are latent: the estimate is not the one the requests will have, and the
  reduced size can even exceed the configured one. `ResidentFits` leaves absorbed decodes
  without `compressed_kv` out.
* `sequence.h:119` calls `cur_layer` the current layer of the batch; with dense layers
  in front (`first_k_dense`), or with an `expert_freq` that does not divide the layers, it
  wraps at the wrong place and drifts by one layer or more per iteration.
  `CurLayerIsLayer` is stated under `EveryRound`; the run has models on both sides of it.
* "FP8 dispatch && BF16 combine" in `MoEGather` is true of the bytes a device
  receives, not of those it sends.
* One side of a transfer finds its node by dividing by 8, the other by dividing by
  `num_device`; `SentIsReceived` is about nodes of eight.

Some properties leave out a function by name, because the code does otherwise and
nothing in the repository speaks against it: `ChargedAsIfAlone` the prompt function of
PIM when it runs after the GPU's (it keeps the columns it finds),
`UtilizationAtMostOne` decodes on PIM with simulated memory, near-bank units and the
softmax of `AbsorbMLASumExecutionLogic`, `FlashDoesTheWork` the later chunks of a
prompt. Lists of GPU and LOGIC are
not in `layers`: `LinearExecutionLogic` looks its activations up under the GPU's key,
and then `HitsAreFaithful` fails. Each has a hazard in `PROJECT.json` or a comment at
the property.

## 4. What is proved

Every theorem is about the specification with its constants left open: any number of
requests, ranks and places, any budget and lengths, any list of layers, any number of
devices and degrees of parallelism, any counts of experts, any nodes and link speeds,
as far as the named assumption of the module admits them (`ConfigAssumption`,
`LoopAssumption`, `DeviceAssumption` and so on, which TLC evaluates in every run of the
module). A further assumption is in the last column.

| theorem | property | further assumption |
|---|---|---|
| *ColocatedProofs* | | |
| `TypeCorrect` | `TypeOK` | |
| `RequestsHaveOneHome` | `OneHome` | |
| `NeverOvershoots` | `NoOvershoot` | `ArrivesUnfinished`: every length that may arrive leaves work |
| `PhasesDoNotMix` | `OnePhasePerIteration` | |
| `FirstTokensReported` | `FirstTokenReported` | (the property itself is conditional on `ArrivesInPrefill`) |
| `PrefillWithinBudget` | `PrefillBudget` | |
| `IdleMeansStarved` | `IdleOnlyWhenStarved` | |
| `LoopImplementsLifecycle` | `ImplementsLifecycle` | `ArrivesUnfinished` |
| *DisaggProofs* | | |
| `TypeCorrect` | `TypeOK` | |
| `RequestsHaveOneHome` | `OneHome` | |
| `NeverOvershoots` | `NoOvershoot` | `ArrivesUnfinished` |
| `FirstTokensReported` | `FirstTokenReported` | (as above) |
| `DecodesAfterHandoff` | `NoDecodeBeforeHandoff` | |
| `HandoffsReached` | `HandoffReached` | |
| `PromptsTakeTheirTurns` | `PromptTakesItsTurns` | |
| *GraphProofs* | | |
| `GraphOrderly` | (`Orderly(LLM)`, of the graph alone) | |
| `TypeCorrect` | `TypeOK` | |
| `SyncsTogether` | `SyncedTogether` | |
| `MarksUsedUp` | `MarksAreUsed` | |
| `CountsFresh` | `CountsOfThisLayer` | |
| `ClocksMove` | `ClocksMoveAtSync` | |
| *RoutingProofs* | | |
| `TypeCorrect` | `ERTypeOK` | |
| `CountsAreRight` | `CountsAddUp` | |
| `SplitIsTheBest` | `SplitBestOfPrefixes` | |
| `RowsAreLayers` | `CurLayerIsLayer` | (the property itself is conditional on `EveryRound`: as many layers have experts as `num_layer` says) |
| `FullRounds` | (`EveryRound`) | a model other than deepseekV3, `expert_freq` divides the layers |
| `BoardTypeCorrect` | `TBTypeOK` | |
| `NoTimeIsLost` | `NoTimeLost` | |
| `StampsAlwaysNest` | `StampsNest` | |
| *TransferProofs* | | |
| `TypeCorrect` | `MTTypeOK` | |
| `SentReachesReceivers` | `SentIsReceived` | (the property itself is about nodes of eight devices) |
| `MoreTokensNoFaster` | `TokensNeverSpeedUp` | |
| *MemoryProofs* | | |
| `WeightsApart` | `WeightsDisjoint` | |
| `SamplesStandForTensors` | `SampleStandsForTensor` | |
| `IdealIsAlmostExact` | `IdealCountsSimulated` | |
| `ResidentsFit` | `ResidentFits` | `ActivationExact`: no `int` product of an activation wraps |
| `ReductionIsTight` | `NotOverCautious` | `ActivationExact` |

### The arguments

The properties are not inductive. What they rest on:

*Scheduler and loops.* `SchedulerProofs` has a lemma for each operator of the scheduler
and each invariant, without a loop; both loops cite them, one step per action.

* `TypeInv == TypeOK /\ AttemptsBounded`. `PlaceHead` takes the head of the
  queue. It has one because `todo` was computed as the smaller of the room and
  the length of the queue, and every attempt takes at most one away:
  `AttemptsBounded` says that at "place" at most `Len(sequence_queue)` attempts
  remain. The theorem is thus also that the code never dereferences the front of
  an empty queue.
* `HomeInv == TypeInv /\ OneHome`. `OneHome` is inductive once the types are
  known: `PushSequence` only takes an identity that is in no container.
* `LengthInv == HomeInv /\ LengthsOK`. `LengthsOK` is `NoOvershoot` for the
  requests in the batches (`RunningOK`) and says of queued ones (`QueuedOK`) that
  they are unfinished and have no tokens yet, which is what they bring into a
  batch. The arithmetic of `PrefillTokens` (a minimum with the rest of the
  prompt) carries it through `SetMetadata`, the equality test of `Completed`
  through `UpdateSequences`. `ArrivesUnfinished` is needed: without it the
  request of `colocated_decode_cut` is a counterexample.
* `PhaseInv == HomeInv /\ TokensSpent`. `TokensSpent` says that outside of "run"
  no request has tokens, since a colocated update spends those of all batches.
  Tokens that a decode had kept would mix into a prompt iteration; when
  disaggregated they do.
* `RecordInv == LengthInv /\ RecordsOK`. `RecordsOK` is the property, and that
  queued requests are unreported and in their prompt. It needs `LengthInv`, since
  a length that steps over the prompt is never reported. `FirstTokenReported`
  assumes `ArrivesInPrefill`, which implies `ArrivesUnfinished`.
* `BudgetInv == PhaseInv /\ TokensHandedOut`. `TokensHandedOut` keeps what
  `setMetadata` wrote until it is spent: the share of `getProcessToken` for each
  prompt, one token for each decode when no rank has a prompt. The budget is then a
  sum of equal shares (`SumBound`), and no token at all means shares of zero.
* `RefineInv == LengthInv /\ TokensSpent /\ RoomBounded`. For each action the step of
  the life cycle it is: one for a push, a placement or an update of the batches, none
  otherwise. `RoomBounded` (attempts never exceed the free places of all batches)
  bounds the batches of the abstract specification; `TokensSpent` lets decodes
  complete only when no prompt is left in a batch.
* `HandoffInv == HomeInv /\ HandoffOK` of the disaggregated loop. A request that is not
  in a batch has no handoff time, a queued one no tokens, and during warm-up there is
  no time at all; tokens of a decode imply that its handoff has passed, *at every
  statement*, since they survive prompt turns; no handoff lies after both clocks.
* `TurnsInv` of the disaggregated loop. That a prompt pays for every turn it takes is not
  a matter of the sum machine's clock alone: a request enters its batch on the clock of
  the decodes, and turns it takes are added on the other clock. `EarliestReached` says
  that what a request has taken so far is behind one of the clocks, `TookNoTurn` that a
  request at the end of its prompt that is not reported yet entered it without a turn
  (all of its prompt was there), `RecordPastPrompt` that a reported request is
  out of its prompt and takes no turn any more, and `ClocksInWarmUp` that warm-up, which
  writes no handoff times, happens at time 0.

*Module graph.* The run loop has no barrier: a sync looks at the ready flag of one
tensor. That it works as one rests on the graph, so the proof has two halves.

* `GraphOrderly`, without any behaviour: in the graph of every list of layers a sync is
  `Fresh` (it waits for a tensor that only the node before it sets and no other sync
  waits for) or `Stale` (its tensor has long been ready, but it stands right behind a
  fresh sync of all devices with no timed work between), and between the writer of the
  expert counts, its readers and the next writer there is a fresh sync of all. Pieces of
  a layer are orderly, and `Join` puts orderly pieces with different tensors together;
  the whole list follows by taking its layers one after another (`CountUp`).
* `GraphInv`, over any graph of that kind: ready tensors have been set by a module the
  device has run (`ReadyOK`); no device is past a fresh sync another of its group has
  not reached (`OrderOK`); a device has a mark exactly for the syncs before it that
  another of the group has behind it (`MarksOK`); all that are to leave a sync together
  agree on its time, on the clock or in the record of when they left (`AgreeOK`), and
  after an untimed sync the clock stands still (`StillOK`); the counts are those of the
  last writer device 0 has run (`CountsOK`).

*Expert routing.* `RoutingInv == ERTypeOK /\ LayerOK /\ DrawOK /\ CountsAddUp /\ SplitOK`.
`DrawOK` counts while experts are drawn: batches before this one have `top_k` experts for
each token, this one for each but those left, and the open set of experts is smaller than
`top_k`. That the greedy split is the best of its prefixes is pure arithmetic
(`FirstLossEnds`): the time of the high unit only grows along the order and that of the
low unit only falls; once a move takes nothing off the low unit no later one does, since
the order is by tokens. `RowsOK` follows `cur_layer` through an iteration modulo
`num_layer`. Without `EveryRound` it is false from the second iteration on, as section
3 says of `first_k_dense`; `FullRounds` says for which models it holds.

*Time board.* The clock of a device goes back, and nothing in a state alone says that it
will not stay there: that depends on the marks of the tensors to come. So the invariant
speaks of the graph. A *walk* labels every place between two entries of the graph with a
stage: whether the clocks have met (`joined`), whether all work is done at `device_time`
(`serial`), whose time the device has (`high`, `low`, `ahead`, `two`), whether an execution
still waits to be added, and the marks of the open stamps.

* `GraphFlow`, without any behaviour: the graph of every configuration, with any number of
  experts and any marks of `Route`, has a walk from `Begin`. Modules have walks, and
  sequences and nestings of modules have them joined (`FlowJoin`, `WrapFlow`). Two things
  have to be true of the graph: a tensor marked for one unit never comes where work of
  both is done at `device_time` only, and what stands around a marked stamp is unmarked or
  has the same mark.
* `BoardInv`: there is a walk of which the clocks fit the stage at `pos`. `AtStage` relates
  the clocks to `done`: with two units at work each has done its work by its own clock, with
  one unit the other clock is behind. At a join the latest clock is then the time all work
  is done (`JoinMeets`), which is `NoTimeLost`. `OpenTo` says of each open stamp that
  it started by every clock it may be closed with, and that what ended inside it is done;
  closing one gives `StampsNest`. Single units with parallel execution asked for
  are a case of their own, and so are absorbed decodes, which run on the high unit under
  a mark of the low one (`ahead`: the low clock is not past the high one there).

*Transfers.* Types are the only invariant. `SentIsReceived` sums one table of tokens by
rows on one side and by columns on the other (`SumSwap`), after the members of a group
have been counted together (`SumByGroup`) and the two ways to find a node have been
shown to agree for eight devices (`SamePairs`); the divisions of the code are exact by
`TransferAssumption`, so that shares of bytes add up again. `TokensNeverSpeedUp` reduces
both times to functions of that table (`TimesOf`) that are monotone in each entry: sums,
scaling, both forms of `LinkTime`, the early return with nothing to send.

*Memory.* An address is determined by its mixed-radix digits, in both mappings
(`DigitsAre`). `WeightsDisjoint` follows `start_addr_normal`: no weight ends behind it, each
starts where the one before has ended, and no resizing touches a weight. Such ranges need
not begin or end at a bundle; that their whole bundles are still apart is a fact about
quotients (`BundlesApart`). For `SampleStandsForTensor` the places of a tensor are those of
consecutive bundles; a kernel keeps the bundles with one of a few remainders by the length
of a round, so that its share is off by less than one round, wherever the tensor starts. `IdealCountsSimulated` compares
that count with the quotient of `run_ideal`. For the check: `ActivationExact` lets the
`int` arithmetic be read as arithmetic; activations are monotone in the batch, the cache of
the estimate is that of the tensors, and the quotient that reduces the batch is the
largest that fits, so that what `fillRunningQueue` admits later fits (`ResidentsFit`) and
two requests more on each rank would not have (`ReductionIsTight`).

*Sets and numbers.* The sums are folds over finite sets. The induction behind their
lemmas is the choice of a smallest counterexample among the subsets (`SmallestSubset`),
or of a smallest number (`CountUp`), said with sets, because the library's induction
theorems take an operator as a parameter, which the provers cannot instantiate.

### Only model-checked

* Liveness: `QueuedAdmitted`, `AdmittedCompletes`, `IterationEnds`, `RoutingEnds`. It
  needs fairness and `ENABLED`, which the prover does not treat.
* `LayerExecution` and `LayerCost` (their programs of steps are sequences built
  recursively: what they compute for every input is out of reach), and `NearbankPIM`
  under them.
* The types of `LayerExecution` (`LETypeOK`): they hold in the states of `layers`, whose
  configuration lists the other invariants only.

## 5. What is not modelled

`PROJECT.json` lists every component with its status. Not modelled:

* *ramulator2*: a submodule that is not in the tree. Its time is a multiple of the
  commands and rows that a kernel leaves.
* *Energy and per-stage statistics*, latency lists, printing, gantt export, YAML:
  sums of fields that nothing reads back.
* *`checkHeteroMemorySize`, `setLOGIC`*, and the functions of mixed layers' modules:
  no caller.
* *Constructors of modules* (names, shapes of weights): the modules here start from
  what they build.
* *Rounding of floating point*: times are whole numbers.
* *The ASIC generator*.

A hazard that no property covers has a note in `PROJECT.json`.

## 6. Plan

Done, in this order: `Scheduler`, `ColocatedServing` with the life cycle and its
proofs, `DisaggServing`, `DecoderGraph`, `ModuleGraph`; then `NearbankPIM`, `LayerCost`,
`DramMapping`, `MMapController`, `LayerExecution`, `TimeBoard`, `ExpertRouting`,
`MemoryCheck`, `MoETransfer`.

Proofs, done in this order: `ColocatedServing` with its refinement, `DisaggServing`,
`DecoderGraph` and `ModuleGraph`, `ExpertRouting`, `MoETransfer`, `MMapController`,
`MemoryCheck`, `TimeBoard`.

Left: `LayerExecution`. Its properties compare what programs of steps cost, and a cost is
a recursive function over the steps of a program; a proof for every program is an
induction over sequences, so they stay with TLC.

Next modules, if any: `LatencyAccounting` (`addLatency`, first-token and decode times)
over `DisaggServing`.
