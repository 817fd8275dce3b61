--------------------------- MODULE LayerExecution ---------------------------
(***************************************************************************)
(* How a device executes a layer: a module picks the processors,           *)
(* Device::execution hands the layer to Executor::execution, which runs    *)
(* the function of each processor in turn and keeps the fastest status.    *)
(* The functions are the programs of LayerCost.  With use_ramulator every  *)
(* access is looked up in the execution-time cache, which the whole        *)
(* cluster shares, and is simulated on a miss; otherwise the ideal memory  *)
(* model counts its commands.                                              *)
(*                                                                         *)
(* A layer call is a record: layer (the LayerType), parallel and high and  *)
(* optimal (the flags of the input tensor), and the layer request L of     *)
(* LayerCost, with base, the address of the weight.                        *)
(***************************************************************************)
EXTENDS LayerCost, DramMapping

CONSTANTS
    Workloads,      \* names of the models that are executed
    Systems(_),     \* of a workload: configurations [list, high, low, hetero, ramulator]
    Switches(_),    \* of a workload: the near-bank switches
    Calls(_),       \* of a workload: the layer calls that may happen
    MaxCalls(_),    \* of a workload: bound on their number
    BandwidthX,     \* by processor: bandwidth_x of the PIM hardware configuration
    CommandTime,    \* simulated time of a command, and of opening a row
    ActivateTime

VARIABLES
    workload,       \* the model, which is built once
    system,         \* the configuration, which is read once
    cache,          \* Cluster::execution_time_cache
    shape,          \* rows and columns of the tensors of the call
    counters,       \* exec_status of the DRAM interface: its last access
    call,           \* the layer that is executed
    phase,          \* "idle", "choose" (between processors) or "run" (in a function)
    turn,           \* position in the list of processors
    step,           \* position in the function
    status,         \* exec_status of the function
    optimal,        \* optimal_status of Executor::execution
    tried,          \* history: the statuses of the processors of the call
    result,         \* Device::exec_status
    count           \* number of calls so far

config == <<workload, system, nb_config>>
vars == <<config, cache, shape, counters, call, phase, turn, step, status, optimal, tried, result,
          count>>

ASSUME ExecutionAssumption ==
    /\ CommandTime \in Nat \ {0} /\ ActivateTime \in Nat
    /\ \A w \in Workloads :
          /\ MaxCalls(w) \in Nat /\ Switches(w) \subseteq NearbankSwitches
          /\ \A y \in Systems(w) : /\ y.list \in Seq(Processors) /\ y.list # <<>>
                                   /\ {y.high, y.low} \subseteq Processors
                                   /\ {y.hetero, y.ramulator} \subseteq BOOLEAN

Tensors == {"input", "output", "weight", "k_cache", "v_cache", "gate_output"}
NoStatus == [processor |-> "NONE", time |-> 0, flops |-> 0, bytes |-> 0, cmds |-> 0, acts |-> 0]
NoAccess == [cmds |-> 0, acts |-> 0, time |-> 0]

-----------------------------------------------------------------------------
(* The processor list of a layer, chosen by its module. *)

ListOrHigh == IF Len(system.list) # 1 THEN <<system.high>> ELSE system.list
HighOrLow(c) == IF c.high THEN <<system.high>> ELSE <<system.low>>

SelfAttentionGen(c) == IF c.parallel THEN <<system.low>> ELSE system.list
SelfAttentionSum(c) == IF c.parallel THEN <<system.high>> ELSE system.list
SelfAttentionMixed(c) == system.list
MultiLatentAttentionGen(c) == IF c.parallel THEN <<system.low>> ELSE ListOrHigh
MultiLatentAttentionSum(c) == IF c.parallel THEN <<system.high>> ELSE ListOrHigh
AbsorbMLAGen(c) == IF c.parallel THEN <<system.high>> ELSE ListOrHigh
AbsorbMLASum(c) == IF c.parallel THEN <<system.high>> ELSE ListOrHigh

Linear(c) ==
    IF c.parallel THEN HighOrLow(c)
    ELSE IF system.hetero THEN <<system.high>>
    ELSE IF c.optimal THEN system.list ELSE ListOrHigh

Activation(c) ==
    IF c.parallel THEN HighOrLow(c)
    ELSE IF system.hetero THEN <<system.high>>
    ELSE IF c.optimal THEN system.list ELSE ListOrHigh

(* BatchedLinear does not look at hetero_subbatch. *)
BatchedLinear_forward(c) ==
    IF c.parallel THEN HighOrLow(c) ELSE IF c.optimal THEN system.list ELSE ListOrHigh

ProcessorList(c) ==
    CASE c.layer = "LINEAR"           -> Linear(c)
      [] c.layer = "BATCHED_LINEAR"   -> BatchedLinear_forward(c)
      [] c.layer = "ACTIVATION"       -> Activation(c)
      [] c.layer = "ATTENTION_GEN"    -> SelfAttentionGen(c)
      [] c.layer = "ATTENTION_SUM"    -> SelfAttentionSum(c)
      [] c.layer = "ATTENTION_MIXED"  -> SelfAttentionMixed(c)
      [] c.layer = "MLA_GEN"          -> MultiLatentAttentionGen(c)
      [] c.layer = "MLA_SUM"          -> MultiLatentAttentionSum(c)
      [] c.layer = "MLA_MIXED"        -> SelfAttentionMixed(c)
      [] c.layer = "ABSORBED_MLA_GEN" -> AbsorbMLAGen(c)
      [] c.layer = "ABSORBED_MLA_SUM" -> AbsorbMLASum(c)

(* Executor::executePType and its tables of functions. *)
On3(p, gpu, logic, pim) == CASE p = "GPU" -> gpu [] p = "LOGIC" -> logic [] p = "PIM" -> pim

executePType(c, p) ==
    LET L == c.L
    IN  CASE c.layer = "LINEAR" ->
               On3(p, LinearExecutionGPU(L), LinearExecutionLogic(L), LinearExecutionPIM(L))
          [] c.layer = "BATCHED_LINEAR" ->
               On3(p, BatchedLinearExecutionGPU(L), BatchedLinearExecutionLogic(L),
                   BatchedLinearExecutionPIM(L))
          [] c.layer = "ACTIVATION" ->
               On3(p, ActivationExecutionGPU(L), ActivationExecutionLogic(L),
                   ActivationExecutionPIM(L))
          [] c.layer = "ATTENTION_SUM" ->
               On3(p, AttentionSumExecutionGPU(L), AttentionSumExecutionLogic(L),
                   AttentionSumExecutionPIM(L))
          [] c.layer = "ATTENTION_GEN" ->
               On3(p, AttentionGenExecutionGPU(L), AttentionGenExecutionLogic(L),
                   AttentionGenExecutionPIM(L))
          [] c.layer = "ATTENTION_MIXED" ->
               On3(p, AttentionMixedExecutionGPU(L), AttentionMixedExecutionLogic(L),
                   AttentionMixedExecutionPIM(L))
          [] c.layer = "MLA_SUM" ->
               On3(p, MultiLatentAttentionSumExecutionGPU(L),
                   MultiLatentAttentionSumExecutionLogic(L),
                   MultiLatentAttentionSumExecutionPIM(L))
          [] c.layer = "MLA_GEN" ->
               On3(p, MultiLatentAttentionGenExecutionGPU(L),
                   MultiLatentAttentionGenExecutionLogic(L),
                   MultiLatentAttentionGenExecutionPIM(L))
          [] c.layer = "MLA_MIXED" ->
               On3(p, MultiLatentAttentionMixedExecutionGPU(L),
                   MultiLatentAttentionMixedExecutionLogic(L),
                   MultiLatentAttentionMixedExecutionPIM(L))
          [] c.layer = "ABSORBED_MLA_SUM" ->
               On3(p, AbsorbMLASumExecutionGPU(L), AbsorbMLASumExecutionLogic(L),
                   AbsorbMLASumExecutionPIM(L))
          [] c.layer = "ABSORBED_MLA_GEN" ->
               On3(p, AbsorbMLAGenExecutionGPU(L), AbsorbMLAGenExecutionLogic(L),
                   AbsorbMLAGenExecutionPIM(L))

(* The functions return at once when there is nothing to do: no prompt,    *)
(* or no decode, of the batch has a token in this turn, or the input has   *)
(* no rows.  A request without a token may be there: a prompt that got     *)
(* none of the budget, or a decode that waits for its handoff.             *)
SumLayers == {"ATTENTION_SUM", "MLA_SUM", "ABSORBED_MLA_SUM"}
GenLayers == {"ATTENTION_GEN", "MLA_GEN", "ABSORBED_MLA_GEN"}
Nothing(c) ==
    CASE c.layer \in SumLayers -> \A i \in DOMAIN c.L.sum : c.L.sum[i].npt = 0
      [] c.layer \in GenLayers -> \A i \in DOMAIN c.L.gen : c.L.gen[i].npt = 0
      [] c.layer \in {"LINEAR", "BATCHED_LINEAR", "ACTIVATION"} -> c.L.m = 0
      [] OTHER -> FALSE

-----------------------------------------------------------------------------
(* One access. *)

Sized(a, sh) == [a EXCEPT !.cols = IF @ = Keep THEN sh[a.tensor].cols ELSE @]

Bytes(a, L) == a.rows * a.cols * L.pb
Base(a, L) == IF a.tensor = "weight" THEN L.base ELSE 0

(* batched linear layers use the keys of linear layers *)
KeyLayer(layer) == IF layer = "BATCHED_LINEAR" THEN "LINEAR" ELSE layer

(* Mutant: a key without the type of the request. *)
CacheKeyNoRequest(c, p, a) ==
    <<KeyLayer(c.layer), IF a.key = "own" THEN p ELSE a.key, Bytes(a, c.L)>>

CacheKey(c, p, a) ==
    <<KeyLayer(c.layer), IF a.key = "own" THEN p ELSE a.key, a.req, Bytes(a, c.L)>>

(* run_ramulator: HandleRequest clears the counters and simulates the      *)
(* commands that the kernel of the executing processor keeps.              *)
run_ramulator(c, p, a) ==
    LET cmds == Commands(a.req, p, BandwidthX[p], Base(a, c.L), Bytes(a, c.L))
        acts == Activations(a.req, p, BandwidthX[p], Base(a, c.L), Bytes(a, c.L))
    IN  [cmds |-> cmds, acts |-> acts, time |-> cmds * CommandTime + acts * ActivateTime]

(* run_ideal: the counters of the DRAM interface after an access.  A       *)
(* tensor of size 0 is returned from at once, so last stays.               *)
run_ideal(c, a, last) ==
    LET n == IdealCommands(Bytes(a, c.L))
    IN  IF Bytes(a, c.L) = 0 THEN last
        ELSE [cmds |-> n, acts |-> IF n < num_col THEN 1 ELSE n \div num_col, time |-> 0]

(* issueRamulator, or getIdealMemoryStatus: one access of a step, after    *)
(* setShape.  x holds the cache, the shapes, the counters of the interface *)
(* and what was added up so far.  The ideal status is whatever the         *)
(* counters hold; a hit in the cache leaves them alone.                    *)
issueRamulator(c, p, x, access) ==
    LET a   == Sized(access, x.shape)
        key == CacheKey(c, p, a)
        hit == key \in DOMAIN x.cache
        ran == IF ~system.ramulator THEN run_ideal(c, a, x.counters)
               ELSE IF hit THEN x.cache[key] ELSE run_ramulator(c, p, a)
    IN  [cache |-> IF system.ramulator /\ ~hit
                   THEN [k \in DOMAIN x.cache \union {key} |->
                            IF k = key THEN ran ELSE x.cache[k]]
                   ELSE x.cache,
         shape |-> [x.shape EXCEPT ![a.tensor] = [rows |-> a.rows, cols |-> a.cols]],
         counters |-> IF system.ramulator /\ hit THEN x.counters ELSE ran,
         mem   |-> x.mem + a.w * ran.time,
         cmds  |-> x.cmds + ran.cmds,
         acts  |-> x.acts + ran.acts]

(* Mutant: memory time alone. *)
StepTimeMemory(st, mem, flops, bytes) ==
    IF st.bound = "compute" THEN st.compute ELSE mem

(* The end of a step adds its duration to total_duration. *)
StepTime(st, mem, flops, bytes) ==
    CASE st.bound = "max"     -> Max({st.compute, mem})
      [] st.bound = "compute" -> st.compute
      [] st.bound = "opb"     -> (mem * flops) \div bytes

Charge(x, st, done) ==
    LET mem   == IF system.ramulator /\ st.measured THEN done.mem ELSE st.memory
        flops == x.status.flops + st.flops
        bytes == x.status.bytes + st.bytes
    IN  [cache |-> done.cache, shape |-> done.shape, counters |-> done.counters,
         status |-> [x.status EXCEPT !.time = @ + StepTime(st, mem, flops, bytes),
                                     !.flops = flops, !.bytes = bytes,
                                     !.cmds = done.cmds, !.acts = done.acts]]

ExecuteStep(c, p, x, st) ==
    Charge(x, st, FoldLeft(LAMBDA y, a : issueRamulator(c, p, y, a),
                           [cache |-> x.cache, shape |-> x.shape, counters |-> x.counters,
                            mem |-> 0, cmds |-> x.status.cmds, acts |-> x.status.acts],
                           IF system.ramulator THEN st.acc ELSE st.ideal))

-----------------------------------------------------------------------------
(* The shapes that the modules give to the tensors of a call; the columns  *)
(* stand for all dimensions but the first.  The input of the absorbed      *)
(* functions has the heads first.                                          *)
StartShape(c) ==
    LET L == c.L
        h == IF c.layer = "BATCHED_LINEAR" THEN L.H ELSE 1
        absorbed(seqs) == [rows |-> L.H, cols |-> Tokens(seqs) * L.lora]
    IN  [t \in Tensors |->
            CASE t = "input" /\ c.layer = "ABSORBED_MLA_SUM" -> absorbed(L.sum)
              [] t = "input" /\ c.layer = "ABSORBED_MLA_GEN" -> absorbed(L.gen)
              [] t = "input" /\ ~(c.layer \in {"ABSORBED_MLA_SUM", "ABSORBED_MLA_GEN"}) ->
                    [rows |-> L.m, cols |-> h * L.k]
              [] t = "weight" -> [rows |-> h * L.k, cols |-> L.n]
              [] OTHER        -> [rows |-> L.m, cols |-> h * L.n]]

Init ==
    /\ workload \in Workloads /\ system \in Systems(workload) /\ nb_config \in Switches(workload)
    /\ cache = << >>
    /\ call \in Calls(workload)
    /\ shape = StartShape(call) /\ counters = NoAccess
    /\ phase = "choose" /\ turn = 1 /\ step = 1
    /\ status = NoStatus /\ optimal = NoStatus /\ result = NoStatus
    /\ tried = <<>>
    /\ count = 1

(* The forward function of a module, up to Device::execution, which        *)
(* resets the counters.                                                    *)
StartCall ==
    /\ phase = "idle" /\ count < MaxCalls(workload)
    /\ call' \in Calls(workload)
    /\ shape' = StartShape(call') /\ counters' = NoAccess
    /\ phase' = "choose" /\ turn' = 1 /\ optimal' = NoStatus /\ tried' = <<>>
    /\ count' = count + 1
    /\ UNCHANGED <<config, cache, step, status, result>>

(* Mutant: the status of the processor before is added to. *)
StartFunctionDirty ==
    /\ phase = "choose" /\ turn <= Len(ProcessorList(call))
    /\ phase' = "run" /\ step' = 1
    /\ status' = [status EXCEPT !.processor = ProcessorList(call)[turn]]
    /\ UNCHANGED <<config, cache, shape, counters, call, turn, optimal, tried, result, count>>

(* executePType sets the PIM hardware configuration and calls a function. *)
StartFunction ==
    /\ phase = "choose" /\ turn <= Len(ProcessorList(call))
    /\ phase' = "run" /\ step' = 1
    /\ status' = [NoStatus EXCEPT !.processor = ProcessorList(call)[turn]]
    /\ UNCHANGED <<config, cache, shape, counters, call, turn, optimal, tried, result, count>>

Steps == executePType(call, status.processor).steps

Become(x) ==
    /\ cache' = x.cache /\ shape' = x.shape /\ counters' = x.counters
    /\ status' = x.status

(* assertTrue at the start of the absorbed functions for prompts, which    *)
(* ends the program.                                                       *)
HeadsMatch == call.layer = "ABSORBED_MLA_SUM" => shape.input.rows = call.L.H

RunStep ==
    /\ phase = "run" /\ ~Nothing(call) /\ step <= Len(Steps)
    /\ step = 1 => HeadsMatch
    /\ Become(ExecuteStep(call, status.processor,
                          [cache |-> cache, shape |-> shape, counters |-> counters,
                           status |-> status], Steps[step]))
    /\ step' = step + 1
    /\ UNCHANGED <<config, call, phase, turn, optimal, tried, result, count>>

(* optimal_status: the fastest so far; no duration means no status yet. *)
Better(s, best) == best.time = 0 \/ best.time > s.time

(* assertTrue at the end of some functions, which ends the program. *)
TotalsPositive ==
    ~Nothing(call) /\ executePType(call, status.processor).asserts =>
        status.flops > 0 /\ status.bytes > 0

(* The function returns: it may give the input its shape back; its status  *)
(* is compared.                                                            *)
EndFunction ==
    /\ phase = "run" /\ (Nothing(call) \/ step > Len(Steps)) /\ TotalsPositive
    /\ shape' = IF ~Nothing(call) /\ executePType(call, status.processor).restores
                THEN [shape EXCEPT !.input = StartShape(call).input] ELSE shape
    /\ optimal' = IF Better(status, optimal) THEN status ELSE optimal
    /\ tried' = Append(tried, status)
    /\ phase' = "choose" /\ turn' = turn + 1
    /\ UNCHANGED <<config, cache, counters, call, step, status, result, count>>

(* setExecStatus *)
EndCall ==
    /\ phase = "choose" /\ turn > Len(ProcessorList(call))
    /\ result' = optimal
    /\ phase' = "idle"
    /\ UNCHANGED <<config, cache, shape, counters, call, turn, step, status, optimal, tried, count>>

Next == StartCall \/ StartFunction \/ RunStep \/ EndFunction \/ EndCall

Spec == Init /\ [][Next]_vars

-----------------------------------------------------------------------------
StatusType ==
    [processor : Processors \union {"NONE"}, time : Nat, flops : Nat, bytes : Nat,
     cmds : Nat, acts : Nat]

LETypeOK ==
    /\ \A k \in DOMAIN cache : cache[k] \in [cmds : Nat, acts : Nat, time : Nat]
    /\ shape \in [Tensors -> [rows : Nat, cols : Nat]]
    /\ counters \in [cmds : Nat, acts : Nat, time : Nat]
    /\ workload \in Workloads /\ system \in Systems(workload)
    /\ nb_config \in Switches(workload) /\ call \in Calls(workload)
    /\ phase \in {"idle", "choose", "run"}
    /\ turn \in Nat /\ step \in Nat /\ count \in 0 .. MaxCalls(workload)
    /\ {status, optimal, result} \subseteq StatusType
    /\ tried \in Seq(StatusType)

(* The commands of a weight depend on where it lies; every other tensor    *)
(* starts at address 0.                                                    *)
Slack(a) == IF a.tensor = "weight" THEN 2 ELSE 0
Close(x, y, d) == x - y \in -d .. d

StandsFor(entry, now, d) == Close(entry.cmds, now.cmds, d) /\ Close(entry.acts, now.acts, d)

(* A cache entry stands for the access that finds it: whatever layer,      *)
(* tensor and processor filled the entry, its commands and activations are *)
(* those that simulating this access now would give, for a weight up to    *)
(* its position in a round of the banks.  The key names neither the tensor *)
(* nor its address nor the processor whose mapping is used.                *)
HitsAreFaithful ==
    system.ramulator /\ phase = "run" /\ ~Nothing(call) /\ step <= Len(Steps) =>
        \A a \in Range(Steps[step].acc) :
            LET sized == Sized(a, shape)
                key   == CacheKey(call, status.processor, sized)
            IN  key \in DOMAIN cache =>
                    StandsFor(cache[key], run_ramulator(call, status.processor, sized), Slack(a))

(* A status that a function gives on an unused device with a cold cache. *)
Standalone(c, p) ==
    FoldLeft(LAMBDA x, st : ExecuteStep(c, p, x, st),
             [cache |-> << >>, shape |-> StartShape(c), counters |-> NoAccess,
              status |-> [NoStatus EXCEPT !.processor = p]],
             IF Nothing(c) THEN <<>> ELSE executePType(c, p).steps).status

(* AttentionSumExecutionPIM keeps the columns that it finds, which are     *)
(* those of the last access of the GPU when that one ran before.           *)
FindsColumns(c, i) == c.layer = "ATTENTION_SUM" /\ tried[i].processor = "PIM" /\ i > 1

SameCharge(s, t) ==
    /\ s.flops = t.flops /\ s.bytes = t.bytes
    /\ Close(s.cmds, t.cmds, 2) /\ Close(s.time, t.time, 2 * (CommandTime + ActivateTime))

(* What a processor is charged for a layer does not depend on what was     *)
(* executed before it: not on earlier layers (through the cache) and not   *)
(* on the processors before it in the list (through the shapes they leave  *)
(* in the tensors).  Executor::execution compares the statuses as if this  *)
(* were so.                                                                *)
ChargedAsIfAlone ==
    \A i \in DOMAIN tried :
        ~FindsColumns(call, i) => SameCharge(tried[i], Standalone(call, tried[i].processor))

(* Compute and memory rates that compute_util and memory_util divide by. *)
UtilRate(c, p) ==
    CASE p = "GPU"           -> GPURate
      [] c.layer = "MLA_SUM" -> DoubledGPURate(c.L)
      [] p = "LOGIC"         -> LogicRate(c.L)
      [] OTHER               -> PIMRate(c.L)

(* The statuses of the call that took some time. *)
Timed == {tried[i] : i \in {j \in DOMAIN tried : tried[j].time > 0}}

(* No processor is used more than fully: the operations and, when the      *)
(* memory is ideal, the bytes that a function reports fit into the time it *)
(* reports.  Two functions do not keep to this and are left out: decodes   *)
(* on PIM scale the simulated time by the operations per byte and never    *)
(* look at the compute time, and AbsorbMLASumExecutionLogic reports the    *)
(* bytes of its softmax but charges no time for them.  Near-bank units have *)
(* rates of their own.                                                     *)
UtilizationAtMostOne ==
    \A s \in {t \in Timed : ~(nb_config.model /\ t.processor = "PIM")} :
        LET r == UtilRate(call, s.processor)
            f == <<call.layer, s.processor>>
        IN  /\ ~(system.ramulator /\ f = <<"ATTENTION_GEN", "PIM">>) =>
                    s.flops * r.flop <= s.time
            /\ ~system.ramulator /\ f # <<"ABSORBED_MLA_SUM", "LOGIC">> =>
                    s.bytes * r.byte <= s.time

(* The call with one more token in the context of every sequence. *)
Longer(c) ==
    LET grown(seqs) == [i \in DOMAIN seqs |-> [seqs[i] EXCEPT !.cur = @ + 1]]
    IN  [c EXCEPT !.L.sum = grown(@), !.L.gen = grown(@)]

NoDearer(s, t) == s.time <= t.time /\ s.flops <= t.flops /\ s.bytes <= t.bytes

(* A longer context is never cheaper, in time, operations and bytes. *)
LongerNeverCheaper ==
    ~system.ramulator =>
        \A s \in Timed : NoDearer(s, Standalone(Longer(call), s.processor))

(* The calls with only one of the sequences of the batch. *)
Parts(c) ==
    CASE c.layer \in SumLayers -> [i \in DOMAIN c.L.sum |-> [c EXCEPT !.L.sum = <<@[i]>>]]
      [] c.layer \in GenLayers -> [i \in DOMAIN c.L.gen |-> [c EXCEPT !.L.gen = <<@[i]>>]]
      [] OTHER                 -> <<c>>

PaysFor(s, parts) ==
    /\ s.time <= SumOf(LAMBDA t : t.time, parts)
    /\ s.flops = SumOf(LAMBDA t : t.flops, parts)
    /\ s.bytes = SumOf(LAMBDA t : t.bytes, parts)

(* The sequences that the function of a call goes over, and whether each   *)
(* has a token.  The functions for decodes go over the caches of decodes   *)
(* that wait for their handoff, too: they are read, and charged.           *)
Served(c) == IF c.layer \in SumLayers THEN c.L.sum ELSE c.L.gen
AllTakePart(c) ==
    c.layer \in SumLayers \union GenLayers =>
        \A i \in DOMAIN Served(c) : Served(c)[i].npt > 0

(* Sequences do not pay for each other: executing a batch takes no longer  *)
(* than executing its sequences one by one, and reports the same           *)
(* operations and bytes.  Waiting decodes are the exception: alone they    *)
(* are not executed, in a batch their caches are paid for.                 *)
BatchPaysForItsParts ==
    ~system.ramulator /\ AllTakePart(call) =>
        \A s \in Timed :
            PaysFor(s, [i \in DOMAIN Parts(call) |-> Standalone(Parts(call)[i], s.processor)])

(* The attention functions do not take the latency that the near-bank      *)
(* model gives: they build one from its parts, so that the heads of a      *)
(* group can share the rows.  For one head the two agree up to the first   *)
(* fill of the row buffers, also where the data just stops fitting into    *)
(* one of them.                                                            *)
CallerWithinOneFill ==
    phase = "run" /\ status.processor = "PIM" /\ call.layer = "ATTENTION_GEN" /\ nb_config.model =>
        \A i \in DOMAIN call.L.gen :
            \A r \in {ScoringGEMV(call.L, call.L.gen[i]), ContextGEMV(call.L, call.L.gen[i])} :
                LET f == Format(call.L.pb)
                IN  r.latency - GroupedLatency(r, 1) \in 0 .. RbElements[f] * RbTime[f]

(* Functions whose formula counts every access that they issue.  The others *)
(* leave some out on purpose or by the dimensions they pick: attention on   *)
(* a cache counts no padding and on the GPU no operand but the cache is     *)
(* read, the batched functions of LOGIC and PIM take the first two of three *)
(* dimensions.                                                              *)
CountsAll(c, p) ==
    \/ c.layer \in {"LINEAR", "ACTIVATION", "MLA_GEN", "ABSORBED_MLA_GEN"}
    \/ c.layer = "ATTENTION_SUM" /\ p # "PIM"
    \/ c.layer \in {"BATCHED_LINEAR", "ABSORBED_MLA_SUM"} /\ p = "GPU"
    \/ c.layer = "MLA_SUM" /\ (c.L.flash \/ c.L.KV = c.L.H)

(* Ideal and simulated memory time the same traffic: the bytes in the      *)
(* formula of a step are the sizes of the tensors that the step accesses,  *)
(* if every sequence has a token: the accesses count a query for each.     *)
TrafficIsAccesses ==
    phase = "run" /\ AllTakePart(call) /\ ~Nothing(call) /\ step <= Len(Steps) =>
        LET st == Steps[step]
            moved == FoldLeft(LAMBDA n, a : n + Bytes(a, call.L), 0, st.acc)
        IN  CountsAll(call, status.processor) /\ st.bytes > 0 => st.bytes = moved

(* Operations of the scores and of the context of sequences, without the   *)
(* softmax.                                                                *)
Unfused(c, p) ==
    Standalone([c EXCEPT !.L.flash = FALSE], p).flops
        - SumOf(LAMBDA s : 7 * s.npt * Length(s) * c.L.H, Served(c))

(* Flash attention does all of the work: its tiles cover the scores of     *)
(* whole prompts and of decodes.  (Of a prompt that continues after a      *)
(* first chunk they cover only the new tokens: the number of column tiles  *)
(* is that of the rows.)                                                   *)
FlashDoesTheWork ==
    \A s \in Timed :
        call.L.flash /\ call.layer \in {"MLA_SUM", "MLA_GEN", "ABSORBED_MLA_GEN"}
        /\ (call.layer = "MLA_SUM" => \A i \in DOMAIN call.L.sum : call.L.sum[i].cur = 0) =>
            s.flops >= Unfused(call, s.processor)

=============================================================================
