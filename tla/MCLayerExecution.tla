-------------------------- MODULE MCLayerExecution --------------------------
(* Layer calls of the modules in small dimensions, for LayerExecution. *)
EXTENDS LayerExecution

(* logic_x = 4, pim_x = 16, logic_op_b = 8 and pim_op_b = 1, as in the code. *)
MCFlopTime == [GPU |-> 1, LOGIC |-> 1, PIM |-> 2]
MCByteTime == [GPU |-> 64, LOGIC |-> 16, PIM |-> 4]
MCBandwidthX == [GPU |-> 0, LOGIC |-> 4, PIM |-> 16]
MCRbTime == [fp16 |-> 4, low |-> 1]
MCRbElements == [fp16 |-> 4, low |-> 16]
MCPeTime == [fp16 |-> 4, low |-> 1]

Off == [model |-> FALSE, scoring |-> FALSE, softmax |-> FALSE, context |-> FALSE,
        dequant |-> FALSE, asymmetric |-> FALSE]

Config(list, low, ram) ==
    [list |-> list, high |-> list[1], low |-> low, hetero |-> FALSE, ramulator |-> ram]
RamulatorSystems ==
    {Config(<<"GPU">>, "GPU", TRUE), Config(<<"LOGIC">>, "LOGIC", TRUE),
     Config(<<"GPU", "PIM">>, "PIM", TRUE),
     [Config(<<"GPU", "PIM">>, "PIM", TRUE) EXCEPT !.hetero = TRUE]}
TableSystems == {Config(<<p>>, p, ram) : p \in Processors, ram \in BOOLEAN}

Prompt(n) == [npt |-> n, cur |-> 0]
Chunk(n, c) == [npt |-> n, cur |-> c]
Decode(c) == [npt |-> 1, cur |-> c]

Request ==
    [H |-> 2, KV |-> 1, hd |-> 2, rope |-> 1, lora |-> 3, group |-> 2, pb |-> 2,
     flash |-> FALSE, dup |-> FALSE, m |-> 3, k |-> 8, n |-> 4, base |-> 0,
     sum |-> <<Prompt(3)>>, gen |-> <<Decode(2), Decode(4)>>]
Call(layer, L) ==
    [layer |-> layer, parallel |-> FALSE, high |-> TRUE, optimal |-> TRUE, L |-> L]

(* A weight as large as an activation, a weight elsewhere, an empty expert. *)
LinearCalls ==
    {Call("LINEAR", [Request EXCEPT !.m = x[1], !.k = x[2], !.n = x[3], !.base = x[4]]) :
        x \in {<<4, 6, 4, 0>>, <<2, 6, 4, 50>>, <<0, 6, 4, 50>>}}
BatchedCalls ==
    {Call("BATCHED_LINEAR", [Request EXCEPT !.m = 2, !.k = 3, !.dup = d, !.base = 100]) :
        d \in BOOLEAN}
AttentionCalls ==
    {Call("ATTENTION_SUM", Request),
     Call("ATTENTION_SUM", [Request EXCEPT !.sum = <<Prompt(2), Chunk(1, 2)>>]),
     Call("ATTENTION_SUM", [Request EXCEPT !.sum = <<>>]),
     Call("ATTENTION_GEN", Request),
     Call("ATTENTION_GEN", [Request EXCEPT !.gen = <<>>])}

ListCalls ==
    LinearCalls \union BatchedCalls \union AttentionCalls
    \union {Call("ACTIVATION", [Request EXCEPT !.k = 4]),
            [Call("LINEAR", Request) EXCEPT !.optimal = FALSE],
            [Call("LINEAR", Request) EXCEPT !.parallel = TRUE, !.high = FALSE],
            [Call("ACTIVATION", [Request EXCEPT !.k = 4]) EXCEPT !.parallel = TRUE],
            [Call("ATTENTION_GEN", Request) EXCEPT !.parallel = TRUE],
            [Call("ATTENTION_SUM", Request) EXCEPT !.parallel = TRUE]}

(* Every function of the executor's tables. *)
Layers == {"LINEAR", "BATCHED_LINEAR", "ACTIVATION", "ATTENTION_GEN", "ATTENTION_SUM",
           "ATTENTION_MIXED", "MLA_GEN", "MLA_SUM", "MLA_MIXED", "ABSORBED_MLA_GEN",
           "ABSORBED_MLA_SUM"}
TableCalls ==
    {Call(layer, [Request EXCEPT !.pb = b, !.flash = f, !.KV = kv, !.group = 2 \div kv, !.sum = x[1], !.gen = x[2]]) :
        layer \in Layers, b \in {1, 2}, f \in BOOLEAN, kv \in {1, 2},
        x \in {<<<<Prompt(3)>>, <<Decode(2)>>>>, <<<<Prompt(1), Prompt(4)>>, <<Decode(3)>>>>,
               <<<<Prompt(2), Chunk(1, 2)>>, <<Decode(1), Decode(6)>>>>}}

(* A prompt that gets none of the budget and a decode that waits for its   *)
(* handoff, beside others and alone: some accesses have size 0.  Requests  *)
(* without commands are left to the simulator, so the memory is ideal.     *)
Waiting(c) == [npt |-> 0, cur |-> c]
WaitingSystems == {y \in TableSystems : ~y.ramulator}
WaitingCalls ==
    {Call(layer, [Request EXCEPT !.pb = b, !.flash = f, !.sum = x[1], !.gen = x[2]]) :
        layer \in SumLayers \union GenLayers, b \in {1, 2}, f \in BOOLEAN,
        x \in {<<<<Prompt(3), Prompt(0)>>, <<Decode(3), Waiting(2)>>>>,
               <<<<Prompt(0), Prompt(3), Waiting(2)>>, <<Waiting(2), Decode(3)>>>>,
               <<<<Prompt(0)>>, <<Waiting(2), Waiting(3)>>>>}}

NearbankOn ==
    [model |-> TRUE, scoring |-> TRUE, softmax |-> FALSE, context |-> TRUE,
     dequant |-> TRUE, asymmetric |-> TRUE]
NearbankSome ==
    {NearbankOn, [NearbankOn EXCEPT !.softmax = TRUE, !.dequant = FALSE],
     [NearbankOn EXCEPT !.context = FALSE, !.asymmetric = FALSE]}
DecodeCalls ==
    {Call(layer, [Request EXCEPT !.pb = b, !.KV = kv, !.group = 2 \div kv, !.gen = g]) :
        layer \in {"ATTENTION_GEN", "ATTENTION_MIXED"}, b \in {1, 2}, kv \in {1, 2},
        g \in {<<Decode(x), Decode(y), Decode(z)>> : x, y, z \in {1, 3, 6}}}

(* Sequences of calls on systems with several processors and a cache; every *)
(* function of the tables once; batches with requests that have no token;   *)
(* batches of decodes on near-bank units.                                   *)
MCWorkloads == {"sequence", "table", "waiting", "nearbank"}
MCSystems(w) ==
    CASE w = "sequence" -> RamulatorSystems
      [] w = "waiting"  -> WaitingSystems
      [] OTHER          -> TableSystems
MCSwitches(w) == IF w = "nearbank" THEN NearbankSome ELSE {Off}
MCCalls(w) ==
    CASE w = "sequence" -> ListCalls
      [] w = "table"    -> TableCalls
      [] w = "waiting"  -> WaitingCalls
      [] w = "nearbank" -> DecodeCalls
MCMaxCalls(w) == IF w = "sequence" THEN 3 ELSE 1
=============================================================================
