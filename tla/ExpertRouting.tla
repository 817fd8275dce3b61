---------------------------- MODULE ExpertRouting ----------------------------
(***************************************************************************)
(* How the tokens of an iteration are given to experts, layer by layer.    *)
(* GateUpdate on device 0 lets every batch (one per data-parallel rank)    *)
(* draw or look up top_k experts for each of its tokens                    *)
(* (BatchedSequence::update_expert), then gives all batches the sum of     *)
(* their counts (aggregate_expert).  Route then splits the experts of each *)
(* device between its high and its low unit (getIdxHigh).                  *)
(* Sources: src/src/module/route.cpp, src/src/scheduler/sequence.cpp,      *)
(* src/src/scheduler/scheduler.cpp, src/src/model/llm.cpp.                 *)
(*                                                                         *)
(* The times that getIdxHigh compares are max(1, n / opb) with some        *)
(* factor; they are given as whole numbers: a floor and a time per token.  *)
(***************************************************************************)
EXTENDS Integers, Sequences, SequencesExt, FiniteSetsExt

CONSTANTS
  Models,                  \* the configurations, see ModelType
  HighFloor, HighToken, LowFloor, LowToken,
  MaxIterations            \* bound on the iterations

VARIABLES
  model,                   \* the configuration, which is read once
  tokens,                  \* by batch: process tokens of this iteration
  iteration, layer,        \* iterations so far; decoder layer that is executed
  cur_layer,               \* by batch: cur_layer
  phase,                   \* "schedule", "decode", "draw" or "route"
  batch, left, route,      \* update_expert: its batch, tokens left, experts drawn
  num_token_in_expert,     \* by batch and expert
  local_num_token_in_expert,
  order,                   \* by device: how sort left its experts or groups
  high                     \* by device: the experts marked for the high unit

vars == <<model, tokens, iteration, layer, cur_layer, phase, batch, left, route,
          num_token_in_expert, local_num_token_in_expert, order, high>>

(* deepseekV3: whether the layers are those of deepseekV3; from_list:      *)
(* get_expert_from_list, experts come from a trace; MaxTokens: bound on    *)
(* the tokens of a batch; dp_degree: the number of batches.                *)
ModelType ==
  [num_routed_expert : Nat \ {0}, top_k : Nat \ {0}, dp_degree : Nat \ {0},
   num_expert_per_device : Nat \ {0}, num_layers : Nat \ {0}, expert_freq : Nat \ {0},
   first_k_dense : Nat, deepseekV3 : BOOLEAN, from_list : BOOLEAN, MaxTokens : Nat]

ASSUME RoutingAssumption ==
  /\ Models \subseteq ModelType
  /\ \A m \in Models : /\ m.expert_freq <= m.num_layers
                      /\ m.top_k <= m.num_routed_expert
                      /\ m.num_routed_expert % m.num_expert_per_device = 0
  /\ {HighFloor, HighToken, LowFloor, LowToken, MaxIterations} \subseteq Nat

num_routed_expert == model.num_routed_expert
num_expert_per_device == model.num_expert_per_device
num_layers == model.num_layers
dp_degree == model.dp_degree
top_k == model.top_k

Experts == 0 .. num_routed_expert - 1
Batches == 1 .. dp_degree
Devices == 0 .. (num_routed_expert \div num_expert_per_device) - 1

(* LLM: which decoder layers have experts. *)
MoE(l) == IF model.deepseekV3 THEN l >= model.first_k_dense ELSE l % model.expert_freq = 0
MoEBefore(l) == Cardinality({i \in 0 .. l - 1 : MoE(i)})

(* num_layer of update_expert and of the traces *)
num_layer == num_layers \div model.expert_freq

Total(f, S) == FoldFunctionOnSet(LAMBDA x, y : x + y, 0, f, S)
NoCounts == [e \in Experts |-> 0]
-----------------------------------------------------------------------------
(* getIdxHigh *)

HighTime(n) == Max({HighFloor, n * HighToken})
LowTime(n) == Max({LowFloor, n * LowToken})

HighLoad(list, S) == Total([e \in S |-> HighTime(list[e])], S)
LowLoad(list, S) == Total([e \in S |-> LowTime(list[e])], S)

(* The groups that are moved together: single experts if there are at most *)
(* four, otherwise four groups.                                            *)
Groups ==
  LET size == IF num_expert_per_device <= 4 THEN 1 ELSE num_expert_per_device \div 4
  IN  {{g * size + i : i \in 0 .. size - 1} : g \in 0 .. (num_expert_per_device \div size) - 1}

(* sort: by tokens, most first; those with as many in any order. *)
Sorted(list) ==
  {o \in SetToSeqs(Groups) :
     \A i, j \in DOMAIN o : i < j => Total(list, o[i]) >= Total(list, o[j])}

Prefix(o, n) == UNION {o[i] : i \in 1 .. n}
Bottleneck(list, S) ==
  Max({HighLoad(list, S), LowLoad(list, (0 .. num_expert_per_device - 1) \ S)})

(* Mutant: goes on after a move that does not pay. *)
getIdxHighGreedy(list, o) ==
  Prefix(o, Max({0} \cup {k \in DOMAIN o : Bottleneck(list, Prefix(o, k))
                                           < Bottleneck(list, {}) + HighFloor}))

(* One group after the other goes to the high unit while that makes the    *)
(* slower unit faster.                                                     *)
getIdxHigh(list, o) ==
  LET pays(k) == Bottleneck(list, Prefix(o, k)) < Bottleneck(list, Prefix(o, k - 1))
  IN  Prefix(o, Max({0} \cup {k \in DOMAIN o : \A j \in 1 .. k : pays(j)}))
-----------------------------------------------------------------------------
Init ==
  /\ model \in Models
  /\ tokens = [b \in Batches |-> 0]
  /\ iteration = 0 /\ layer = 0
  /\ cur_layer = [b \in Batches |-> 0]
  /\ phase = "schedule" /\ batch = 1 /\ left = 0 /\ route = {}
  /\ num_token_in_expert = [b \in Batches |-> NoCounts]
  /\ local_num_token_in_expert = [b \in Batches |-> NoCounts]
  /\ order = [d \in Devices |-> <<>>]
  /\ high = [d \in Devices |-> {}]

(* setMetadata: the tokens of the next iteration.  The counts and          *)
(* cur_layer of the batches stay.                                          *)
Schedule ==
  /\ phase = "schedule" /\ iteration < MaxIterations
  /\ tokens' \in [Batches -> 0 .. model.MaxTokens]
  /\ iteration' = iteration + 1 /\ layer' = 0 /\ phase' = "decode"
  /\ UNCHANGED <<model, cur_layer, batch, left, route, num_token_in_expert,
                 local_num_token_in_expert, order, high>>

(* A decoder without experts. *)
Dense ==
  /\ phase = "decode" /\ layer < num_layers /\ ~MoE(layer)
  /\ layer' = layer + 1
  /\ UNCHANGED <<model, tokens, iteration, cur_layer, phase, batch, left, route,
                 num_token_in_expert, local_num_token_in_expert, order, high>>

EndIteration ==
  /\ phase = "decode" /\ layer = num_layers
  /\ phase' = "schedule"
  /\ UNCHANGED <<model, tokens, iteration, layer, cur_layer, batch, left, route,
                 num_token_in_expert, local_num_token_in_expert, order, high>>

(* The start of update_expert of a batch: its counts are cleared.  Mutant: *)
(* they are not.                                                           *)
ClearedNot(counts, b) == counts

Cleared(counts, b) == [counts EXCEPT ![b] = NoCounts]

StartBatch(b, counts) ==
  /\ batch' = b /\ left' = tokens[b] /\ route' = {}
  /\ num_token_in_expert' = Cleared(counts, b)

(* GateUpdate::forward on device 0. *)
GateUpdate ==
  /\ phase = "decode" /\ layer < num_layers /\ MoE(layer)
  /\ phase' = "draw"
  /\ StartBatch(1, num_token_in_expert)
  /\ UNCHANGED <<model, tokens, iteration, layer, cur_layer, local_num_token_in_expert, order, high>>

Counted(S) == [num_token_in_expert EXCEPT ![batch] =
                 [e \in Experts |-> @[e] + IF e \in S THEN 1 ELSE 0]]

(* The loop of getRandomExpert, and of getZipfianRandomExpert.  Mutant: it *)
(* goes on for one more.                                                   *)
EnoughMore(S) == Cardinality(S) > top_k

Enough(S) == Cardinality(S) >= top_k

DrawExpert(e) ==
  /\ phase = "draw" /\ left > 0 /\ ~model.from_list
  /\ LET S == route \cup {e}
     IN  IF Enough(S)
         THEN left' = left - 1 /\ route' = {} /\ num_token_in_expert' = Counted(S)
         ELSE left' = left /\ route' = S /\ UNCHANGED num_token_in_expert
  /\ UNCHANGED <<model, tokens, iteration, layer, cur_layer, phase, batch,
                 local_num_token_in_expert, order, high>>

(* The row token_id * num_layer + cur_layer of the trace: top_k experts. *)
ExpertFromList ==
  /\ phase = "draw" /\ left > 0 /\ model.from_list
  /\ \E S \in kSubset(top_k, Experts) : num_token_in_expert' = Counted(S)
  /\ left' = left - 1
  /\ UNCHANGED <<model, tokens, iteration, layer, cur_layer, phase, batch, route,
                 local_num_token_in_expert, order, high>>

(* The end of update_expert.  Mutant: the layer does not wrap around. *)
NextLayerOn(b) == [cur_layer EXCEPT ![b] = @ + 1]

NextLayer(b) == [cur_layer EXCEPT ![b] = (@ + 1) % num_layer]

EndBatch ==
  /\ phase = "draw" /\ left = 0 /\ batch < dp_degree
  /\ cur_layer' = NextLayer(batch)
  /\ StartBatch(batch + 1, num_token_in_expert)
  /\ UNCHANGED <<model, tokens, iteration, layer, phase, local_num_token_in_expert, order, high>>

(* The rest of aggregate_expert, after the last batch. *)
Aggregate ==
  /\ phase = "draw" /\ left = 0 /\ batch = dp_degree
  /\ cur_layer' = NextLayer(batch)
  /\ local_num_token_in_expert' = num_token_in_expert
  /\ LET sum == [e \in Experts |-> Total([b \in Batches |-> num_token_in_expert[b][e]], Batches)]
     IN  num_token_in_expert' = [b \in Batches |-> sum]
  /\ phase' = "route"
  /\ UNCHANGED <<model, tokens, iteration, layer, batch, left, route, order, high>>

(* Route::forward of all devices, with the counts of their own batch,      *)
(* which are the same for all.                                             *)
OwnList(d) == [i \in 0 .. num_expert_per_device - 1 |->
                 num_token_in_expert[1][d * num_expert_per_device + i]]

Route ==
  /\ phase = "route"
  /\ order' \in {o \in [Devices -> SetToSeqs(Groups)] : \A d \in Devices : o[d] \in Sorted(OwnList(d))}
  /\ high' = [d \in Devices |-> getIdxHigh(OwnList(d), order'[d])]
  /\ phase' = "decode" /\ layer' = layer + 1
  /\ UNCHANGED <<model, tokens, iteration, cur_layer, batch, left, route, num_token_in_expert,
                 local_num_token_in_expert>>

Next == \/ Schedule \/ Dense \/ EndIteration \/ GateUpdate
        \/ \E e \in Experts : DrawExpert(e)
        \/ ExpertFromList \/ EndBatch \/ Aggregate \/ Route

Spec == Init /\ [][Next]_vars

AllExperts == UNION {0 .. m.num_routed_expert - 1 : m \in Models}

(* The generator gives every expert again and again; the rest is a         *)
(* sequential program.                                                     *)
FairSpec ==
  /\ Spec
  /\ \A e \in AllExperts : WF_vars(e \in Experts /\ DrawExpert(e))
  /\ WF_vars(ExpertFromList) /\ WF_vars(EndBatch) /\ WF_vars(Aggregate)
-----------------------------------------------------------------------------
CountType == [Batches -> [Experts -> Nat]]

ERTypeOK ==
  /\ model \in Models
  /\ tokens \in [Batches -> Nat] /\ iteration \in 0 .. MaxIterations /\ layer \in 0 .. num_layers
  /\ cur_layer \in [Batches -> 0 .. num_layer - 1]
  /\ phase \in {"schedule", "decode", "draw", "route"}
  /\ batch \in Batches /\ left \in Nat /\ route \subseteq Experts
  /\ num_token_in_expert \in CountType /\ local_num_token_in_expert \in CountType
  /\ order \in [Devices -> {<<>>} \cup SetToSeqs(Groups)]
  /\ high \in [Devices -> SUBSET (0 .. num_expert_per_device - 1)]

(* The assertion of aggregate_expert: the batches together hold top_k      *)
(* experts for every token of the iteration, once per batch; and what each *)
(* batch keeps for itself (which MoEScatter and MoEGather send) is exactly *)
(* its own tokens.  Nothing of an earlier layer or iteration is left in.   *)
CountsAddUp ==
  phase = "route" =>
    /\ Total([b \in Batches |-> Total(num_token_in_expert[b], Experts)], Batches)
         = Total(tokens, Batches) * top_k * dp_degree
    /\ \A b \in Batches :
         /\ Total(local_num_token_in_expert[b], Experts) = tokens[b] * top_k
         /\ \A e \in Experts : local_num_token_in_expert[b][e] <= tokens[b]

(* The split of getIdxHigh is the best along its way: moving fewer or more *)
(* groups in this order leaves the slower unit no faster, though the loop  *)
(* stops at the first move that does not pay.                              *)
SplitBestOfPrefixes ==
  phase = "decode" /\ layer > 0 /\ MoE(layer - 1) =>
    \A d \in Devices : \A n \in 0 .. Len(order[d]) :
      Bottleneck(OwnList(d), high[d]) <= Bottleneck(OwnList(d), Prefix(order[d], n))

(* The models in which as many layers have experts as num_layer says, so   *)
(* that cur_layer comes round once in an iteration.  deepseekV3 with dense *)
(* layers at the start (first_k_dense) and an expert_freq that does not    *)
(* divide num_layers are not among them.                                   *)
EveryRound == MoEBefore(num_layers) = num_layer

(* The comment at cur_layer calls it the current layer of the batch; it    *)
(* picks the row of the trace.  While the experts of a layer are chosen it *)
(* is the number of the layer among those with experts, in a model whose   *)
(* rounds are complete.  In the others it moves on from one iteration to   *)
(* the next.                                                               *)
CurLayerIsLayer ==
  EveryRound /\ phase = "draw" => cur_layer[batch] = MoEBefore(layer)

(* Routing ends: every token gets its experts, also when top_k is the      *)
(* number of experts.                                                      *)
RoutingEnds == phase = "draw" ~> phase = "route"
=============================================================================
