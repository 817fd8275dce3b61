--------------------------- MODULE MCExpertRouting ---------------------------
(* Models for ExpertRouting. *)
EXTENDS ExpertRouting

Drawn ==
  [num_routed_expert |-> 3, top_k |-> 2, dp_degree |-> 2, num_expert_per_device |-> 3,
   num_layers |-> 2, expert_freq |-> 2, first_k_dense |-> 0, deepseekV3 |-> FALSE,
   from_list |-> FALSE, MaxTokens |-> 2]

(* Experts drawn for two batches, every second layer dense; all experts    *)
(* taken in every layer; eight experts of a device in four groups, from a  *)
(* trace; deepseekV3 with experts in all layers.  Two more are not         *)
(* EveryRound: deepseekV3 with a dense layer at the start, and an          *)
(* expert_freq that does not divide the layers, both from a trace.         *)
MCModels ==
  {Drawn,
   [Drawn EXCEPT !.num_routed_expert = 2, !.num_expert_per_device = 1, !.expert_freq = 1],
   [Drawn EXCEPT !.num_routed_expert = 8, !.top_k = 1, !.dp_degree = 1,
                 !.num_expert_per_device = 8, !.expert_freq = 1, !.from_list = TRUE,
                 !.MaxTokens = 3],
   [Drawn EXCEPT !.expert_freq = 1, !.dp_degree = 1, !.deepseekV3 = TRUE],
   [Drawn EXCEPT !.expert_freq = 1, !.first_k_dense = 1, !.deepseekV3 = TRUE,
                 !.from_list = TRUE, !.MaxTokens = 1],
   [Drawn EXCEPT !.num_layers = 3, !.from_list = TRUE, !.MaxTokens = 1]}
=============================================================================
