----------------------------- MODULE DecoderGraph -----------------------------
(***************************************************************************)
(* The list of graph modules every device runs: what the forward methods   *)
(* of LLM, Decoder, MoEDecoder, Attention and ExpertFFN push onto a        *)
(* TopModuleGraph (src/src/model/llm.cpp, module/decoder.cpp, layer.cpp,   *)
(* expert.cpp).  All devices have the same list; a module that syncs does  *)
(* so with the devices of its device_list, here named by the kind of list. *)
(*                                                                         *)
(* Modules without graph_execution only call others and are left out.      *)
(* Modules that follow each other on one device without a sync, and whose  *)
(* tensors no other device looks at, are one node: layer norms and linear  *)
(* layers with the attention or the feed-forward they belong to, the       *)
(* experts of a device with each other.                                    *)
(***************************************************************************)
EXTENDS Naturals, Sequences

CONSTANTS
  Layers,             (* the kind of each layer, "dense" or "moe"            *)
  num_shared_expert   (* shared experts of a MoE layer                       *)

ASSUME LayersAssumption ==
  /\ Layers \in Seq({"dense", "moe"})
  /\ num_shared_expert \in Nat

(* A node: whether its module is a sync module and with whom; the tensor   *)
(* whose readiness it looks at; the tensor it sets; whether time passes in *)
(* it; whether it reads or writes num_token_in_expert.  The input of a     *)
(* vec node is a TensorVec, whose readiness is never looked at.            *)
Node(layer, name, input, output) ==
  [layer |-> layer, name |-> name,
   input |-> <<layer, input>>, output |-> <<layer, output>>,
   sync |-> FALSE, device_list |-> "own", vec |-> FALSE,
   timed |-> TRUE, counts |-> "unused"]

SyncNode(layer, name, device_list, input, output) ==
  [Node(layer, name, input, output) EXCEPT !.sync = TRUE,
                                           !.device_list = device_list]

(* Sync: a module that copies its input to a tensor of its own, and one    *)
(* that syncs on this tensor.                                              *)
Sync(layer, name, input) ==
  << [Node(layer, "sync__set", input, name) EXCEPT !.timed = FALSE],
     [SyncNode(layer, "sync__", "all", name, name) EXCEPT !.timed = FALSE] >>

Attention(layer) ==
  << [Node(layer, "attention", "embedding", "o_proj")
        EXCEPT !.input = <<0, "embedding">>],
     SyncNode(layer, "all_reduce", "ne_tp", "o_proj", "attention"),
     Node(layer, "post_attn_layer_norm", "attention", "input") >>

Gate(layer) ==
  << Node(layer, "gate_fn", "input", "gate_fn"),
     [Node(layer, "gate_update", "input", "gate_update")
        EXCEPT !.timed = FALSE, !.counts = "written"] >>

(* Mutant: MoEScatter is no sync module.                                   *)
ScatterUnsynced(layer) ==
  << [Node(layer, "moe_scatter", "gate_update", "moe_scatter")
        EXCEPT !.counts = "read"] >>

Scatter(layer) ==
  << [SyncNode(layer, "moe_scatter", "all", "gate_update", "moe_scatter")
        EXCEPT !.counts = "read"] >>

Route(layer) ==
  << [Node(layer, "moe_route", "moe_scatter", "expert_input")
        EXCEPT !.vec = TRUE, !.timed = FALSE, !.counts = "read"] >>

Gather(layer) ==
  << [Node(layer, "moe_gather", "expert_FFN", "moe_gather")
        EXCEPT !.vec = TRUE, !.counts = "read"] >>

SharedExperts(layer) ==
  [i \in 1 .. num_shared_expert |->
     Node(layer, "shared_expert_FFN", "input", "shared_expert_FFN")]

(* The all-reduces take `input`, which has been ready since before the     *)
(* gate: the Sync in front of each makes them wait.                        *)
ExpertFFNWithoutSync2(layer) ==
  Sync(layer, "sync_0", "input")
    \o Gate(layer)
    \o Scatter(layer)
    \o Sync(layer, "sync_for_moe_scatter", "input")
    \o Route(layer)
    \o << Node(layer, "expert_FFN", "expert_input", "expert_FFN"),
       SyncNode(layer, "all_reduce_for_e_tp", "e_tp", "input", "e_tp") >>
    \o Sync(layer, "sync_3", "input")
    \o Gather(layer)
    \o Sync(layer, "sync_for_moe_gather", "input")
    \o << SyncNode(layer, "all_reduce_for_gather", "ne_tp", "input", "gather") >>
    \o Sync(layer, "sync_5", "input")
    \o SharedExperts(layer)
    \o Sync(layer, "sync_6", "input")

(* Mutant: the scatter comes before the gate.                              *)
ExpertFFNScatterFirst(layer) ==
  Sync(layer, "sync_0", "input")
    \o Scatter(layer)
    \o Gate(layer)
    \o Sync(layer, "sync_for_moe_scatter", "input")
    \o Route(layer)
    \o << Node(layer, "expert_FFN", "expert_input", "expert_FFN") >>
    \o Sync(layer, "sync_6", "input")

ExpertFFN(layer) ==
  Sync(layer, "sync_0", "input")
    \o Gate(layer)
    \o Scatter(layer)
    \o Sync(layer, "sync_for_moe_scatter", "input")
    \o Route(layer)
    \o << Node(layer, "expert_FFN", "expert_input", "expert_FFN") >>
    \o Sync(layer, "sync_2", "input")
    \o << SyncNode(layer, "all_reduce_for_e_tp", "e_tp", "input", "e_tp") >>
    \o Sync(layer, "sync_3", "input")
    \o Gather(layer)
    \o Sync(layer, "sync_for_moe_gather", "input")
    \o << SyncNode(layer, "all_reduce_for_gather", "ne_tp", "input", "gather") >>
    \o Sync(layer, "sync_5", "input")
    \o SharedExperts(layer)
    \o Sync(layer, "sync_6", "input")

(* The feed-forward of a dense layer, up to the residual that ends it.      *)
FeedForward(layer) ==
  << Node(layer, "feedforward", "input", "ffn_out"),
     SyncNode(layer, "all_reduce", "ne_tp", "ffn_out", "all_reduce"),
     Node(layer, "residual_1", "all_reduce", "decoder") >>

Residual(layer) ==
  << Node(layer, "residual_2",
          IF num_shared_expert > 0 THEN "shared_expert_FFN" ELSE "gather",
          "decoder") >>

Decoder(layer) ==
  Attention(layer) \o (IF Layers[layer] = "moe"
                       THEN ExpertFFN(layer) \o Residual(layer)
                       ELSE FeedForward(layer))

Decoders[n \in 0 .. Len(Layers)] ==
  IF n = 0 THEN << >> ELSE Decoders[n - 1] \o Decoder(n)

(* Every decoder takes the output of the embedding.                        *)
LLM == << [Node(0, "Embedding_layer", "tokens", "embedding")
             EXCEPT !.timed = FALSE] >>
         \o Decoders[Len(Layers)]
         \o << [Node(Len(Layers), "lm_head", "decoder", "lm_head")
                  EXCEPT !.timed = FALSE] >>
=============================================================================
