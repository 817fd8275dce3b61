---------------------------- MODULE MCMemoryCheck ----------------------------
(* Systems for MemoryCheck. *)
EXTENDS MemoryCheck

Base ==
  [num_device |-> 4, ne_tp_dg |-> 2, e_tp_dg |-> 1, num_layers |-> 2, precision_byte |-> 2,
   input_len |-> 3, output_len |-> 2, hidden_dim |-> 2, head_dim |-> 1, num_heads |-> 4,
   num_kv_heads |-> 2, q_lora_rank |-> 0, kv_lora_rank |-> 0, qk_rope_head_dim |-> 0,
   expert_intermediate_dim |-> 2, expert_freq |-> 1, top_k |-> 2, num_routed_expert |-> 4,
   num_shared_expert |-> 0, decode_mode |-> FALSE, use_absorb |-> FALSE,
   compressed_kv |-> FALSE, weight |-> 40, act |-> 30,
   exit_out_of_memory |-> FALSE, mem_cap_limit |-> TRUE]

Latent(decode, absorb, compressed) ==
  [Base EXCEPT !.q_lora_rank = 2, !.kv_lora_rank = 2, !.qk_rope_head_dim = 1,
               !.num_shared_expert = 1, !.decode_mode = decode,
               !.use_absorb = absorb, !.compressed_kv = compressed]

SmallSystems ==
  {Latent(d, a, c) : d, a, c \in BOOLEAN}
  \cup {Base, [Base EXCEPT !.exit_out_of_memory = TRUE], [Base EXCEPT !.mem_cap_limit = FALSE],
        [Base EXCEPT !.ne_tp_dg = 1], [Base EXCEPT !.ne_tp_dg = 1, !.num_device = 1],
        [Base EXCEPT !.expert_freq = 0]}

(* None of them overflows an int.                                          *)
ASSUME InstanceIsExact ==
  \A M \in SmallSystems, total \in BatchSizes : ActivationExact(M, total)
=============================================================================
