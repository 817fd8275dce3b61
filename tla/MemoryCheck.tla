----------------------------- MODULE MemoryCheck -----------------------------
(***************************************************************************)
(* Cluster::checkMemorySize, which compares what the model needs with the  *)
(* memory of a device before the first iteration and, if the configuration *)
(* asks for it, reduces the batch; then the requests that are admitted.    *)
(* Sources: src/src/hardware/cluster.cpp, the cache tensors of             *)
(* src/src/module/attention.cpp and compressed_kv_restore.cpp, and         *)
(* src/src/scheduler/scheduler.cpp.                                        *)
(*                                                                         *)
(* A system is a record of the fields of ModelConfig and SystemConfig that *)
(* are read.  Expressions that the code evaluates as int wrap at WordSpan; *)
(* those with a double factor do not.                                      *)
(***************************************************************************)
EXTENDS Integers, FiniteSetsExt

CONSTANTS
  Systems,      \* the systems that are tried
  Capacities,   \* values of memory_capacity
  BatchSizes,   \* values of total_batch_size
  WordSpan      \* number of values of an int

VARIABLES
  system, capacity, configured,         \* what was configured
  total_batch_size, batch_size_per_dp,  \* of the scheduler
  status,                               \* "built", "run", "exit" or "failed"
  out_of_memory,
  resident                              \* by rank: requests of its batch

vars == <<system, capacity, configured, total_batch_size, batch_size_per_dp,
          status, out_of_memory, resident>>

SystemRecord ==
  [num_device : Nat \ {0}, ne_tp_dg : Nat \ {0}, e_tp_dg : Nat, num_layers : Nat \ {0},
   precision_byte : Nat \ {0}, input_len : Nat \ {0}, output_len : Nat, hidden_dim : Nat,
   head_dim : Nat \ {0}, num_heads : Nat, num_kv_heads : Nat \ {0}, q_lora_rank : Nat,
   kv_lora_rank : Nat, qk_rope_head_dim : Nat, expert_intermediate_dim : Nat,
   expert_freq : Nat, top_k : Nat, num_routed_expert : Nat, num_shared_expert : Nat,
   decode_mode : BOOLEAN, use_absorb : BOOLEAN, compressed_kv : BOOLEAN, weight : Nat,
   act : Nat, exit_out_of_memory : BOOLEAN, mem_cap_limit : BOOLEAN]

ASSUME MemoryAssumption ==
  /\ Capacities \subseteq Nat /\ BatchSizes \subseteq Nat /\ WordSpan \in Nat \ {0}
  /\ Systems \subseteq SystemRecord
  /\ \A M \in Systems :
       /\ M.expert_freq # 0 => M.num_routed_expert > 0
       /\ M.num_device % M.ne_tp_dg = 0
       /\ M.num_kv_heads % M.ne_tp_dg = 0 /\ M.num_heads % M.ne_tp_dg = 0
       /\ M.use_absorb \/ M.compressed_kv => M.qk_rope_head_dim > 0

dp_degree(M) == M.num_device \div M.ne_tp_dg
total_len(M) == M.input_len + M.output_len

(* Division of C++ ints: towards zero. *)
Quotient(a, b) == IF a >= 0 THEN a \div b ELSE -((-a) \div b)

WrapInt(x) == ((x + WordSpan \div 2) % WordSpan) - WordSpan \div 2

(* activation_size for batches of b requests, t together: the tokens of an *)
(* iteration of a device, their projections, attention scores and experts. *)
(* ints(x) is what becomes of an expression of ints, unless it is exact.   *)
ExpertActivation(M, t, tokens, exact) ==
  LET ints(x) == IF exact THEN x ELSE WrapInt(x)
      expert_batch_size == IF M.expert_freq = 0 THEN 0
                           ELSE ints(t * M.top_k) \div M.num_routed_expert
      rows == expert_batch_size * tokens
  IN  (((M.num_routed_expert * M.e_tp_dg) \div M.num_device) + M.num_shared_expert)
      * (3 * ints(rows * M.expert_intermediate_dim) + ints(rows * M.hidden_dim))

activation_size(M, b, t, exact) ==
  LET ints(x) == IF exact THEN x ELSE WrapInt(x)
      tokens  == IF M.decode_mode THEN 1 ELSE M.input_len
      rows    == b * tokens
      share(x) == Quotient(x, M.ne_tp_dg)
      latent  == ints(rows * (M.hidden_dim + M.q_lora_rank + M.kv_lora_rank
                                + M.qk_rope_head_dim))
      query   == share(rows * (3 * M.qk_rope_head_dim + M.head_dim) * M.num_heads)
      kv      == IF M.use_absorb
                 THEN 2 * share(ints(rows * M.num_heads * M.kv_lora_rank))
                 ELSE share(2 * M.head_dim * M.num_heads
                            * IF M.decode_mode /\ M.compressed_kv THEN b * total_len(M) ELSE rows)
      score   == IF M.decode_mode THEN share(2 * b * M.num_heads * total_len(M))
                 ELSE 2 * share(ints(rows * M.input_len * M.num_heads))
      context == share(ints(rows * M.num_heads * M.head_dim))
  IN  (latent + query + kv + score + context + ints(rows * M.hidden_dim)
       + ExpertActivation(M, t, tokens, exact)) * M.precision_byte

(* Activations as the check takes them: from the tensors of one layer, or, *)
(* for latent attention, from the formula.                                 *)
Activation(M, b, t, exact) ==
  IF M.q_lora_rank = 0 THEN M.act \div M.num_layers ELSE activation_size(M, b, t, exact)

(* Cache tensors of a request on a device, all layers. *)
CacheTensors(M) ==
  M.num_layers * M.precision_byte * total_len(M)
  * IF M.use_absorb \/ M.compressed_kv THEN M.kv_lora_rank + M.qk_rope_head_dim
    ELSE 2 * M.head_dim * (M.num_kv_heads \div M.ne_tp_dg)

kv_cache_size_per_seq(M) ==
  IF M.qk_rope_head_dim # 0 /\ M.compressed_kv
  THEN total_len(M) * (M.kv_lora_rank + M.qk_rope_head_dim) * M.num_layers * M.precision_byte
  ELSE ((2 * total_len(M) * M.num_layers * M.head_dim * M.num_kv_heads) \div M.ne_tp_dg)
       * M.precision_byte
-----------------------------------------------------------------------------
Init ==
  /\ system \in Systems /\ capacity \in Capacities /\ configured \in BatchSizes
  /\ total_batch_size = configured
  /\ batch_size_per_dp = configured \div dp_degree(system)
  /\ status = "built" /\ out_of_memory = FALSE
  /\ resident = [r \in 1 .. dp_degree(system) |-> 0]

Needed ==
  Activation(system, batch_size_per_dp, total_batch_size, FALSE)
  + system.weight + batch_size_per_dp * CacheTensors(system)

(* Mutant: what is left beside the weights alone. *)
avail_capacityAll(M) == capacity - M.weight

avail_capacity(M) ==
  capacity - M.weight - Activation(M, batch_size_per_dp, total_batch_size, FALSE)

(* Mutant: the requests of all ranks share the memory of one. *)
max_batch_sizeOne(M) == avail_capacity(M) \div kv_cache_size_per_seq(M)

max_batch_size(M) == (avail_capacity(M) \div kv_cache_size_per_seq(M)) * dp_degree(M)

ReduceBatch ==
  /\ total_batch_size' = max_batch_size(system) - 1
  /\ batch_size_per_dp' = Quotient(max_batch_size(system) - 1, dp_degree(system))

checkMemorySize ==
  /\ status = "built"
  /\ out_of_memory' = (Needed > capacity)
  /\ IF ~out_of_memory'
     THEN status' = "run" /\ UNCHANGED <<total_batch_size, batch_size_per_dp>>
     ELSE CASE system.exit_out_of_memory ->
                 status' = "exit" /\ UNCHANGED <<total_batch_size, batch_size_per_dp>>
            [] ~system.exit_out_of_memory /\ ~system.mem_cap_limit ->
                 status' = "run" /\ UNCHANGED <<total_batch_size, batch_size_per_dp>>
            [] OTHER ->
                 IF avail_capacity(system) < 0
                 THEN status' = "failed" /\ UNCHANGED <<total_batch_size, batch_size_per_dp>>
                 ELSE status' = "run" /\ ReduceBatch
  /\ UNCHANGED <<system, capacity, configured, resident>>

(* fillRunningQueue gives a request to a batch with room. *)
Admit(r) ==
  /\ status = "run"
  /\ MapThenSumSet(LAMBDA q : resident[q], DOMAIN resident) < total_batch_size
  /\ resident[r] < batch_size_per_dp
  /\ resident' = [resident EXCEPT ![r] = @ + 1]
  /\ UNCHANGED <<system, capacity, configured, total_batch_size, batch_size_per_dp,
                 status, out_of_memory>>

Next == checkMemorySize \/ \E r \in DOMAIN resident : Admit(r)

Spec == Init /\ [][Next]_vars
-----------------------------------------------------------------------------
(* No int overflows in the activations of the configured batch.            *)
ActivationExact(M, total) ==
  Activation(M, total \div dp_degree(M), total, FALSE)
    = Activation(M, total \div dp_degree(M), total, TRUE)

(* With mem_cap_limit the batch is reduced until everything can be stored: *)
(* whenever the simulation runs, the weights, the activations and the      *)
(* caches of the requests admitted to any device fit in its memory.  With  *)
(* use_absorb alone they need not: the cache is the latent one, and the    *)
(* reduction takes the size of the full one.                               *)
ResidentFits ==
  status = "run" /\ (system.mem_cap_limit \/ system.exit_out_of_memory)
  /\ (system.use_absorb => system.compressed_kv) =>
    \A r \in DOMAIN resident :
      resident[r] > 0 =>
        system.weight + resident[r] * CacheTensors(system)
        + Activation(system, batch_size_per_dp, total_batch_size, TRUE) <= capacity

(* The reduction gives up no more than one request of a rank: with two     *)
(* more requests than it keeps, a rank would not fit beside the            *)
(* activations of the configured batch.                                    *)
NotOverCautious ==
  status = "run" /\ total_batch_size # configured
  /\ (system.use_absorb => system.compressed_kv) =>
    (batch_size_per_dp + 2) * CacheTensors(system) + system.weight
    + Activation(system, configured \div dp_degree(system), configured, TRUE) > capacity
=============================================================================
