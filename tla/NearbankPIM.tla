---------------------------- MODULE NearbankPIM ----------------------------
(***************************************************************************)
(* The latency model of the near-bank PIM unit                             *)
(* (src/src/dram/nearbank/nearbank_pim.cpp): how long one matrix product   *)
(* (M x K) @ (K x N) takes on processing elements placed behind the row    *)
(* buffers of all banks.  Every quantity in the code is a number of        *)
(* elements times a constant of the hardware, so the model keeps the       *)
(* element counts and gives each constant as a whole number of time units  *)
(* per element, already divided by the number of banks.                    *)
(***************************************************************************)
EXTENDS Integers, FiniteSetsExt

CONSTANTS
    RbTime,        \* by format: time to bring one element into its row buffer
    RbElements,    \* by format: elements that fill all row buffers once
    PeTime,        \* by format: PE time per element computed in FP16
    LowPeTime      \* PE time per element computed in low bits

VARIABLE nb_config \* the switches of NearbankPIMConfig, read once

(* The stored format of the KV cache: two bytes an element, or kv_cache_bits. *)
Formats == {"fp16", "low"}
Format(pb) == IF pb <= 1 THEN "low" ELSE "fp16"

NearbankSwitches ==
    [model : BOOLEAN, scoring : BOOLEAN, softmax : BOOLEAN, context : BOOLEAN,
     dequant : BOOLEAN, asymmetric : BOOLEAN]

ASSUME NearbankAssumption ==
    /\ RbTime \in [Formats -> Nat \ {0}]
    /\ RbElements \in [Formats -> Nat \ {0}]
    /\ \A f, g \in Formats : RbTime[f] * RbElements[f] = RbTime[g] * RbElements[g]
    /\ PeTime \in [Formats -> Nat \ {0}]
    /\ LowPeTime \in Nat \ {0}

GEMVElements(M, K, N) == M * K + K * N + M * N

(* pe_elements_per_cycle and pe_cycle_for_compute *)
PeRate(pb, comp) == IF comp <= 1 THEN LowPeTime ELSE PeTime[Format(pb)]

(* Mutant: the remainder in place of the quotient. *)
RowBufferFillsRest(e, f) == Max({1, e % RbElements[f]})

(* Steps 2 and 3: how often the row buffers are filled. *)
RowBufferFills(e, f) == Max({1, (e + RbElements[f] - 1) \div RbElements[f]})

(* Step 5: fill a row buffer, then compute while the next one is filled;   *)
(* what fits into one row buffer streams through it.                       *)
PipelinedLatency(e, f, pe) ==
    LET fill == RbElements[f] * RbTime[f]
    IN  IF e <= RbElements[f]
        THEN Max({e * RbTime[f], pe})
        ELSE fill + Max({(RowBufferFills(e, f) - 1) * fill, pe})

(* Step 6: sums over the K dimension of both operands. *)
ReductionTime(M, K, N, rate) ==
    IF nb_config.asymmetric THEN (M * K + N * K) * rate ELSE 0

(* Step 6b *)
DequantTime(K, N, pb, comp) ==
    IF pb <= 1 /\ comp >= 2 THEN 2 * K * N * LowPeTime ELSE 0

computeGEMVLatency(M, K, N, pb, comp) ==
    LET e    == GEMVElements(M, K, N)
        f    == Format(pb)
        rate == PeRate(pb, comp)
        base == e * rate
        red  == ReductionTime(M, K, N, rate)
        deq  == DequantTime(K, N, pb, comp)
    IN  [rowbuffer |-> e * RbTime[f],
         base      |-> PipelinedLatency(e, f, base),
         reduction |-> red,
         pe        |-> base + deq,
         latency   |-> PipelinedLatency(e, f, base + red + deq)]

(* The rows of a key or value head are loaded once and used by all the     *)
(* query heads of its group (attention_gen_impl.cpp, step after the call). *)
GroupedLatency(r, group) ==
    Max({r.rowbuffer,
         (r.pe + (IF nb_config.asymmetric THEN r.reduction ELSE 0)) * group})
=============================================================================
