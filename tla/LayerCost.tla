----------------------------- MODULE LayerCost -----------------------------
(***************************************************************************)
(* What one layer costs on one processor: the execution functions of       *)
(* src/src/hardware/*_impl.cpp as data.  Each of them is a sequence of     *)
(* steps; a step does some floating point operations, moves some bytes,    *)
(* and issues accesses to tensors.  LayerExecution runs these programs.    *)
(*                                                                         *)
(* A layer request L is a record of what the functions read from           *)
(* LayerInfo, the tensors and the batch: H (num_heads), KV (num_kv_heads), *)
(* hd (head_dim), rope (qk_rope_head_dim), lora (kv_lora_rank), group      *)
(* (attention_group_size), pb (precision_byte), flash (use_flash_attention *)
(* or use_flash_mla), dup (duplicated_input), m, k, n (the dimensions of   *)
(* a linear layer), sum and gen (the prompts and the decodes of the        *)
(* batch).  A sequence is [npt |-> num_process_token, cur |-> current_len].*)
(* Times are whole multiples of the time of one operation or one byte.     *)
(***************************************************************************)
EXTENDS NearbankPIM, SequencesExt

CONSTANTS
    FlopTime,      \* by processor: time of an operation at the doubled rate
    ByteTime,      \* by processor: time of a byte at its memory bandwidth
    SharedMem,     \* shared_mem_size of the flash attention functions
    WordSpan       \* number of values of an int

Processors == {"GPU", "LOGIC", "PIM"}

ASSUME LayerCostAssumption ==
    /\ FlopTime \in [Processors -> Nat \ {0}]
    /\ ByteTime \in [Processors -> Nat \ {0}]
    /\ SharedMem \in Nat \ {0}
    /\ WordSpan \in Nat \ {0}

-----------------------------------------------------------------------------
(* Rates: compute_peak_flops and memory_bandwidth of the executing unit. *)
Rate(p, doubled) ==
    [flop |-> IF doubled THEN FlopTime[p] ELSE 2 * FlopTime[p], byte |-> ByteTime[p]]

GPURate == Rate("GPU", FALSE)
LogicRate(L) == Rate("LOGIC", L.pb = 1)
PIMRate(L) == Rate("PIM", L.pb = 1)
DoubledGPURate(L) == Rate("GPU", L.pb = 1)

(* Mutant: an expression of some narrower type. *)
WrapNarrow(x) == ((x + WordSpan \div 1024) % (WordSpan \div 512)) - WordSpan \div 1024

(* An expression of C++ ints. *)
WrapInt(x) == ((x + WordSpan \div 2) % WordSpan) - WordSpan \div 2

(* Division of C++ ints: towards zero. *)
QuotientInt(x, y) == IF x >= 0 THEN x \div y ELSE -((-x) \div y)

(* An access to a tensor that is given a shape first.  The cache looks it  *)
(* up under processor "key" ("own": the executing one); w is the weight of *)
(* its simulated duration in the memory time of its step.                  *)
Access(req, t, r, c) ==
    [req |-> req, tensor |-> t, rows |-> r, cols |-> c, key |-> "own", w |-> 1]
Rd(r, c) == Access("kRead", "input", r, c)
Wr(r, c) == Access("kWrite", "input", r, c)
Mv(r, c) == Access("kGEMV", "input", r, c)
On(t, a) == [a EXCEPT !.tensor = t]
Weighted(a, x) == [a EXCEPT !.w = x]
KeyedGPU(a) == [a EXCEPT !.key = "GPU"]
Keep == -1                      \* the column count is left as it was found

(* The ideal memory model knows reads and writes only. *)
IdealAccesses(acc) ==
    [i \in DOMAIN acc |-> [acc[i] EXCEPT !.req = IF @ = "kGEMV" THEN "kRead" ELSE @]]

(* A step lasts as long as the slower of its compute and its memory time   *)
(* (bound "max"), or its compute time alone ("compute"), or its memory     *)
(* time scaled by the operations per byte so far ("opb").  measured: the   *)
(* simulated durations replace the formula.                                *)
Step(r, flops, bytes, acc) ==
    [flops |-> flops, bytes |-> bytes, compute |-> flops * r.flop, memory |-> bytes * r.byte,
     acc |-> acc, ideal |-> IdealAccesses(acc), measured |-> acc # <<>>, bound |-> "max"]
ComputeOnly(st) == [st EXCEPT !.bound = "compute"]

Length(s) == s.cur + s.npt
PerSeq(Stage(_), seqs) == [i \in DOMAIN seqs |-> Stage(seqs[i])]
SumOf(f(_), seqs) == FoldLeft(LAMBDA acc, s : acc + f(s), 0, seqs)
Tokens(seqs) == SumOf(LAMBDA s : s.npt, seqs)
Pad4(n) == ((n + 3) \div 4) * 4

(* A function: its steps, whether it gives the input its shape back, and   *)
(* whether it ends by asserting that its totals are positive.              *)
Program(steps, restores, asserts) ==
    [steps |-> steps, restores |-> restores, asserts |-> asserts]

(* Mutant: the result is written but not counted. *)
MatmulNoResult(r, L, m, k, n, kv) ==
    Step(r, 2 * m * k * n * L.H, (m * k * L.H + k * n * kv) * L.pb,
         <<Rd(m, k * L.H), Rd(k, n * kv), Wr(m, n * L.H)>>)

(* (m x k) @ (k x n) for H heads that share kv key heads, in doubles. *)
Matmul(r, L, m, k, n, kv) ==
    Step(r, 2 * m * k * n * L.H, (m * k * L.H + k * n * kv + m * n * L.H) * L.pb,
         <<Rd(m, k * L.H), Rd(k, n * kv), Wr(m, n * L.H)>>)

(* Softmax, scale and mask over the score matrix of a sequence. *)
Softmax(r, L, s, factor, acc) ==
    Step(r, 7 * s.npt * Length(s) * L.H, factor * s.npt * Length(s) * L.H * L.pb, acc)

ScorePass(L, s) == <<Rd(s.npt, Length(s) * L.H), Wr(s.npt, Length(s) * L.H)>>

-----------------------------------------------------------------------------
(* AttentionSum: prompts. *)

IntMatmul(r, L, m, k, n) ==
    [Matmul(r, L, m, k, n, L.KV) EXCEPT
        !.bytes  = WrapInt(m * k * L.H + k * n * L.KV + m * n * L.H) * L.pb,
        !.memory = WrapInt(m * k * L.H + k * n * L.KV + m * n * L.H) * L.pb * r.byte]

SumScoringGPU(L, s) ==
    LET st == IntMatmul(GPURate, L, s.npt, L.hd, Length(s))
    IN  [st EXCEPT !.acc[2] = Weighted(@, 0)]

SumSoftmaxGPU(L, s) ==
    [Softmax(GPURate, L, s, 0, ScorePass(L, s)) EXCEPT !.measured = FALSE]

SumContextGPU(L, s) ==
    LET st == IntMatmul(GPURate, L, s.npt, Length(s), L.hd)
    IN  [st EXCEPT !.acc[1] = Weighted(@, 0), !.acc[2] = Weighted(@, 0)]

AttentionSumExecutionGPU(L) ==
    Program(PerSeq(LAMBDA s : SumScoringGPU(L, s), L.sum)
            \o PerSeq(LAMBDA s : SumSoftmaxGPU(L, s), L.sum)
            \o PerSeq(LAMBDA s : SumContextGPU(L, s), L.sum), FALSE, TRUE)

SumScoringLogic(L, s) ==
    LET m == s.npt  k == L.hd  n == Length(s)
    IN  Step(LogicRate(L), 2 * WrapInt(m * k * n) * L.H,
             WrapInt((m * k * L.H + k * n * L.KV) * L.pb),
             <<Rd(m, k * L.H), Mv(k, n * L.KV)>>)

SumSoftmaxLogic(L, s) == ComputeOnly(Softmax(LogicRate(L), L, s, 0, <<>>))

SumContextLogic(L, s) ==
    LET m == s.npt  k == Length(s)  n == L.hd
    IN  Step(LogicRate(L), 2 * WrapInt(m * k * n) * L.H, WrapInt(k * n * L.KV * L.pb),
             <<Mv(k, n * L.KV)>>)

AttentionSumExecutionLogic(L) ==
    Program(PerSeq(LAMBDA s : SumScoringLogic(L, s), L.sum)
            \o PerSeq(LAMBDA s : SumSoftmaxLogic(L, s), L.sum)
            \o PerSeq(LAMBDA s : SumContextLogic(L, s), L.sum), FALSE, FALSE)

SumScoringPIM(L, s) ==
    LET m == s.npt  k == L.hd  n == Length(s)
    IN  Step(PIMRate(L), 2 * WrapInt(m * k * n) * L.H,
             WrapInt((m * k * L.H + k * n * L.KV) * L.pb), <<Mv(m, Keep)>>)

SumSoftmaxPIM(L, s) == ComputeOnly(Softmax(PIMRate(L), L, s, 0, <<>>))

SumContextPIM(L, s) ==
    LET m == s.npt  k == Length(s)  n == L.hd
    IN  Step(PIMRate(L), 2 * WrapInt(m * k * n) * L.H, WrapInt(k * n * L.KV * L.pb),
             <<Mv(k, Keep)>>)

AttentionSumExecutionPIM(L) ==
    Program(PerSeq(LAMBDA s : SumScoringPIM(L, s), L.sum)
            \o PerSeq(LAMBDA s : SumSoftmaxPIM(L, s), L.sum)
            \o PerSeq(LAMBDA s : SumContextPIM(L, s), L.sum), FALSE, FALSE)

-----------------------------------------------------------------------------
(* MultiLatentAttentionSum: prompts of a latent attention with restored    *)
(* keys and values.  Flash attention visits the score matrix in tiles of   *)
(* br x bc entries.                                                        *)

(* Mutant: a last tile that is not full is left out. *)
TilesDown(m, b) == m \div b

FlashBlock(L) == SharedMem \div (4 * (L.hd + L.rope) * L.pb)
Tiles(m, b) == (m + b - 1) \div b


FlashAttention(r, L, s, br, bc) ==
    LET kd == L.hd + L.rope
        tr == Tiles(s.npt, br)
        tc == Tiles(s.npt, bc)
        q  == br * kd * tr
        kv == bc * kd + bc * L.hd
        o  == br * L.hd * tr
        st == 2 * br * tr
    IN  Step(r, tr * tc * (2 * br * kd * bc + 2 * br * L.hd * bc) * L.H,
             (q * tc + kv * tc + 2 * o * tc + 2 * st * tc) * L.H * L.pb,
             <<Rd(q, tc * L.H), Rd(kv, tc * L.H), Rd(o, tc * L.H), Wr(o, tc * L.H),
               Rd(st, tc * L.H), Wr(st, tc * L.H)>>)

MLASumFlashGPU(L, s) ==
    FlashAttention(GPURate, L, s, Min({FlashBlock(L), L.hd + L.rope}), FlashBlock(L))

MLASumScoring(r, L, s) ==
    LET st == Matmul(r, L, s.npt, L.hd + L.rope, Length(s), L.H)
    IN  [st EXCEPT !.ideal[2].cols = Length(s) * L.KV]

MLASumSoftmax(r, L, s) == Softmax(r, L, s, 2, ScorePass(L, s))

MLASumContext(r, L, s) ==
    LET st == Matmul(r, L, s.npt, Length(s), L.hd, L.H)
    IN  [st EXCEPT !.acc[2].cols = L.hd * L.KV, !.ideal[2].cols = L.hd * L.KV]

MultiLatentAttentionSumExecutionGPU(L) ==
    Program(IF L.flash
            THEN PerSeq(LAMBDA s : MLASumFlashGPU(L, s), L.sum)
            ELSE PerSeq(LAMBDA s : MLASumScoring(GPURate, L, s), L.sum)
                 \o PerSeq(LAMBDA s : MLASumSoftmax(GPURate, L, s), L.sum)
                 \o PerSeq(LAMBDA s : MLASumContext(GPURate, L, s), L.sum), TRUE, TRUE)

(* The variants for LOGIC and PIM time themselves with the rates of the    *)
(* GPU, and tile the other way round.                                      *)
MLASumFlashLogic(L, s) ==
    FlashAttention(DoubledGPURate(L), L, s, FlashBlock(L), L.hd + L.rope)
MLASumScoringLogic(L, s) == MLASumScoring(DoubledGPURate(L), L, s)
MLASumSoftmaxLogic(L, s) == MLASumSoftmax(DoubledGPURate(L), L, s)
MLASumContextLogic(L, s) == MLASumContext(DoubledGPURate(L), L, s)

MultiLatentAttentionSumExecutionLogic(L) ==
    Program(IF L.flash
            THEN PerSeq(LAMBDA s : MLASumFlashLogic(L, s), L.sum)
            ELSE PerSeq(LAMBDA s : MLASumScoringLogic(L, s), L.sum)
                 \o PerSeq(LAMBDA s : MLASumSoftmaxLogic(L, s), L.sum)
                 \o PerSeq(LAMBDA s : MLASumContextLogic(L, s), L.sum), TRUE, TRUE)

MLASumFlashPIM(L, s) ==
    FlashAttention(DoubledGPURate(L), L, s, FlashBlock(L), L.hd + L.rope)
MLASumScoringPIM(L, s) == MLASumScoring(DoubledGPURate(L), L, s)
MLASumSoftmaxPIM(L, s) == MLASumSoftmax(DoubledGPURate(L), L, s)
MLASumContextPIM(L, s) == MLASumContext(DoubledGPURate(L), L, s)

MultiLatentAttentionSumExecutionPIM(L) ==
    Program(IF L.flash
            THEN PerSeq(LAMBDA s : MLASumFlashPIM(L, s), L.sum)
            ELSE PerSeq(LAMBDA s : MLASumScoringPIM(L, s), L.sum)
                 \o PerSeq(LAMBDA s : MLASumSoftmaxPIM(L, s), L.sum)
                 \o PerSeq(LAMBDA s : MLASumContextPIM(L, s), L.sum), TRUE, TRUE)

-----------------------------------------------------------------------------
(* AbsorbMLASum: prompts of a latent attention that works on the           *)
(* compressed keys and values, which all heads share.                      *)

AbsorbSumNoPEGPU(L, s) == Matmul(GPURate, L, s.npt, L.lora, Length(s), 1)
AbsorbSumRoPEGPU(L, s) == Matmul(GPURate, L, s.npt, L.rope, Length(s), 1)
AbsorbSumSoftmaxGPU(L, s) == Softmax(GPURate, L, s, 2, ScorePass(L, s))
AbsorbSumContextGPU(L, s) == Matmul(GPURate, L, s.npt, Length(s), L.lora, 1)

AbsorbMLASumExecutionGPU(L) ==
    Program(PerSeq(LAMBDA s : AbsorbSumNoPEGPU(L, s), L.sum)
            \o PerSeq(LAMBDA s : AbsorbSumRoPEGPU(L, s), L.sum)
            \o PerSeq(LAMBDA s : AbsorbSumSoftmaxGPU(L, s), L.sum)
            \o PerSeq(LAMBDA s : AbsorbSumContextGPU(L, s), L.sum), TRUE, TRUE)

WithAccesses(st, acc) == [st EXCEPT !.acc = acc, !.ideal = IdealAccesses(acc)]

AbsorbSumNoPELogic(L, s) ==
    WithAccesses(Matmul(LogicRate(L), L, s.npt, L.lora, Length(s), 1),
                 <<Rd(s.npt, L.lora * L.H), Mv(L.lora, Length(s))>>)

AbsorbSumRoPELogic(L, s) ==
    LET st == Matmul(LogicRate(L), L, s.npt, L.rope, Length(s), 1)
    IN  [st EXCEPT !.acc[2] = Weighted(@, 0), !.acc[3] = Weighted(@, 2)]

AbsorbSumSoftmaxLogic(L, s) == ComputeOnly(Softmax(LogicRate(L), L, s, 2, <<>>))

AbsorbSumContextLogic(L, s) ==
    LET st == Matmul(LogicRate(L), L, s.npt, Length(s), L.lora, 1)
    IN  [st EXCEPT !.acc[1] = Weighted(@, 0), !.acc[2] = Weighted(@, 0)]

AbsorbMLASumExecutionLogic(L) ==
    Program(PerSeq(LAMBDA s : AbsorbSumNoPELogic(L, s), L.sum)
            \o PerSeq(LAMBDA s : AbsorbSumRoPELogic(L, s), L.sum)
            \o PerSeq(LAMBDA s : AbsorbSumSoftmaxLogic(L, s), L.sum)
            \o PerSeq(LAMBDA s : AbsorbSumContextLogic(L, s), L.sum), FALSE, FALSE)

AbsorbSumNoPEPIM(L, s) ==
    WithAccesses(Matmul(PIMRate(L), L, s.npt, L.lora, Length(s), 1), <<Mv(s.npt, 1)>>)

AbsorbSumRoPEPIM(L, s) ==
    WithAccesses(Matmul(PIMRate(L), L, s.npt, L.rope, Length(s), 1), <<Mv(s.npt, 1)>>)

AbsorbSumSoftmaxPIM(L, s) == ComputeOnly(Softmax(PIMRate(L), L, s, 0, <<>>))

AbsorbSumContextPIM(L, s) ==
    WithAccesses(Matmul(PIMRate(L), L, s.npt, Length(s), L.lora, 1), <<Mv(Length(s), 1)>>)

AbsorbMLASumExecutionPIM(L) ==
    Program(PerSeq(LAMBDA s : AbsorbSumNoPEPIM(L, s), L.sum)
            \o PerSeq(LAMBDA s : AbsorbSumRoPEPIM(L, s), L.sum)
            \o PerSeq(LAMBDA s : AbsorbSumSoftmaxPIM(L, s), L.sum)
            \o PerSeq(LAMBDA s : AbsorbSumContextPIM(L, s), L.sum), FALSE, FALSE)

-----------------------------------------------------------------------------
(* AttentionGen: decodes.  All sequences of the batch form one step per    *)
(* stage; their keys are read as one tensor.                               *)

TotalLength(L) == SumOf(Length, L.gen)
PaddedLength(L) == SumOf(LAMBDA s : Pad4(Length(s)), L.gen)

(* Mutant: every decode attends to the keys of the whole batch. *)
GenFlopsOfBatch(L) ==
    SumOf(LAMBDA s : L.KV * 2 * WrapInt(s.npt * L.hd * TotalLength(L)) * L.group, L.gen)

GenFlops(L) ==
    SumOf(LAMBDA s : L.KV * 2 * WrapInt(s.npt * L.hd * Length(s)) * L.group, L.gen)

CacheBytes(L) == SumOf(LAMBDA s : L.KV * WrapInt(L.hd * Length(s) * L.pb), L.gen)

(* The bytes of a stage on the GPU, for operands of a x b and b x c. *)
GenBytesGPU(L, a(_), b(_), c(_)) ==
    LET share(x) == QuotientInt(WrapInt(x * L.H), L.KV)
    IN  SumOf(LAMBDA s : L.KV * WrapInt(share(a(s) * b(s)) + b(s) * c(s) + share(a(s) * c(s)))
                         * L.pb, L.gen)

(* compute_eff_flops is half the peak; a quantized cache of len rows is    *)
(* dequantized first.                                                      *)
GenStageGPU(L, bytes, t, len) ==
    LET r  == [GPURate EXCEPT !.flop = 2 * @]
        st == Step(r, GenFlops(L), bytes, <<On(t, Rd(len, L.hd * L.KV))>>)
    IN  [st EXCEPT !.compute = @ + IF L.pb <= 1 THEN 2 * len * L.hd * r.flop ELSE 0]

GenScoringGPU(L) ==
    GenStageGPU(L, GenBytesGPU(L, LAMBDA s : s.npt, LAMBDA s : L.hd, Length),
                "k_cache", TotalLength(L))

GenContextGPU(L) ==
    GenStageGPU(L, GenBytesGPU(L, LAMBDA s : s.npt, Length, LAMBDA s : L.hd),
                "v_cache", PaddedLength(L))

AttentionGenExecutionGPU(L) ==
    Program(<<GenScoringGPU(L), GenContextGPU(L)>>, FALSE, FALSE)

GenStageLogic(L, t) ==
    Step(LogicRate(L), GenFlops(L), CacheBytes(L), <<On(t, Mv(PaddedLength(L), L.hd * L.KV))>>)

GenScoringLogic(L) == GenStageLogic(L, "k_cache")
GenContextLogic(L) == GenStageLogic(L, "v_cache")

AttentionGenExecutionLogic(L) ==
    Program(<<GenScoringLogic(L), GenContextLogic(L)>>, FALSE, FALSE)

(* The GEMVs of a decode: the query with the keys, the scores with the     *)
(* values.  Quantized values are always computed in FP16, quantized keys   *)
(* only if they are dequantized first.                                     *)
ScoringGEMV(L, s) ==
    computeGEMVLatency(s.npt, L.hd, Length(s), L.pb,
                       IF nb_config.dequant /\ L.pb <= 1 THEN 2 ELSE L.pb)
ContextGEMV(L, s) ==
    computeGEMVLatency(s.npt, Length(s), L.hd, L.pb, IF L.pb <= 1 THEN 2 ELSE L.pb)

(* Near-bank times of a stage: the GEMVs of all heads one after another.   *)
NearbankStage(L, gemv(_)) ==
    [compute |-> SumOf(LAMBDA s : L.KV * GroupedLatency(gemv(s), L.group), L.gen),
     memory  |-> SumOf(LAMBDA s : L.KV * gemv(s).rowbuffer, L.gen)]

(* A stage is done by the near-bank units, or by the GPU if the near-bank  *)
(* model is on and leaves the stage out, or by the original PIM model,     *)
(* which is the only one to take the simulated duration.                   *)
GenStagePIM(L, t, here, nb) ==
    LET r  == IF nb_config.model THEN DoubledGPURate(L) ELSE PIMRate(L)
        st == Step(r, GenFlops(L), CacheBytes(L), <<On(t, Mv(PaddedLength(L), L.hd * L.KV))>>)
    IN  IF nb_config.model
        THEN [st EXCEPT !.measured = FALSE,
                        !.compute  = IF here THEN nb.compute ELSE @,
                        !.memory   = IF here THEN nb.memory ELSE @]
        ELSE [st EXCEPT !.bound = "opb"]

GenScoringPIM(L) ==
    GenStagePIM(L, "k_cache", nb_config.scoring,
                NearbankStage(L, LAMBDA s : ScoringGEMV(L, s)))

(* Softmax is timed by the original PIM model or on the GPU; its           *)
(* operations are in no total.                                             *)
GenSoftmaxPIM(L) ==
    LET r == IF nb_config.model THEN DoubledGPURate(L) ELSE PIMRate(L)
        st == Step(r, SumOf(LAMBDA s : 7 * s.npt * Length(s) * L.H, L.gen), 0, <<>>)
    IN  IF nb_config.model /\ nb_config.softmax THEN <<>>
        ELSE <<[ComputeOnly(st) EXCEPT !.flops = 0]>>

GenContextPIM(L) ==
    GenStagePIM(L, "v_cache", nb_config.context,
                NearbankStage(L, LAMBDA s : ContextGEMV(L, s)))

AttentionGenExecutionPIM(L) ==
    Program(<<GenScoringPIM(L)>> \o GenSoftmaxPIM(L) \o <<GenContextPIM(L)>>, FALSE, FALSE)

-----------------------------------------------------------------------------
(* MultiLatentAttentionGen: decodes over restored keys and values.  The    *)
(* functions of the three processors differ in their rates only.           *)

MLAGenFlash(r, L) ==
    LET kd == L.hd + L.rope
    IN  Step(r, SumOf(LAMBDA s : 2 * s.npt * (kd + L.hd) * Length(s) * L.H, L.gen),
             SumOf(LAMBDA s : (WrapInt(s.npt * kd) + s.npt * L.hd + Length(s) * (kd + L.hd))
                              * L.H * L.pb, L.gen),
             <<Rd(Len(L.gen) * L.H, kd), Rd(TotalLength(L), kd * L.H),
               Rd(TotalLength(L), L.hd * L.H), Wr(Len(L.gen), L.H * L.hd)>>)

(* (m x k) @ (k x n) of every sequence, with kv operand heads. *)
GenMatmul(r, L, k(_), n(_), kv, acc) ==
    Step(r, SumOf(LAMBDA s : 2 * s.npt * k(s) * n(s) * L.H, L.gen),
         SumOf(LAMBDA s : (s.npt * k(s) * L.H + k(s) * n(s) * kv + s.npt * n(s) * L.H) * L.pb,
               L.gen), acc)

(* The same head by head, in ints. *)
GenMatmulOfHeads(r, L, k(_), n(_), acc) ==
    Step(r, SumOf(LAMBDA s : L.H * 2 * WrapInt(s.npt * k(s) * n(s)), L.gen),
         SumOf(LAMBDA s : L.H * WrapInt((s.npt * k(s) + k(s) * n(s) + s.npt * n(s)) * L.pb),
               L.gen), acc)

MLAGenScore(r, L) ==
    GenMatmulOfHeads(r, L, LAMBDA s : L.hd + L.rope, Length,
              <<Rd(Len(L.gen) * L.H, L.hd + L.rope),
                On("k_cache", Rd(TotalLength(L), (L.hd + L.rope) * L.H)),
                Wr(L.H, TotalLength(L))>>)

(* The pass over the scores is always timed, and reported by the absorbed  *)
(* functions (reported 2) but not by these (reported 0).                   *)
GenSoftmax(r, L, s, reported) ==
    LET st == Softmax(r, L, s, 2, ScorePass(L, s))
    IN  [st EXCEPT !.bytes = reported * s.npt * Length(s) * L.H * L.pb]

MLAGenContext(r, L) ==
    GenMatmulOfHeads(r, L, Length, LAMBDA s : L.hd,
              <<Rd(L.H, TotalLength(L)), On("v_cache", Rd(TotalLength(L), L.hd * L.H)),
                Wr(Len(L.gen), L.H * L.hd)>>)

MLAGenFlashGPU(L) == MLAGenFlash(GPURate, L)
MLAGenScoreGPU(L) == MLAGenScore(GPURate, L)
MLAGenSoftmaxGPU(L) == PerSeq(LAMBDA s : GenSoftmax(GPURate, L, s, 0), L.gen)
MLAGenContextGPU(L) == MLAGenContext(GPURate, L)
MultiLatentAttentionGenExecutionGPU(L) ==
    Program(IF L.flash THEN <<MLAGenFlashGPU(L)>>
            ELSE <<MLAGenScoreGPU(L)>> \o MLAGenSoftmaxGPU(L) \o <<MLAGenContextGPU(L)>>,
            TRUE, FALSE)

MLAGenFlashLogic(L) == MLAGenFlash(LogicRate(L), L)
MLAGenScoreLogic(L) == MLAGenScore(LogicRate(L), L)
MLAGenSoftmaxLogic(L) == PerSeq(LAMBDA s : GenSoftmax(LogicRate(L), L, s, 0), L.gen)
MLAGenContextLogic(L) == MLAGenContext(LogicRate(L), L)
MultiLatentAttentionGenExecutionLogic(L) ==
    Program(IF L.flash THEN <<MLAGenFlashLogic(L)>>
            ELSE <<MLAGenScoreLogic(L)>> \o MLAGenSoftmaxLogic(L) \o <<MLAGenContextLogic(L)>>,
            TRUE, FALSE)

MLAGenFlashPIM(L) == MLAGenFlash(PIMRate(L), L)
MLAGenScorePIM(L) == MLAGenScore(PIMRate(L), L)
MLAGenSoftmaxPIM(L) == PerSeq(LAMBDA s : GenSoftmax(PIMRate(L), L, s, 0), L.gen)
MLAGenContextPIM(L) == MLAGenContext(PIMRate(L), L)
MultiLatentAttentionGenExecutionPIM(L) ==
    Program(IF L.flash THEN <<MLAGenFlashPIM(L)>>
            ELSE <<MLAGenScorePIM(L)>> \o MLAGenSoftmaxPIM(L) \o <<MLAGenContextPIM(L)>>,
            TRUE, FALSE)

-----------------------------------------------------------------------------
(* AbsorbMLAGen: decodes over the compressed keys and values. *)

AbsorbGenFlash(r, L) ==
    LET kd == L.lora + L.rope
    IN  Step(r, SumOf(LAMBDA s : 2 * L.H * (kd + L.lora) * Length(s), L.gen),
             SumOf(LAMBDA s : (WrapInt(L.H * kd) + Length(s) * kd + L.H * L.lora) * L.pb, L.gen),
             <<Rd(Len(L.gen) * L.H, kd), Rd(TotalLength(L), kd), Wr(Len(L.gen), L.H * L.lora)>>)

AbsorbGenScoring(r, L, k) ==
    GenMatmul(r, L, LAMBDA s : k, Length, 1,
              <<Rd(Len(L.gen), k * L.H), Rd(k, TotalLength(L)), Wr(L.H, TotalLength(L))>>)

AbsorbGenNoPE(r, L) == AbsorbGenScoring(r, L, L.lora)

(* Only the last access counts in the simulated memory time. *)
AbsorbGenRoPE(r, L) ==
    [AbsorbGenScoring(r, L, L.rope) EXCEPT !.acc[1] = Weighted(@, 0), !.acc[2] = Weighted(@, 0)]

AbsorbGenContext(r, L) ==
    GenMatmul(r, L, Length, LAMBDA s : L.lora, 1,
              <<Rd(L.H, TotalLength(L)), Rd(TotalLength(L), L.lora),
                Wr(Len(L.gen) * L.lora, L.H)>>)

AbsorbGenFlashGPU(L) == AbsorbGenFlash(GPURate, L)
AbsorbGenNoPEGPU(L) == AbsorbGenNoPE(GPURate, L)
AbsorbGenRoPEGPU(L) == AbsorbGenRoPE(GPURate, L)
AbsorbGenSoftmaxGPU(L) == PerSeq(LAMBDA s : GenSoftmax(GPURate, L, s, 2), L.gen)
AbsorbGenContextGPU(L) == AbsorbGenContext(GPURate, L)
AbsorbMLAGenExecutionGPU(L) ==
    Program(IF L.flash THEN <<AbsorbGenFlashGPU(L)>>
            ELSE <<AbsorbGenNoPEGPU(L), AbsorbGenRoPEGPU(L)>> \o AbsorbGenSoftmaxGPU(L)
                 \o <<AbsorbGenContextGPU(L)>>, TRUE, FALSE)

AbsorbGenFlashLogic(L) == AbsorbGenFlash(LogicRate(L), L)
AbsorbGenNoPELogic(L) == AbsorbGenNoPE(LogicRate(L), L)
AbsorbGenRoPELogic(L) == AbsorbGenRoPE(LogicRate(L), L)
AbsorbGenSoftmaxLogic(L) == PerSeq(LAMBDA s : GenSoftmax(LogicRate(L), L, s, 2), L.gen)
AbsorbGenContextLogic(L) == AbsorbGenContext(LogicRate(L), L)
AbsorbMLAGenExecutionLogic(L) ==
    Program(IF L.flash THEN <<AbsorbGenFlashLogic(L)>>
            ELSE <<AbsorbGenNoPELogic(L), AbsorbGenRoPELogic(L)>> \o AbsorbGenSoftmaxLogic(L)
                 \o <<AbsorbGenContextLogic(L)>>, TRUE, FALSE)

AbsorbGenFlashPIM(L) == AbsorbGenFlash(PIMRate(L), L)
AbsorbGenNoPEPIM(L) == AbsorbGenNoPE(PIMRate(L), L)
AbsorbGenRoPEPIM(L) == AbsorbGenRoPE(PIMRate(L), L)
AbsorbGenSoftmaxPIM(L) == PerSeq(LAMBDA s : GenSoftmax(PIMRate(L), L, s, 2), L.gen)
AbsorbGenContextPIM(L) == AbsorbGenContext(PIMRate(L), L)
AbsorbMLAGenExecutionPIM(L) ==
    Program(IF L.flash THEN <<AbsorbGenFlashPIM(L)>>
            ELSE <<AbsorbGenNoPEPIM(L), AbsorbGenRoPEPIM(L)>> \o AbsorbGenSoftmaxPIM(L)
                 \o <<AbsorbGenContextPIM(L)>>, TRUE, FALSE)

-----------------------------------------------------------------------------
(* Mixed attention: prompts and decodes of a batch together, without       *)
(* accesses.  The operations and bytes give a duration and are not         *)
(* reported.                                                               *)

Everyone(L) == L.sum \o L.gen

MixedStage(r, L, m, k, n) ==
    [Step(r, 2 * WrapInt(m * k * n) * L.H, WrapInt((m * k * L.H + k * n * L.KV) * L.pb), <<>>)
        EXCEPT !.flops = 0, !.bytes = 0]

MixedScoring(r, L, s, kd) == MixedStage(r, L, s.npt, kd, Length(s))
MixedContext(r, L, s) == MixedStage(r, L, s.npt, Length(s), L.hd)

AttentionMixedExecutionGPU(L) ==
    Program(PerSeq(LAMBDA s : MixedScoring(GPURate, L, s, L.hd), Everyone(L))
            \o PerSeq(LAMBDA s : MixedContext(GPURate, L, s), Everyone(L)), TRUE, FALSE)

AttentionMixedExecutionLogic(L) == Program(<<>>, TRUE, FALSE)

(* A stage that the near-bank units do is timed once per key head. *)
NearbankMixed(L, st, here, gemv) ==
    IF nb_config.model /\ here
    THEN [st EXCEPT !.compute = L.KV * GroupedLatency(gemv, L.group), !.bound = "compute"]
    ELSE st

MixedScoringPIM(L, s) ==
    NearbankMixed(L, MixedScoring(Rate("PIM", FALSE), L, s, L.hd), nb_config.scoring,
                  ScoringGEMV(L, s))

MixedContextPIM(L, s) ==
    NearbankMixed(L, MixedContext(Rate("PIM", FALSE), L, s), nb_config.context,
                  ContextGEMV(L, s))

AttentionMixedExecutionPIM(L) ==
    Program(PerSeq(LAMBDA s : MixedScoringPIM(L, s), Everyone(L))
            \o PerSeq(LAMBDA s : MixedContextPIM(L, s), Everyone(L)), TRUE, FALSE)

MLAMixed(r, L) ==
    PerSeq(LAMBDA s : MixedScoring(r, L, s, L.hd + L.rope), Everyone(L))
    \o PerSeq(LAMBDA s : MixedContext(r, L, s), Everyone(L))

MultiLatentAttentionMixedExecutionGPU(L) == Program(MLAMixed(GPURate, L), TRUE, FALSE)
MultiLatentAttentionMixedExecutionLogic(L) == Program(<<>>, TRUE, FALSE)
MultiLatentAttentionMixedExecutionPIM(L) ==
    Program(MLAMixed(Rate("PIM", FALSE), L), TRUE, FALSE)

-----------------------------------------------------------------------------
(* Linear layers: (m x k) @ (k x n).  The activations are looked up in the *)
(* cache under the GPU, whichever processor executes.                      *)

LinearAccesses(L, h, weight) ==
    <<KeyedGPU(Rd(L.m, h * L.k)), weight, KeyedGPU(On("output", Wr(L.m, h * L.n)))>>

LinearStep(r, L, weight) ==
    Step(r, 2 * L.m * L.k * L.n, (L.m * L.k + L.k * L.n + L.m * L.n) * L.pb,
         LinearAccesses(L, 1, weight))

LinearExecutionGPU(L) ==
    Program(<<LinearStep(GPURate, L, On("weight", Rd(L.k, L.n)))>>, TRUE, FALSE)
LinearExecutionLogic(L) ==
    Program(<<LinearStep(LogicRate(L), L, On("weight", Mv(L.k, L.n)))>>, TRUE, FALSE)
LinearExecutionPIM(L) ==
    Program(<<LinearStep(PIMRate(L), L, On("weight", Mv(L.k, L.n)))>>, TRUE, FALSE)

(* H linear layers at once.  A duplicated input is moved once in the       *)
(* formula and in the simulation; the ideal model reads its whole shape.   *)
BatchedLinearExecutionGPU(L) ==
    LET acc   == LinearAccesses(L, L.H, On("weight", Rd(L.k * L.H, L.n)))
        moved == IF L.dup THEN WrapInt(L.m * L.k) + (WrapInt(L.k * L.n) + WrapInt(L.m * L.n)) * L.H
                 ELSE WrapInt(L.m * L.k + L.k * L.n + L.m * L.n) * L.H
        st    == Step(GPURate, 2 * L.m * L.k * L.n * L.H, moved * L.pb, acc)
    IN  Program(<<[st EXCEPT !.acc[1].cols = IF L.dup THEN L.k ELSE @]>>, TRUE, FALSE)

(* On the other processors only the first two dimensions are counted,      *)
(* which are the heads and the rows.                                       *)
BatchedLinear(r, L, weight) ==
    Program(<<Step(r, 2 * L.H * L.m * L.k, (L.H * L.m + L.m * L.k + L.H * L.k) * L.pb,
                   LinearAccesses(L, L.H, weight))>>, TRUE, FALSE)

BatchedLinearExecutionLogic(L) ==
    BatchedLinear(LogicRate(L), L, On("weight", Mv(L.k * L.H, L.n)))
BatchedLinearExecutionPIM(L) ==
    BatchedLinear(PIMRate(L), L, On("weight", Mv(L.k * L.H, L.n)))

(* Activation: an element-wise pass; the input is L.k columns wide, the    *)
(* two outputs L.n.                                                        *)
ActivationBytes(L) == (2 * L.m * L.n + L.m * L.k) * L.pb
ActivationStep(r, L, flops, Fetch(_, _), Store(_, _)) ==
    Program(<<Step(r, flops, ActivationBytes(L),
                   <<On("gate_output", Fetch(L.m, L.n)), Fetch(L.m, L.k),
                     On("output", Store(L.m, L.n))>>)>>, TRUE, FALSE)

ActivationExecutionGPU(L) == ActivationStep(GPURate, L, 0, Rd, Wr)
ActivationExecutionLogic(L) ==
    LET p == ActivationStep(LogicRate(L), L, ActivationBytes(L), Mv, Mv)
    IN  [p EXCEPT !.steps[1].ideal[3].req = "kWrite"]
ActivationExecutionPIM(L) == ActivationStep(PIMRate(L), L, ActivationBytes(L), Rd, Wr)
=============================================================================
