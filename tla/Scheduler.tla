------------------------------ MODULE Scheduler ------------------------------
(***************************************************************************)
(* The request scheduler of the simulator: class Scheduler together with   *)
(* the sequences and batches it owns (src/src/scheduler/scheduler.cpp and  *)
(* sequence.cpp).  A request is a Sequence.  It waits in sequence_queue,   *)
(* is placed into the batch of one data-parallel rank (running_queue), is  *)
(* given tokens to process by setMetadata, advances when updateScheduler   *)
(* is told that an iteration has run, and leaves its batch when the last   *)
(* token is out.                                                           *)
(*                                                                         *)
(* The module holds the state of the scheduler and one operator per        *)
(* method.  The iteration loops of class Cluster that call them are        *)
(* ColocatedServing and DisaggServing.                                     *)
(***************************************************************************)
EXTENDS Integers, Sequences, FiniteSets

CONSTANTS
  Requests,           (* identities of Sequence objects; a popped one is     *)
                      (* free again.  Its size is the bound on live requests *)
  total_batch_size,   (* most requests in all batches together               *)
  dp_degree,          (* number of data-parallel ranks                       *)
  max_process_token,  (* prefill tokens per rank and iteration               *)
  RequestLengths,     (* the <<input_len, output_len>> pairs that may arrive *)
  max_seq_len,        (* longest sequence of the language model              *)
  real_data,          (* lengths come from a trace, not from the config      *)
  mode,               (* "mixed", "prefill" or "decode" serving              *)
  reuse_kv_percent    (* kv_cache_reuse_rate in percent, 0 when disabled     *)

Ranks == 0 .. dp_degree - 1

(* batch_size_per_dp of the constructor: C++ integer division.             *)
batch_size_per_dp == total_batch_size \div dp_degree

ASSUME ConfigAssumption ==
  /\ IsFiniteSet(Requests)
  /\ total_batch_size \in Nat
  /\ dp_degree \in Nat \ {0}
  /\ max_process_token \in Nat
  /\ max_seq_len \in Nat
  /\ RequestLengths \subseteq (Nat \ {0}) \X (Nat \ {0})
  /\ RequestLengths # {}
  /\ real_data \in BOOLEAN
  /\ mode \in {"mixed", "prefill", "decode"}
  /\ reuse_kv_percent \in 0 .. 100
  (* pushSeq asserts that a configured prompt fits the language model.     *)
  /\ ~real_data => \A l \in RequestLengths : l[1] < max_seq_len
  (* The simulator refuses decode mode with output_len <= 1.               *)
  /\ mode = "decode" => \A l \in RequestLengths : l[2] > 1

VARIABLES
  sequence_queue,     (* requests not yet in a batch, oldest first           *)
  running_queue,      (* the requests in the batch of each rank              *)
  rotate,             (* next rank to try, static in fillRunningQueue        *)
  input_len,          (* prompt length of each request                       *)
  total_len,          (* length at which a request is complete               *)
  current_len,        (* tokens of a request processed so far                *)
  num_process_token,  (* tokens of a request in the coming iteration         *)
  record              (* the first-token latency of the request is reported  *)

schedulerVars == <<sequence_queue, running_queue, rotate, input_len, total_len,
                   current_len, num_process_token, record>>

lengthVars == <<input_len, total_len>>
-----------------------------------------------------------------------------
(* The parts of the state the methods look at.                             *)

Queued  == {sequence_queue[i] : i \in 1 .. Len(sequence_queue)}
Running == UNION {running_queue[r] : r \in Ranks}
Free    == Requests \ (Queued \cup Running)

(* BatchedSequence::get_sum and get_gen: a sequence is in its prefill      *)
(* ("sum") stage while its prompt is not consumed, in decode ("gen") after *)
InPrefill(s) == current_len[s] < input_len[s]
SumSeqs(r)   == {s \in running_queue[r] : InPrefill(s)}
GenSeqs(r)   == {s \in running_queue[r] : ~InPrefill(s)}

hasSumSeq == \E r \in Ranks : SumSeqs(r) # {}

(* getNumProcessToken() == 0                                               *)
NothingToProcess == \A s \in Running : num_process_token[s] = 0

(* getBatchSize                                                            *)
BatchSize == Cardinality(Running)

MinOf(a, b) == IF a <= b THEN a ELSE b
-----------------------------------------------------------------------------
(* setMetadata.  The gen sequences in `eligible` get one token when decode *)
(* is processed; the sum sequences of a rank share max_process_token, each *)
(* taking the whole part of an equal share but no more than is left of its *)
(* prompt.  A sequence that is given nothing keeps the number it had.      *)
(*                                                                         *)
(* Mutants: the budget is not shared; it is shared by the whole batch; it  *)
(* is shared by one too many; the rest of the prompt does not limit it;    *)
(* the rest is computed the wrong way round.                               *)
PrefillShareWhole(r) == max_process_token

PrefillShareOfBatch(r) == max_process_token \div total_batch_size

PrefillShareOneLess(r) == max_process_token \div (Cardinality(SumSeqs(r)) + 1)

PrefillShare(r) == max_process_token \div Cardinality(SumSeqs(r))

PrefillTokensUnlimited(r, s) == PrefillShare(r)

PrefillTokensReversed(r, s) == MinOf(PrefillShare(r),
                                     current_len[s] - input_len[s])

PrefillTokens(r, s) == MinOf(PrefillShare(r), input_len[s] - current_len[s])

RankOf(s) == CHOOSE r \in Ranks : s \in running_queue[r]

SetTokens(process_sum, process_gen, eligible) ==
  num_process_token' =
    [s \in Requests |->
      IF s \notin Running THEN num_process_token[s]
      ELSE IF InPrefill(s)
           THEN IF process_sum THEN PrefillTokens(RankOf(s), s)
                               ELSE num_process_token[s]
           ELSE IF process_gen /\ s \in eligible THEN 1
                                                 ELSE num_process_token[s]]
-----------------------------------------------------------------------------
(* Sequence::update for the sequences in S, and what both forms of         *)
(* updateScheduler do next: a sequence that is now exactly total_len long  *)
(* is popped from its batch, one that is exactly input_len long is put on  *)
(* the list of first tokens, once.  With the pop nothing but the report    *)
(* still refers to the object: its identity is free, its fields blank.     *)
LenAfter(s) == current_len[s] + num_process_token[s]

Completed(S)  == {s \in S : LenAfter(s) = total_len[s]}

(* Mutants: the first token is reported one token early; the tokens given  *)
(* to a sequence are not taken back.                                       *)
FirstTokenEarly(S) == {s \in S \ Completed(S) :
                         LenAfter(s) >= input_len[s] - 1 /\ ~record[s]}

FirstToken(S) == {s \in S \ Completed(S) :
                    LenAfter(s) = input_len[s] /\ ~record[s]}

TokensKept(S) == num_process_token

TokensAfter(S) == [s \in Requests |-> IF s \in S THEN 0
                                      ELSE num_process_token[s]]

BlankIn(S, f) == [s \in Requests |-> IF s \in Completed(S) THEN 0 ELSE f[s]]

UpdateSequences(S) ==
  /\ current_len' = [s \in Requests |-> IF s \in Completed(S) THEN 0
                                        ELSE IF s \in S THEN LenAfter(s)
                                        ELSE current_len[s]]
  /\ num_process_token' = TokensAfter(S)
  /\ running_queue' = [r \in Ranks |-> running_queue[r] \ Completed(S)]
  /\ record' = [s \in Requests |-> /\ s \notin Completed(S)
                                   /\ record[s] \/ s \in FirstToken(S)]
  /\ input_len' = BlankIn(S, input_len)
  /\ total_len' = BlankIn(S, total_len)
  /\ UNCHANGED <<sequence_queue, rotate>>
-----------------------------------------------------------------------------
(* pushSeq / pushDummySeq / pushRealSeq for one request: the lengths the   *)
(* new Sequence gets.  A trace is taken as it is; a configured length has  *)
(* its output cut to the model's maximum and is then bent by the mode.     *)
CutOutput(l) == IF l[1] + l[2] > max_seq_len THEN max_seq_len - l[1] ELSE l[2]

NewInput(l) == l[1]

NewTotal(l) == IF real_data THEN l[1] + l[2] - 1
               ELSE IF mode = "prefill" THEN l[1]
               ELSE l[1] + CutOutput(l) - 1

NewCurrent(l) == IF real_data THEN 0
                 ELSE IF mode = "decode" THEN l[1]
                 ELSE (l[1] * reuse_kv_percent) \div 100

PushSequence ==
  \E l \in RequestLengths :
    LET s == CHOOSE q \in Free : TRUE
    IN  /\ Free # {}
        /\ sequence_queue' = Append(sequence_queue, s)
        /\ input_len' = [input_len EXCEPT ![s] = NewInput(l)]
        /\ total_len' = [total_len EXCEPT ![s] = NewTotal(l)]
        /\ current_len' = [current_len EXCEPT ![s] = NewCurrent(l)]
        /\ num_process_token' = [num_process_token EXCEPT ![s] = 0]
        /\ record' = [record EXCEPT ![s] = FALSE]
        /\ UNCHANGED <<running_queue, rotate>>
-----------------------------------------------------------------------------
(* fillRunningQueue makes num_empty_seq attempts.  One attempt offers the  *)
(* oldest queued request to the ranks in turn, from `rotate` on, and puts  *)
(* it into the first batch with room; with no room it stays at the front.  *)
(*                                                                         *)
(* Mutants: the request is not erased from the queue; the newest request   *)
(* is offered.                                                             *)
num_empty_seq == MinOf(total_batch_size - BatchSize, Len(sequence_queue))

HasRoom(r) == Cardinality(running_queue[r]) < batch_size_per_dp

RankAfter(k) == (rotate + k) % dp_degree

Offer(s, rest) ==
  \/ \E k \in 0 .. dp_degree - 1 :
       /\ HasRoom(RankAfter(k))
       /\ \A j \in 0 .. k - 1 : ~HasRoom(RankAfter(j))
       /\ running_queue' = [running_queue EXCEPT ![RankAfter(k)] = @ \cup {s}]
       /\ sequence_queue' = rest
       /\ rotate' = RankAfter(k + 1)
       /\ UNCHANGED <<lengthVars, current_len, num_process_token, record>>
  \/ /\ \A r \in Ranks : ~HasRoom(r)
     /\ UNCHANGED schedulerVars

PlaceHeadUnerased == Offer(Head(sequence_queue), sequence_queue)

PlaceNewest == LET n == Len(sequence_queue)
               IN  Offer(sequence_queue[n], SubSeq(sequence_queue, 1, n - 1))

PlaceHead == Offer(Head(sequence_queue), Tail(sequence_queue))
-----------------------------------------------------------------------------
(* The constructor and initRunningQueue: no requests, one empty batch per  *)
(* rank.  The fields of a free identity mean nothing until it is pushed.   *)
SchedulerInit ==
  /\ sequence_queue = << >>
  /\ running_queue = [r \in Ranks |-> {}]
  /\ rotate = 0
  /\ input_len = [s \in Requests |-> 0]
  /\ total_len = [s \in Requests |-> 0]
  /\ current_len = [s \in Requests |-> 0]
  /\ num_process_token = [s \in Requests |-> 0]
  /\ record = [s \in Requests |-> FALSE]

SchedulerTypeOK ==
  /\ sequence_queue \in Seq(Requests)
  /\ running_queue \in [Ranks -> SUBSET Requests]
  /\ rotate \in Ranks
  /\ input_len \in [Requests -> Nat]
  /\ total_len \in [Requests -> Nat]
  /\ current_len \in [Requests -> Nat]
  /\ num_process_token \in [Requests -> Nat]
  /\ record \in [Requests -> BOOLEAN]
-----------------------------------------------------------------------------
(* Properties of the scheduler under either loop.                          *)

(* Every new request has work left.  It fails when the mode or the reused  *)
(* prefix makes a request arrive as long as it will ever get, or longer.   *)
ArrivesUnfinished == \A l \in RequestLengths : NewCurrent(l) < NewTotal(l)

(* Every new request has prompt left to process.                           *)
ArrivesInPrefill == \A l \in RequestLengths : NewCurrent(l) < NewInput(l)

(* Moving a sequence from the queue to a batch and popping it from the     *)
(* batch are erasures and insertions of one shared pointer in two          *)
(* containers: at no time is it in two of them, or in one of them twice.   *)
OneHome ==
  /\ \A i, j \in 1 .. Len(sequence_queue) :
       i # j => sequence_queue[i] # sequence_queue[j]
  /\ \A r \in Ranks : running_queue[r] \cap Queued = {}
  /\ \A r1, r2 \in Ranks :
       r1 # r2 => running_queue[r1] \cap running_queue[r2] = {}

(* updateScheduler pops a sequence when its length EQUALS total_len and    *)
(* reports its first token when it EQUALS input_len: one that steps over   *)
(* either length decodes for ever, or is never reported.  The tokens given *)
(* to a sequence never let it, nor do those it keeps when an iteration     *)
(* does not update it.                                                     *)
NoOvershoot ==
  \A s \in Running :
    /\ current_len[s] < total_len[s]
    /\ LenAfter(s) <= total_len[s]
    /\ InPrefill(s) => LenAfter(s) <= input_len[s]

(* The assertion of decode mode, "Output length must be larger than 1"     *)
(* (eval/test.cpp), for the requests that exist: their output is what      *)
(* total_len leaves after the prompt, and the token the prompt ends with.  *)
DecodeOutputAboveOne ==
  mode = "decode" =>
    \A s \in Queued \cup Running : total_len[s] - input_len[s] + 1 > 1

(* The first-token latency of a request is on record from the iteration    *)
(* that ends its prompt on, and not before, whichever of the two methods   *)
(* that update sequences ends it.                                          *)
FirstTokenReported ==
  ArrivesInPrefill => \A s \in Running : record[s] <=> ~InPrefill(s)

=============================================================================
