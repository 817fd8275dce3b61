--------------------------- MODULE ColocatedServing ---------------------------
(***************************************************************************)
(* The serving loop of a colocated system: Cluster::runIteration with      *)
(* runIterationMixed (src/src/hardware/cluster.cpp), driving Scheduler.    *)
(* Prompts and decodes run on the same devices, so setMetadata processes   *)
(* prompts whenever any rank has one, and decodes only when none has.      *)
(*                                                                         *)
(* One turn of the loop is                                                 *)
(*   setMetadata, run, updateScheduler, fillSequenceQueue, fillRunningQueue*)
(* The first turns, hittingQueue, warm the batches up without running the  *)
(* devices.  Requests come in a closed loop, one for each that is missing  *)
(* from the batches, or at a rate of their own (use_inject_rate).          *)
(*                                                                         *)
(* Device time is left out.  It steers this loop in two places: addLatency *)
(* sets gen_start_time to the present, which setMetadata compares with a   *)
(* later present, so that every decode is eligible; and the number of      *)
(* arrivals in the time an iteration took is here any number.  The number  *)
(* of iterations is not bounded.                                           *)
(***************************************************************************)
EXTENDS Scheduler, FiniteSetsExt

CONSTANTS
  use_inject_rate,    (* requests arrive at a rate, not for a place          *)
  MaxHits,            (* most warm-up iterations; the code makes 10000       *)
  MaxArrivals         (* most arrivals during one iteration                  *)

ASSUME LoopAssumption ==
  /\ use_inject_rate \in BOOLEAN
  /\ MaxHits \in Nat
  /\ MaxArrivals \in Nat

VARIABLES
  pc,                 (* next statement of the loop                          *)
  todo,               (* remaining turns of the inner loop at pc             *)
  hits                (* remaining fills of the start and the warm-up        *)

vars == <<schedulerVars, pc, todo, hits>>

Init ==
  /\ SchedulerInit
  /\ pc = "fill"
  /\ todo = 0
  /\ hits \in 1 .. MaxHits + 1

(* fillSequenceQueue: the number of requests to push.  Without a rate it   *)
(* is what the batches lack, those already in sequence_queue not counted.  *)
(* With a rate it is the arrivals during the iteration, or, at the start   *)
(* and in the warm-up, what the batches lack of seven tenths.              *)
NumRequestToInject ==
  IF ~use_inject_rate THEN {total_batch_size - BatchSize}
  ELSE IF hits > 0
       THEN {Max({(7 * total_batch_size - 10 * BatchSize) \div 10, 0})}
       ELSE 0 .. MaxArrivals

FillSequenceQueue ==
  /\ pc = "fill"
  /\ pc' = "push"
  /\ todo' \in NumRequestToInject
  /\ hits' = IF hits > 0 THEN hits - 1 ELSE 0
  /\ UNCHANGED schedulerVars

PushSeq ==
  /\ pc = "push"
  /\ todo > 0
  /\ PushSequence
  /\ todo' = todo - 1
  /\ UNCHANGED <<pc, hits>>

(* The bound on live requests ends the pushing early when no identity is   *)
(* free.  In a closed loop whose ranks share total_batch_size evenly this  *)
(* does not happen.                                                        *)
FillRunningQueue ==
  /\ pc = "push"
  /\ todo = 0 \/ Free = {}
  /\ pc' = "place"
  /\ todo' = num_empty_seq
  /\ UNCHANGED <<schedulerVars, hits>>

Place ==
  /\ pc = "place"
  /\ todo > 0
  /\ PlaceHead
  /\ todo' = todo - 1
  /\ UNCHANGED <<pc, hits>>

(* A prompt anywhere holds up the decodes everywhere.  Mutant: not so.     *)
process_gen_always == TRUE

process_gen == ~hasSumSeq

SetMetadata ==
  /\ pc = "place"
  /\ todo = 0
  /\ SetTokens(hasSumSeq, process_gen, Requests)
  /\ pc' = "run"
  /\ UNCHANGED <<sequence_queue, running_queue, rotate, lengthVars,
                 current_len, record, todo, hits>>

(* "if no reqeusts, add time": the turn ends without an update or a fill.  *)
(* The warm-up does not look at the number of tokens.                      *)
Idle ==
  /\ pc = "run"
  /\ hits = 0
  /\ NothingToProcess
  /\ pc' = "place"
  /\ UNCHANGED <<schedulerVars, todo, hits>>

UpdateScheduler ==
  /\ pc = "run"
  /\ hits > 0 \/ ~NothingToProcess
  /\ UpdateSequences(Running)
  /\ pc' = "fill"
  /\ UNCHANGED <<todo, hits>>

Next ==
  \/ FillSequenceQueue
  \/ PushSeq
  \/ FillRunningQueue
  \/ Place
  \/ SetMetadata
  \/ Idle
  \/ UpdateScheduler

Spec == Init /\ [][Next]_vars

(* The loop is one thread that never waits.                                *)
FairSpec == Spec /\ WF_vars(Next)
-----------------------------------------------------------------------------
TypeOK ==
  /\ SchedulerTypeOK
  /\ pc \in {"fill", "push", "place", "run"}
  /\ todo \in Int
  /\ hits \in 0 .. MaxHits + 1
-----------------------------------------------------------------------------
(* One iteration of a colocated system processes prompts or decodes, on    *)
(* all ranks alike, never both: the prompt of one rank holds up the        *)
(* decodes of every other.                                                 *)
OnePhasePerIteration ==
  pc = "run" => \A s, t \in Running :
                  InPrefill(s) /\ ~InPrefill(t) => num_process_token[t] = 0

(* The prompts of a rank together never get more than max_process_token    *)
(* tokens in an iteration ("per dp, in sum").                              *)
PrefillBudget ==
  \A r \in Ranks :
    MapThenSumSet(LAMBDA s : num_process_token[s], SumSeqs(r))
      <= max_process_token

(* A turn without tokens is a turn without work: the batches are empty, or *)
(* each rank that has prompts has more of them than tokens to share.       *)
IdleOnlyWhenStarved ==
  pc = "run" /\ NothingToProcess /\ Running # {} =>
    /\ hasSumSeq
    /\ \A r \in Ranks :
         SumSeqs(r) # {} => Cardinality(SumSeqs(r)) > max_process_token

(* The loop implements the life cycle of requests.                         *)
StageOf(s) == IF s \in Queued THEN "waiting"
              ELSE IF s \notin Running THEN "free"
              ELSE IF InPrefill(s) THEN "prefill" ELSE "decode"

Lifecycle == INSTANCE RequestLifecycle
               WITH Capacity <- total_batch_size,
                    stage <- [s \in Requests |-> StageOf(s)]

ImplementsLifecycle == Lifecycle!Spec

(* A request in a batch is eventually complete, whatever the lengths of    *)
(* those that come after it.  It needs a prefill share of at least one     *)
(* token for each prompt of a rank, and no request that ends with its      *)
(* prompt: such requests, always replaced by a new prompt, starve decodes. *)
AdmittedCompletes == \A s \in Requests : s \in Running ~> s \notin Running

(* A queued request eventually enters a batch.                             *)
QueuedAdmitted == \A s \in Requests : s \in Queued ~> s \in Running
=============================================================================
