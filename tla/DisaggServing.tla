---------------------------- MODULE DisaggServing ----------------------------
(***************************************************************************)
(* The serving loop of a disaggregated system: Cluster::runIteration with  *)
(* runIterationSumGenSplit (src/src/hardware/cluster.cpp).  Prompts run on *)
(* a "sum" machine with a clock of its own, decodes on a "gen" machine     *)
(* whose clock is total_time.  setMetadata gives tokens to prompts and     *)
(* decodes alike; the turn of the loop is accounted to the sum machine     *)
(* when any request is in its prompt, and to the gen machine otherwise.    *)
(* A request whose prompt is done may decode when the gen machine's clock  *)
(* has reached its gen_start_time, the time the sum machine finished it.   *)
(*                                                                         *)
(* The loop is closed (use_inject_rate is off) and makes `iter` turns; the *)
(* time of a turn is any of Durations.                                     *)
(***************************************************************************)
EXTENDS Scheduler, FiniteSetsExt

CONSTANTS
  iter,               (* turns of the loop, a setting of the simulation      *)
  Durations,          (* device times one turn may take                      *)
  MaxHits             (* most warm-up iterations; the code makes 10000       *)

ASSUME LoopAssumption ==
  /\ iter \in Nat
  /\ Durations \subseteq Nat \ {0}
  /\ MaxHits \in Nat

VARIABLES
  pc,                 (* next statement of the loop                          *)
  todo,               (* remaining turns of the inner loop at pc             *)
  hits,               (* remaining fills of the start and the warm-up        *)
  turns,              (* completed turns of the loop                         *)
  total_time,         (* clock of the gen machine                            *)
  sum_machine_time,   (* clock of the sum machine                            *)
  gen_start_time,     (* earliest decode time of each request                *)
  earliest            (* history: when a request entered its batch, on the   *)
                      (* gen machine, plus the times of its prompt turns     *)

clocks == <<total_time, sum_machine_time, gen_start_time>>

vars == <<schedulerVars, pc, todo, hits, turns, clocks, earliest>>

Init ==
  /\ SchedulerInit
  /\ pc = "fill"
  /\ todo = 0
  /\ hits \in 1 .. MaxHits + 1
  /\ turns = 0
  /\ total_time = 0
  /\ sum_machine_time = 0
  /\ gen_start_time = [s \in Requests |-> 0]
  /\ earliest = [s \in Requests |-> 0]
-----------------------------------------------------------------------------
(* fillSequenceQueue and fillRunningQueue, as in a colocated system.       *)
FillSequenceQueue ==
  /\ pc = "fill"
  /\ pc' = "push"
  /\ todo' = total_batch_size - BatchSize
  /\ hits' = IF hits > 0 THEN hits - 1 ELSE 0
  /\ UNCHANGED <<schedulerVars, turns, clocks, earliest>>

PushSeq ==
  /\ pc = "push"
  /\ todo > 0
  /\ PushSequence
  /\ todo' = todo - 1
  /\ UNCHANGED <<pc, hits, turns, clocks, earliest>>

FillRunningQueue ==
  /\ pc = "push"
  /\ todo = 0 \/ Free = {}
  /\ pc' = "place"
  /\ todo' = num_empty_seq
  /\ UNCHANGED <<schedulerVars, hits, turns, clocks, earliest>>

Place ==
  /\ pc = "place"
  /\ todo > 0
  /\ PlaceHead
  /\ earliest' = [s \in Requests |-> IF s \in Running' \ Running THEN total_time
                                                             ELSE earliest[s]]
  /\ todo' = todo - 1
  /\ UNCHANGED <<pc, hits, turns, clocks>>

(* The decodes that may run: never started, or their time has come.        *)
(* Mutant: their time is not looked at.                                    *)
EligibleAll == Requests

Eligible == {s \in Requests : \/ gen_start_time[s] = 0
                              \/ gen_start_time[s] <= total_time}

SetMetadata ==
  /\ pc = "place"
  /\ todo = 0
  /\ turns < iter
  /\ SetTokens(TRUE, TRUE, Eligible)
  /\ pc' = "run"
  /\ UNCHANGED <<sequence_queue, running_queue, rotate, lengthVars,
                 current_len, record, todo, hits, turns, clocks, earliest>>
-----------------------------------------------------------------------------
(* One warm-up iteration: updateScheduler(0) without a run.                *)
WarmUp ==
  /\ pc = "run"
  /\ hits > 0
  /\ UpdateSequences(Running)
  /\ pc' = "fill"
  /\ UNCHANGED <<todo, hits, turns, clocks, earliest>>

(* "if no reqeusts, add time": the assigned time is dropped by `continue`. *)
Idle ==
  /\ pc = "run"
  /\ hits = 0
  /\ NothingToProcess
  /\ pc' = "place"
  /\ turns' = turns + 1
  /\ UNCHANGED <<schedulerVars, todo, hits, clocks, earliest>>

(* addLatency(.., time) after UpdateSequences(S): the reported requests    *)
(* get their gen_start_time, and the completed ones are gone.              *)
AddLatency(S, time, others) ==
  gen_start_time' = [s \in Requests |->
                      IF s \in Completed(S) THEN 0
                      ELSE IF s \in FirstToken(S) THEN time
                      ELSE others[s]]

GenMachineTurn ==
  /\ pc = "run"
  /\ hits = 0
  /\ ~NothingToProcess
  /\ ~hasSumSeq
  /\ \E time \in Durations :
       /\ total_time' = total_time + time
       /\ AddLatency(Running, total_time + time, gen_start_time)
  /\ UpdateSequences(Running)
  /\ pc' = "fill"
  /\ turns' = turns + 1
  /\ UNCHANGED <<todo, hits, sum_machine_time, earliest>>

(* updateSchedulerSumGenSplit looks at the prompts only.  It sets the      *)
(* gen_start_time of each to total_time + time; addLatency overwrites it   *)
(* for those that are done.  Neither queue is filled.                      *)
AllSumSeqs == UNION {SumSeqs(r) : r \in Ranks}

(* The sum machine starts when it is free, in the present of the gen       *)
(* machine.  Mutants: one of the two clocks is forgotten.                  *)
SumFinishOwnClock(time) == sum_machine_time + time

SumFinishGenClock(time) == total_time + time

SumFinish(time) == Max({total_time, sum_machine_time}) + time

SumMachineTurn ==
  /\ pc = "run"
  /\ hits = 0
  /\ ~NothingToProcess
  /\ hasSumSeq
  /\ \E time \in Durations :
       /\ sum_machine_time' = SumFinish(time)
       /\ AddLatency(AllSumSeqs, SumFinish(time),
            [s \in Requests |-> IF s \in AllSumSeqs THEN total_time + time
                                                    ELSE gen_start_time[s]])
       /\ earliest' = [s \in Requests |-> IF s \in AllSumSeqs THEN earliest[s] + time
                                                               ELSE earliest[s]]
  /\ UpdateSequences(AllSumSeqs)
  /\ pc' = "place"
  /\ turns' = turns + 1
  /\ UNCHANGED <<todo, hits, total_time>>

Next ==
  \/ FillSequenceQueue
  \/ PushSeq
  \/ FillRunningQueue
  \/ Place
  \/ SetMetadata
  \/ WarmUp
  \/ Idle
  \/ GenMachineTurn
  \/ SumMachineTurn

Spec == Init /\ [][Next]_vars
-----------------------------------------------------------------------------
TypeOK ==
  /\ SchedulerTypeOK
  /\ pc \in {"fill", "push", "place", "run"}
  /\ todo \in Int
  /\ hits \in 0 .. MaxHits + 1
  /\ turns \in 0 .. iter
  /\ total_time \in Nat
  /\ sum_machine_time \in Nat
  /\ gen_start_time \in [Requests -> Nat]
  /\ earliest \in [Requests -> Nat]

(* No decode runs before the sum machine has finished its prompt.          *)
NoDecodeBeforeHandoff ==
  \A s \in Running :
    pc = "run" /\ ~InPrefill(s) /\ num_process_token[s] > 0 =>
      gen_start_time[s] <= total_time

(* A decode that has to wait waits for a time the sum machine has reached: *)
(* its handoff lies in the past of one of the two machines.                *)
HandoffReached ==
  \A s \in Running :
    gen_start_time[s] <= Max({total_time, sum_machine_time})

(* A request is handed off after all of the prompt turns that it took part *)
(* in: from the gen machine's present when it entered its batch on, they   *)
(* pass one after the other, whatever the machines do in between, and the  *)
(* gen_start_time that addLatency leaves behind is past the last of them.  *)
PromptTakesItsTurns ==
  \A s \in Running : record[s] => earliest[s] <= gen_start_time[s]

(* "if no reqeusts, add time": a turn in which nothing ran lets time pass. *)
IdleAddsTime ==
  [][pc = "run" /\ hits = 0 /\ NothingToProcess =>
       total_time' > total_time \/ sum_machine_time' > sum_machine_time]_vars
=============================================================================
