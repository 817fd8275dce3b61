----------------------------- MODULE DisaggProofs -----------------------------
(***************************************************************************)
(* Theorems about the disaggregated serving loop, for every configuration, *)
(* any number of turns and any device times.                               *)
(***************************************************************************)
EXTENDS DisaggServing, SchedulerProofs

(* fillRunningQueue computes its number of attempts from the length of the *)
(* queue.  A prompt turn and an idle one go back from "run" to "place"     *)
(* without filling it again.                                               *)
AttemptsBounded == pc \in {"place", "run"} => todo <= Len(sequence_queue)

(* A turn is counted after setMetadata has found it within the setting.    *)
TurnsBounded == pc = "run" => turns < iter

TypeInv == TypeOK /\ AttemptsBounded /\ TurnsBounded

LEMMA MaxOfTwo ==
  ASSUME NEW a \in Int, NEW b \in Int
  PROVE  /\ Max({a, b}) \in {a, b}
         /\ a <= Max({a, b}) /\ b <= Max({a, b})
<1>1. \E x \in {a, b} : \A y \in {a, b} : x >= y
  OBVIOUS
<1>2. Max({a, b}) \in {a, b} /\ \A y \in {a, b} : Max({a, b}) >= y
  BY <1>1 DEF Max
<1>. QED  BY <1>2

(* An attempt has a head to offer.                                         *)
LEMMA PlaceHasHead ==
  ASSUME TypeInv, Place
  PROVE  sequence_queue # << >>
<1>1. /\ todo \in Int /\ todo > 0 /\ todo <= Len(sequence_queue)
      /\ Len(sequence_queue) \in Nat
  BY LenProperties DEF TypeInv, TypeOK, AttemptsBounded, Place, SchedulerTypeOK
<1>. QED  BY <1>1

LEMMA SumSeqsAreRunning ==
  /\ AllSumSeqs \in SUBSET Running
  /\ \A s \in Running : s \in AllSumSeqs <=> InPrefill(s)
BY DEF AllSumSeqs, SumSeqs, Running

(* addLatency keeps gen_start_time a time of each request.                 *)
LEMMA AddLatencyType ==
  ASSUME NEW S, NEW time \in Nat, NEW others \in [Requests -> Nat],
         AddLatency(S, time, others)
  PROVE  gen_start_time' \in [Requests -> Nat]
BY DEF AddLatency

LEMMA SumFinishNat ==
  ASSUME TypeOK, NEW time \in Durations
  PROVE  /\ time \in Nat \ {0}
         /\ SumFinish(time) \in Nat
         /\ sum_machine_time + time <= SumFinish(time)
         /\ total_time + time <= SumFinish(time)
<1>1. total_time \in Nat /\ sum_machine_time \in Nat /\ time \in Nat \ {0}
  BY LoopAssumption DEF TypeOK
<1>2. /\ Max({total_time, sum_machine_time}) \in {total_time, sum_machine_time}
      /\ total_time <= Max({total_time, sum_machine_time})
      /\ sum_machine_time <= Max({total_time, sum_machine_time})
  BY <1>1, MaxOfTwo
<1>. QED  BY <1>1, <1>2 DEF SumFinish
-----------------------------------------------------------------------------
LEMMA InitTypeInv == Init => TypeInv
BY InitType, LoopAssumption
   DEF Init, TypeInv, TypeOK, AttemptsBounded, TurnsBounded

LEMMA NextTypeInv ==
  ASSUME TypeInv, [Next]_vars
  PROVE  TypeInv'
<1>. SUFFICES TypeOK' /\ AttemptsBounded' /\ TurnsBounded'
  BY DEF TypeInv
<1>. USE DEF TypeInv, clocks
<1>1. CASE FillSequenceQueue
  <2>1. SchedulerTypeOK'
    BY <1>1 DEF FillSequenceQueue, TypeOK, SchedulerTypeOK, schedulerVars
  <2>2. todo' \in Int
    BY <1>1, BatchSizeNat, ConfigAssumption DEF FillSequenceQueue, TypeOK
  <2>3. hits' \in 0 .. MaxHits + 1
    BY <1>1, LoopAssumption DEF FillSequenceQueue, TypeOK
  <2>. QED  BY <1>1, <2>1, <2>2, <2>3
            DEF FillSequenceQueue, TypeOK, AttemptsBounded, TurnsBounded
<1>2. CASE PushSeq
  <2>1. SchedulerTypeOK'
    BY <1>2, PushSequenceType DEF PushSeq, TypeOK
  <2>. QED  BY <1>2, <2>1 DEF PushSeq, TypeOK, AttemptsBounded, TurnsBounded
<1>3. CASE FillRunningQueue
  <2>1. SchedulerTypeOK'
    BY <1>3 DEF FillRunningQueue, TypeOK, SchedulerTypeOK, schedulerVars
  <2>2. todo' \in Int /\ todo' <= Len(sequence_queue')
    BY <1>3, NumEmptySeqBound DEF FillRunningQueue, schedulerVars, TypeOK
  <2>. QED  BY <1>3, <2>1, <2>2
            DEF FillRunningQueue, TypeOK, AttemptsBounded, TurnsBounded
<1>4. CASE Place
  <2>1. SchedulerTypeOK'
    BY <1>4, PlaceHasHead, PlaceHeadType DEF Place, TypeOK
  <2>2. Len(sequence_queue') \in Nat /\ Len(sequence_queue) \in Nat
    BY <2>1, LenProperties DEF TypeOK, SchedulerTypeOK
  <2>3. AttemptsBounded'
    BY <1>4, <2>2, PlaceHasHead, PlaceMoves DEF Place, AttemptsBounded, TypeOK
  <2>4. earliest' \in [Requests -> Nat]
    BY <1>4 DEF Place, TypeOK
  <2>. QED  BY <1>4, <2>1, <2>3, <2>4 DEF Place, TypeOK, TurnsBounded
<1>5. CASE SetMetadata
  <2>1. num_process_token' \in [Requests -> Nat]
    BY <1>5, SetTokensType DEF SetMetadata, TypeOK
  <2>2. SchedulerTypeOK'
    BY <1>5, <2>1 DEF SetMetadata, TypeOK, SchedulerTypeOK, lengthVars
  <2>. QED  BY <1>5, <2>2 DEF SetMetadata, TypeOK, AttemptsBounded, TurnsBounded
<1>6. CASE WarmUp
  <2>1. SchedulerTypeOK'
    BY <1>6, UpdateSequencesType DEF WarmUp, TypeOK
  <2>. QED  BY <1>6, <2>1 DEF WarmUp, TypeOK, AttemptsBounded, TurnsBounded
<1>7. CASE Idle
  <2>1. SchedulerTypeOK' /\ AttemptsBounded'
    BY <1>7 DEF Idle, TypeOK, SchedulerTypeOK, schedulerVars, AttemptsBounded
  <2>2. turns' \in 0 .. iter
    BY <1>7, LoopAssumption DEF Idle, TypeOK, TurnsBounded
  <2>. QED  BY <1>7, <2>1, <2>2 DEF Idle, TypeOK, TurnsBounded
<1>8. CASE GenMachineTurn
  <2>1. SchedulerTypeOK'
    BY <1>8, UpdateSequencesType DEF GenMachineTurn, TypeOK
  <2>2. turns' \in 0 .. iter
    BY <1>8, LoopAssumption DEF GenMachineTurn, TypeOK, TurnsBounded
  <2>3. PICK time \in Durations :
          /\ total_time' = total_time + time
          /\ AddLatency(Running, total_time + time, gen_start_time)
    BY <1>8 DEF GenMachineTurn
  <2>4. total_time' \in Nat
    BY <2>3, LoopAssumption DEF TypeOK
  <2>5. gen_start_time' \in [Requests -> Nat]
    BY <2>3, <2>4, AddLatencyType DEF TypeOK
  <2>. QED  BY <1>8, <2>1, <2>2, <2>4, <2>5
            DEF GenMachineTurn, TypeOK, AttemptsBounded, TurnsBounded
<1>9. CASE SumMachineTurn
  <2>1. SchedulerTypeOK' /\ sequence_queue' = sequence_queue
    BY <1>9, UpdateSequencesType DEF SumMachineTurn, TypeOK, UpdateSequences
  <2>2. turns' \in 0 .. iter
    BY <1>9, LoopAssumption DEF SumMachineTurn, TypeOK, TurnsBounded
  <2>3. PICK time \in Durations :
          /\ sum_machine_time' = SumFinish(time)
          /\ AddLatency(AllSumSeqs, SumFinish(time),
               [s \in Requests |-> IF s \in AllSumSeqs THEN total_time + time
                                                       ELSE gen_start_time[s]])
    BY <1>9 DEF SumMachineTurn
  <2>4. time \in Nat /\ SumFinish(time) \in Nat
    BY SumFinishNat
  <2>5. [s \in Requests |-> IF s \in AllSumSeqs THEN total_time + time
                                                ELSE gen_start_time[s]]
          \in [Requests -> Nat]
    BY <2>4 DEF TypeOK
  <2>6. gen_start_time' \in [Requests -> Nat]
    BY <2>3, <2>4, <2>5, AddLatencyType
  <2>7. earliest' \in [Requests -> Nat]
    BY <1>9, LoopAssumption DEF SumMachineTurn, TypeOK
  <2>. QED  BY <1>9, <2>1, <2>2, <2>3, <2>4, <2>6, <2>7
            DEF SumMachineTurn, TypeOK, AttemptsBounded, TurnsBounded
<1>10. CASE UNCHANGED vars
  BY <1>10 DEF vars, TypeOK, SchedulerTypeOK, schedulerVars, AttemptsBounded,
               TurnsBounded
<1>. QED  BY <1>1, <1>2, <1>3, <1>4, <1>5, <1>6, <1>7, <1>8, <1>9, <1>10
          DEF Next

(* The types of the scheduler, the loop and the two clocks (TypeOK), the   *)
(* number of turns within its setting.                                     *)
THEOREM TypeCorrect == Spec => []TypeOK
<1>1. Init => TypeInv
  BY InitTypeInv
<1>2. TypeInv /\ [Next]_vars => TypeInv'
  BY NextTypeInv
<1>3. TypeInv => TypeOK
  BY DEF TypeInv
<1>. QED  BY <1>1, <1>2, <1>3, PTL DEF Spec
-----------------------------------------------------------------------------
(* A request is in the queue or in one batch, once; and no request steps   *)
(* over its total or its prompt.                                           *)
HomeInv == TypeInv /\ OneHome

LengthInv == HomeInv /\ LengthsOK

RecordInv == LengthInv /\ RecordsOK

LEMMA NextOneHome ==
  ASSUME HomeInv, [Next]_vars
  PROVE  OneHome'
<1>. USE DEF HomeInv, TypeInv, TypeOK
<1>1. CASE PushSeq
  BY <1>1, PushSequenceOneHome DEF PushSeq
<1>2. CASE Place
  BY <1>2, PlaceHasHead, PlaceHeadOneHome DEF Place
<1>3. CASE WarmUp \/ GenMachineTurn \/ SumMachineTurn
  BY <1>3, UpdateSequencesOneHome DEF WarmUp, GenMachineTurn, SumMachineTurn
<1>4. CASE SetMetadata
  BY <1>4 DEF SetMetadata, OneHome, Queued
<1>5. CASE \/ FillSequenceQueue \/ FillRunningQueue \/ Idle \/ UNCHANGED vars
  BY <1>5 DEF FillSequenceQueue, FillRunningQueue, Idle, vars, schedulerVars,
              OneHome, Queued
<1>. QED  BY <1>1, <1>2, <1>3, <1>4, <1>5 DEF Next

LEMMA NextLengths ==
  ASSUME ArrivesUnfinished, LengthInv, [Next]_vars
  PROVE  LengthsOK'
<1>. USE DEF LengthInv, HomeInv, TypeInv, TypeOK
<1>1. CASE PushSeq
  BY <1>1, PushSequenceLengths DEF PushSeq
<1>2. CASE Place
  BY <1>2, PlaceHasHead, PlaceHeadLengths DEF Place
<1>3. CASE WarmUp \/ GenMachineTurn
  BY <1>3, UpdateSequencesLengths DEF WarmUp, GenMachineTurn
<1>4. CASE SumMachineTurn
  BY <1>4, SumSeqsAreRunning, UpdateSequencesLengths DEF SumMachineTurn
<1>5. CASE SetMetadata
  BY <1>5, SetTokensLengths DEF SetMetadata
<1>6. CASE \/ FillSequenceQueue \/ FillRunningQueue \/ Idle \/ UNCHANGED vars
  BY <1>6 DEF FillSequenceQueue, FillRunningQueue, Idle, vars, schedulerVars,
              LengthsOK, QueuedOK, RunningOK, LenAfter, InPrefill, Queued,
              Running
<1>. QED  BY <1>1, <1>2, <1>3, <1>4, <1>5, <1>6 DEF Next

LEMMA NextRecords ==
  ASSUME ArrivesInPrefill, RecordInv, [Next]_vars
  PROVE  RecordsOK'
<1>. USE DEF RecordInv, LengthInv, HomeInv, TypeInv, TypeOK
<1>1. CASE PushSeq
  BY <1>1, PushSequenceRecords DEF PushSeq
<1>2. CASE Place
  BY <1>2, PlaceHasHead, PlaceHeadRecords DEF Place
<1>3. CASE WarmUp \/ GenMachineTurn
  BY <1>3, UpdateSequencesRecords DEF WarmUp, GenMachineTurn
<1>4. CASE SumMachineTurn
  BY <1>4, SumSeqsAreRunning, UpdateSequencesRecords DEF SumMachineTurn
<1>5. CASE SetMetadata
  BY <1>5 DEF SetMetadata, RecordsOK, InPrefill, Queued, Running, lengthVars
<1>6. CASE \/ FillSequenceQueue \/ FillRunningQueue \/ Idle \/ UNCHANGED vars
  BY <1>6 DEF FillSequenceQueue, FillRunningQueue, Idle, vars, schedulerVars,
              RecordsOK, InPrefill, Queued, Running
<1>. QED  BY <1>1, <1>2, <1>3, <1>4, <1>5, <1>6 DEF Next

(* OneHome for this loop, whose prompt turns update only some requests.    *)
THEOREM RequestsHaveOneHome == Spec => []OneHome
<1>1. Init => HomeInv
  BY InitTypeInv, InitOneHome DEF Init, HomeInv
<1>2. HomeInv /\ [Next]_vars => HomeInv'
  BY NextTypeInv, NextOneHome DEF HomeInv
<1>3. HomeInv => OneHome
  BY DEF HomeInv
<1>. QED  BY <1>1, <1>2, <1>3, PTL DEF Spec

(* NoOvershoot, when no request arrives as long as it will ever get.  Here *)
(* the tokens a decode was given outlive the prompt turns in which it is   *)
(* not updated: they still never take it past its end.                     *)
THEOREM NeverOvershoots ==
  ASSUME ArrivesUnfinished
  PROVE  Spec => []NoOvershoot
<1>1. Init => LengthInv
  BY InitTypeInv, InitOneHome, InitLengths DEF Init, HomeInv, LengthInv
<1>2. LengthInv /\ [Next]_vars => LengthInv'
  BY NextTypeInv, NextOneHome, NextLengths DEF HomeInv, LengthInv
<1>3. LengthInv => NoOvershoot
  BY DEF LengthInv, LengthsOK, RunningOK, NoOvershoot
<1>. QED  BY <1>1, <1>2, <1>3, PTL DEF Spec

(* FirstTokenReported: updateSchedulerSumGenSplit, which looks at prompts  *)
(* only, and updateScheduler together report every first token, in time.   *)
THEOREM FirstTokensReported == Spec => []FirstTokenReported
<1>1. CASE ArrivesInPrefill
  <2>. USE <1>1, PrefillIsUnfinished
  <2>1. Init => RecordInv
    BY InitTypeInv, InitOneHome, InitLengths, InitRecords
       DEF Init, HomeInv, LengthInv, RecordInv
  <2>2. RecordInv /\ [Next]_vars => RecordInv'
    BY NextTypeInv, NextOneHome, NextLengths, NextRecords
       DEF HomeInv, LengthInv, RecordInv
  <2>3. RecordInv => FirstTokenReported
    BY DEF RecordInv, RecordsOK, FirstTokenReported
  <2>. QED  BY <2>1, <2>2, <2>3, PTL DEF Spec
<1>2. CASE ~ArrivesInPrefill
  <2>1. FirstTokenReported
    BY <1>2 DEF FirstTokenReported
  <2>. QED  BY <2>1, PTL
<1>. QED  BY <1>1, <1>2
-----------------------------------------------------------------------------
(* The handoff between the machines.  What makes it inductive is what is   *)
(* known of the requests that do not decode: one that is in no batch has   *)
(* no gen_start_time yet, one that waits has no tokens, and the warm-up,   *)
(* which pops requests without addLatency, sets no time at all.            *)
NoTimeOutside == \A s \in Requests \ Running : gen_start_time[s] = 0

NoTokensWaiting == \A s \in Queued : num_process_token[s] = 0

NoTimeInWarmUp == hits > 0 => \A s \in Requests : gen_start_time[s] = 0

(* NoDecodeBeforeHandoff at every statement of the loop: the tokens given  *)
(* to a decode are kept while prompts run.                                 *)
TokensAfterHandoff ==
  \A s \in Running :
    ~InPrefill(s) /\ num_process_token[s] > 0 => gen_start_time[s] <= total_time

(* HandoffReached, of all requests.                                        *)
TimesReached ==
  \A s \in Requests :
    gen_start_time[s] <= Max({total_time, sum_machine_time})

HandoffOK ==
  /\ NoTimeOutside
  /\ NoTokensWaiting
  /\ NoTimeInWarmUp
  /\ TokensAfterHandoff
  /\ TimesReached

HandoffInv == HomeInv /\ HandoffOK

LEMMA PushSeqHandoff ==
  ASSUME HandoffInv, PushSeq
  PROVE  HandoffOK'
<1>. USE DEF HandoffInv, HomeInv, TypeInv, TypeOK, HandoffOK
<1>1. PICK s \in Requests, l \in RequestLengths :
        /\ s \notin Queued /\ s \notin Running
        /\ Queued' = Queued \cup {s} /\ Running' = Running
        /\ input_len' = [input_len EXCEPT ![s] = NewInput(l)]
        /\ current_len' = [current_len EXCEPT ![s] = NewCurrent(l)]
        /\ num_process_token' = [num_process_token EXCEPT ![s] = 0]
  BY PushMoves DEF PushSeq
<1>2. UNCHANGED <<hits, total_time, sum_machine_time, gen_start_time>>
  BY DEF PushSeq, clocks
<1>3. NoTimeOutside' /\ NoTimeInWarmUp' /\ TimesReached'
  BY <1>1, <1>2 DEF NoTimeOutside, NoTimeInWarmUp, TimesReached
<1>4. NoTokensWaiting'
  BY <1>1, LiveAreRequests DEF NoTokensWaiting, SchedulerTypeOK
<1>5. ASSUME NEW t \in Running
      PROVE  /\ num_process_token'[t] = num_process_token[t]
             /\ InPrefill(t)' <=> InPrefill(t)
  BY <1>1, LiveAreRequests DEF InPrefill, SchedulerTypeOK
<1>6. TokensAfterHandoff'
  BY <1>1, <1>2, <1>5 DEF TokensAfterHandoff
<1>. QED  BY <1>3, <1>4, <1>6

(* A request enters its batch without tokens.                              *)
LEMMA PlaceHandoff ==
  ASSUME HandoffInv, Place
  PROVE  HandoffOK'
<1>. USE DEF HandoffInv, HomeInv, TypeInv, TypeOK, HandoffOK
<1>1. /\ Queued' \subseteq Queued /\ Running' \subseteq Running \cup Queued
      /\ UNCHANGED <<input_len, current_len, num_process_token>>
  BY PlaceHasHead, PlaceMoves DEF Place
<1>2. UNCHANGED <<hits, total_time, sum_machine_time, gen_start_time>>
  BY DEF Place, clocks
<1>3. Running \subseteq Running'
  <2>1. \A r \in Ranks : running_queue[r] \subseteq running_queue'[r]
    BY DEF Place, PlaceHead, Offer, SchedulerTypeOK, schedulerVars
  <2>. QED  BY <2>1 DEF Running
<1>4. NoTimeOutside' /\ NoTimeInWarmUp' /\ TimesReached'
  BY <1>2, <1>3 DEF NoTimeOutside, NoTimeInWarmUp, TimesReached
<1>5. NoTokensWaiting'
  BY <1>1 DEF NoTokensWaiting
<1>6. TokensAfterHandoff'
  BY <1>1, <1>2 DEF TokensAfterHandoff, NoTokensWaiting, InPrefill
<1>. QED  BY <1>4, <1>5, <1>6

(* A decode that is given a token has its time behind it.                  *)
LEMMA SetMetadataHandoff ==
  ASSUME HandoffInv, SetMetadata
  PROVE  HandoffOK'
<1>. USE DEF HandoffInv, HomeInv, TypeInv, TypeOK, HandoffOK
<1>1. /\ Queued' = Queued /\ Running' = Running
      /\ UNCHANGED <<hits, total_time, sum_machine_time, gen_start_time>>
      /\ \A s : InPrefill(s)' <=> InPrefill(s)
  BY DEF SetMetadata, Queued, Running, InPrefill, lengthVars, clocks
<1>2. NoTimeOutside' /\ NoTimeInWarmUp' /\ TimesReached'
  BY <1>1 DEF NoTimeOutside, NoTimeInWarmUp, TimesReached
<1>3. NoTokensWaiting'
  <2>1. \A s \in Queued : s \in Requests /\ s \notin Running
    BY LiveAreRequests DEF OneHome, Running
  <2>. QED  BY <1>1, <2>1 DEF NoTokensWaiting, SetMetadata, SetTokens
<1>4. ASSUME NEW s \in Running, ~InPrefill(s), num_process_token'[s] > 0
      PROVE  gen_start_time[s] <= total_time
  <2>1. s \in Requests
    BY LiveAreRequests
  <2>2. \/ s \in Eligible
        \/ num_process_token'[s] = num_process_token[s]
    BY <1>4, <2>1 DEF SetMetadata, SetTokens
  <2>3. s \in Eligible => gen_start_time[s] <= total_time
    BY <2>1 DEF Eligible
  <2>. QED  BY <1>4, <2>2, <2>3 DEF TokensAfterHandoff
<1>5. TokensAfterHandoff'
  BY <1>1, <1>4 DEF TokensAfterHandoff
<1>. QED  BY <1>2, <1>3, <1>5

(* The warm-up pops requests that have no time yet.                        *)
LEMMA WarmUpHandoff ==
  ASSUME HandoffInv, WarmUp
  PROVE  HandoffOK'
<1>. USE DEF HandoffInv, HomeInv, TypeInv, TypeOK, HandoffOK
<1>1. /\ UpdateSequences(Running)
      /\ UNCHANGED <<hits, total_time, sum_machine_time, gen_start_time>>
      /\ hits > 0
  BY DEF WarmUp, clocks
<1>2. Queued' = Queued /\ Running' \subseteq Running
  BY <1>1, UpdateMoves
<1>3. NoTimeOutside' /\ NoTimeInWarmUp' /\ TimesReached'
  BY <1>1 DEF NoTimeOutside, NoTimeInWarmUp, TimesReached
<1>4. /\ \A s \in Running : num_process_token'[s] = 0
      /\ \A s \in Queued : num_process_token'[s] = num_process_token[s]
  BY <1>1, LiveAreRequests
     DEF UpdateSequences, TokensAfter, NoTokensWaiting
<1>5. NoTokensWaiting'
  BY <1>2, <1>4 DEF NoTokensWaiting
<1>6. TokensAfterHandoff'
  BY <1>2, <1>4 DEF TokensAfterHandoff
<1>. QED  BY <1>3, <1>5, <1>6

(* The clocks of a turn, whichever machine it is accounted to: addLatency  *)
(* writes a time one of the clocks has then reached, and blanks those of   *)
(* the requests that leave.                                                *)
LEMMA TurnTimes ==
  ASSUME HandoffInv, hits = 0, hits' = hits,
         NEW S \in SUBSET Running, UpdateSequences(S),
         NEW now \in Nat, NEW others \in [Requests -> Nat],
         AddLatency(S, now, others),
         \A s \in Requests \ S : others[s] = gen_start_time[s],
         \A s \in S : others[s] <= now \/ others[s] = gen_start_time[s],
         total_time' \in Nat, sum_machine_time' \in Nat,
         total_time <= total_time', sum_machine_time <= sum_machine_time',
         now \in {total_time', sum_machine_time'}
  PROVE  NoTimeOutside' /\ NoTimeInWarmUp' /\ TimesReached'
<1>. USE DEF HandoffInv, HomeInv, TypeInv, TypeOK, HandoffOK
<1>1. ASSUME NEW s \in Requests
      PROVE  gen_start_time'[s] = IF s \in Completed(S) THEN 0
                                  ELSE IF s \in FirstToken(S) THEN now
                                  ELSE others[s]
  BY DEF AddLatency
<1>2. Running' = Running \ Completed(S)
  BY UpdateMoves
<1>3. NoTimeOutside'
  <2>1. SUFFICES ASSUME NEW s \in Requests, s \notin Running'
                 PROVE  gen_start_time'[s] = 0
    BY DEF NoTimeOutside
  <2>2. CASE s \in Completed(S)
    BY <1>1, <2>2
  <2>3. CASE s \notin Running
    <3>1. s \notin S /\ s \notin FirstToken(S)
      BY <2>3 DEF FirstToken
    <3>. QED  BY <1>1, <2>3, <3>1 DEF NoTimeOutside
  <2>. QED  BY <1>2, <2>1, <2>2, <2>3
<1>4. NoTimeInWarmUp'
  BY DEF NoTimeInWarmUp
<1>5. TimesReached'
  <2>1. SUFFICES ASSUME NEW s \in Requests
                 PROVE  gen_start_time'[s] <= Max({total_time', sum_machine_time'})
    BY DEF TimesReached
  <2>2. /\ total_time' <= Max({total_time', sum_machine_time'})
        /\ sum_machine_time' <= Max({total_time', sum_machine_time'})
        /\ Max({total_time', sum_machine_time'}) \in {total_time', sum_machine_time'}
    <3>1. total_time' \in Int /\ sum_machine_time' \in Int
      OBVIOUS
    <3>. QED  BY ONLY <3>1, MaxOfTwo
  <2>3. Max({total_time, sum_machine_time}) \in {total_time, sum_machine_time}
    <3>1. total_time \in Int /\ sum_machine_time \in Int
      OBVIOUS
    <3>. QED  BY ONLY <3>1, MaxOfTwo
  <2>4. gen_start_time[s] <= Max({total_time', sum_machine_time'})
    <3>1. gen_start_time[s] <= Max({total_time, sum_machine_time})
      BY DEF TimesReached
    <3>2. gen_start_time[s] \in Nat
      OBVIOUS
    <3>. QED  BY <2>2, <2>3, <3>1, <3>2
  <2>5. now <= Max({total_time', sum_machine_time'})
    BY <2>2
  <2>6. others[s] <= now \/ others[s] = gen_start_time[s]
    OBVIOUS
  <2>7. others[s] \in Nat
    OBVIOUS
  <2>. QED  BY <1>1, <2>2, <2>4, <2>5, <2>6, <2>7
<1>. QED  BY <1>3, <1>4, <1>5

LEMMA GenMachineTurnHandoff ==
  ASSUME HandoffInv, GenMachineTurn
  PROVE  HandoffOK'
<1>. USE DEF HandoffInv, HomeInv, TypeInv, TypeOK, HandoffOK
<1>1. /\ UpdateSequences(Running) /\ hits = 0 /\ hits' = hits
      /\ sum_machine_time' = sum_machine_time
  BY DEF GenMachineTurn
<1>2. PICK time \in Durations :
        /\ total_time' = total_time + time
        /\ AddLatency(Running, total_time + time, gen_start_time)
  BY DEF GenMachineTurn
<1>3. total_time' \in Nat /\ total_time <= total_time'
  BY <1>2, SumFinishNat
<1>4. NoTimeOutside' /\ NoTimeInWarmUp' /\ TimesReached'
  BY <1>1, <1>2, <1>3, TurnTimes
<1>5. Queued' = Queued /\ Running' \subseteq Running
  BY <1>1, UpdateMoves
<1>6. /\ \A s \in Running : num_process_token'[s] = 0
      /\ \A s \in Queued : num_process_token'[s] = 0
  BY <1>1, LiveAreRequests
     DEF UpdateSequences, TokensAfter, NoTokensWaiting
<1>7. NoTokensWaiting' /\ TokensAfterHandoff'
  BY <1>5, <1>6 DEF NoTokensWaiting, TokensAfterHandoff
<1>. QED  BY <1>4, <1>7

(* A turn of the sum machine leaves the decodes as they are; a prompt it   *)
(* ends has no tokens until setMetadata looks at the time of its handoff.  *)
LEMMA SumMachineTurnHandoff ==
  ASSUME HandoffInv, SumMachineTurn
  PROVE  HandoffOK'
<1>. USE DEF HandoffInv, HomeInv, TypeInv, TypeOK, HandoffOK
<1>1. /\ UpdateSequences(AllSumSeqs) /\ hits = 0 /\ hits' = hits
      /\ total_time' = total_time
      /\ AllSumSeqs \in SUBSET Running
  BY SumSeqsAreRunning DEF SumMachineTurn
<1>2. PICK time \in Durations :
        /\ sum_machine_time' = SumFinish(time)
        /\ AddLatency(AllSumSeqs, SumFinish(time),
             [s \in Requests |-> IF s \in AllSumSeqs THEN total_time + time
                                                     ELSE gen_start_time[s]])
  BY DEF SumMachineTurn
<1>. DEFINE others == [s \in Requests |->
                         IF s \in AllSumSeqs THEN total_time + time
                                             ELSE gen_start_time[s]]
<1>3. /\ time \in Nat /\ sum_machine_time' \in Nat
      /\ sum_machine_time <= sum_machine_time'
      /\ total_time + time <= sum_machine_time'
  BY <1>2, SumFinishNat
<1>4. /\ others \in [Requests -> Nat]
      /\ \A s \in Requests \ AllSumSeqs : others[s] = gen_start_time[s]
      /\ \A s \in AllSumSeqs : others[s] <= sum_machine_time'
  BY <1>1, <1>3, LiveAreRequests
<1>5. AddLatency(AllSumSeqs, sum_machine_time', others)
  BY <1>2
<1>. HIDE DEF others
<1>6. NoTimeOutside' /\ NoTimeInWarmUp' /\ TimesReached'
  BY <1>1, <1>3, <1>4, <1>5, TurnTimes
<1>7. /\ Queued' = Queued
      /\ Running' = Running \ Completed(AllSumSeqs)
  BY <1>1, UpdateMoves
<1>8. NoTokensWaiting'
  <2>1. \A s \in Queued : num_process_token'[s] = 0
    BY <1>1, LiveAreRequests DEF UpdateSequences, TokensAfter, NoTokensWaiting
  <2>. QED  BY <1>7, <2>1 DEF NoTokensWaiting
<1>9. ASSUME NEW s \in Running', ~InPrefill(s)', num_process_token'[s] > 0
      PROVE  gen_start_time'[s] <= total_time'
  <2>1. s \in Running /\ s \notin Completed(AllSumSeqs) /\ s \in Requests
    BY <1>7, <1>9, LiveAreRequests
  <2>2. s \notin AllSumSeqs
    <3>1. s \in AllSumSeqs => num_process_token'[s] = 0
      BY <1>1, <2>1, UpdateMoves
    <3>. QED  BY <1>9, <3>1
  <2>3. /\ num_process_token'[s] = num_process_token[s] /\ ~InPrefill(s)
    BY <1>1, <2>1, <2>2, UpdateMoves, SumSeqsAreRunning
  <2>4. gen_start_time'[s] = gen_start_time[s]
    BY <1>4, <1>5, <2>1, <2>2 DEF AddLatency, FirstToken
  <2>. QED  BY <1>1, <1>9, <2>1, <2>3, <2>4 DEF TokensAfterHandoff
<1>10. TokensAfterHandoff'
  BY <1>9 DEF TokensAfterHandoff
<1>. QED  BY <1>6, <1>8, <1>10

LEMMA NextHandoff ==
  ASSUME HandoffInv, [Next]_vars
  PROVE  HandoffOK'
<1>1. CASE FillSequenceQueue
  <2>1. hits' > 0 => hits > 0
    BY <1>1 DEF FillSequenceQueue
  <2>. QED  BY <1>1, <2>1
     DEF FillSequenceQueue, schedulerVars, clocks, HandoffInv, HandoffOK,
         NoTimeOutside, NoTokensWaiting, NoTimeInWarmUp, TokensAfterHandoff,
         TimesReached, InPrefill, Queued, Running
<1>2. CASE FillRunningQueue \/ Idle \/ UNCHANGED vars
  BY <1>2
     DEF FillRunningQueue, Idle, vars, schedulerVars, clocks, HandoffInv,
         HandoffOK, NoTimeOutside, NoTokensWaiting, NoTimeInWarmUp,
         TokensAfterHandoff, TimesReached, InPrefill, Queued, Running
<1>. QED  BY <1>1, <1>2, PushSeqHandoff, PlaceHandoff, SetMetadataHandoff,
             WarmUpHandoff, GenMachineTurnHandoff, SumMachineTurnHandoff
          DEF Next

LEMMA InitHandoffInv == Init => HandoffInv
<1>. SUFFICES ASSUME Init PROVE HandoffOK
  BY InitTypeInv, InitOneHome DEF Init, HomeInv, HandoffInv
<1>1. TypeOK
  BY InitTypeInv DEF TypeInv
<1>2. /\ \A s \in Requests : gen_start_time[s] = 0 /\ num_process_token[s] = 0
      /\ total_time = 0 /\ sum_machine_time = 0
  BY DEF Init, SchedulerInit
<1>3. Queued \subseteq Requests /\ Running \subseteq Requests
  BY <1>1, LiveAreRequests DEF TypeOK
<1>4. 0 <= Max({total_time, sum_machine_time})
  BY <1>2, MaxOfTwo
<1>. QED  BY <1>2, <1>3, <1>4
          DEF HandoffOK, NoTimeOutside, NoTokensWaiting, NoTimeInWarmUp,
              TokensAfterHandoff, TimesReached

LEMMA HandoffInvariant == Spec => []HandoffInv
<1>1. HandoffInv /\ [Next]_vars => HandoffInv'
  BY NextTypeInv, NextOneHome, NextHandoff DEF HomeInv, HandoffInv
<1>. QED  BY <1>1, InitHandoffInv, PTL DEF Spec

(* NoDecodeBeforeHandoff: a decode never runs on the gen machine before    *)
(* the sum machine has finished its prompt, however the turns of the two   *)
(* machines interleave and however long each takes.                        *)
THEOREM DecodesAfterHandoff == Spec => []NoDecodeBeforeHandoff
<1>1. HandoffInv => NoDecodeBeforeHandoff
  BY DEF HandoffInv, HandoffOK, TokensAfterHandoff, NoDecodeBeforeHandoff
<1>. QED  BY <1>1, HandoffInvariant, PTL

(* HandoffReached: no decode waits for a time that neither machine has     *)
(* reached.                                                                *)
THEOREM HandoffsReached == Spec => []HandoffReached
<1>1. HandoffInv => HandoffReached
  BY LiveAreRequests
     DEF HandoffInv, HandoffOK, TimesReached, HandoffReached, HomeInv, TypeInv,
         TypeOK
<1>. QED  BY <1>1, HandoffInvariant, PTL

(* Prompt turns and the clocks.  A request that is on record is in a batch *)
(* and past its prompt, so no later turn of the sum machine moves its      *)
(* handoff; one that stands at the end of its prompt without a record      *)
(* arrived there and took part in no turn; in the warm-up neither clock    *)
(* has moved.                                                              *)
RecordPastPrompt ==
  /\ \A s \in Queued : ~record[s]
  /\ \A s \in Running : record[s] => current_len[s] >= input_len[s]

TookNoTurn ==
  \A s \in Running :
    ~record[s] /\ current_len[s] = input_len[s] => earliest[s] <= total_time

ClocksInWarmUp == hits > 0 => total_time = 0 /\ sum_machine_time = 0

EarliestReached ==
  \A s \in Requests : earliest[s] <= total_time \/ earliest[s] <= sum_machine_time

TurnsOK ==
  /\ RecordPastPrompt
  /\ TookNoTurn
  /\ ClocksInWarmUp
  /\ EarliestReached
  /\ PromptTakesItsTurns

TurnsInv == HandoffInv /\ TurnsOK

LEMMA PushSeqTurns ==
  ASSUME TurnsInv, PushSeq
  PROVE  TurnsOK'
<1>. USE DEF TurnsInv, HandoffInv, HomeInv, TypeInv, TypeOK, TurnsOK
<1>1. UNCHANGED <<hits, total_time, sum_machine_time, gen_start_time, earliest>>
  BY DEF PushSeq, clocks
<1>2. PICK s \in Requests, l \in RequestLengths :
        /\ s \notin Queued /\ s \notin Running
        /\ Queued' = Queued \cup {s} /\ Running' = Running
        /\ input_len' = [input_len EXCEPT ![s] = NewInput(l)]
        /\ current_len' = [current_len EXCEPT ![s] = NewCurrent(l)]
        /\ record' = [record EXCEPT ![s] = FALSE]
  BY PushMoves DEF PushSeq
<1>3. \A t \in Queued \cup Running :
        /\ record'[t] = record[t]
        /\ input_len'[t] = input_len[t] /\ current_len'[t] = current_len[t]
  BY <1>2, LiveAreRequests DEF SchedulerTypeOK
<1>4. ~record'[s]
  BY <1>2 DEF SchedulerTypeOK
<1>5. RecordPastPrompt'
  BY <1>2, <1>3, <1>4 DEF RecordPastPrompt
<1>6. TookNoTurn' /\ PromptTakesItsTurns'
  BY <1>1, <1>2, <1>3 DEF TookNoTurn, PromptTakesItsTurns
<1>. QED  BY <1>1, <1>5, <1>6 DEF ClocksInWarmUp, EarliestReached

(* A request enters its batch in the present of the gen machine.           *)
LEMMA PlaceTurns ==
  ASSUME TurnsInv, Place
  PROVE  TurnsOK'
<1>. USE DEF TurnsInv, HandoffInv, HomeInv, TypeInv, TypeOK, TurnsOK
<1>1. UNCHANGED <<hits, total_time, sum_machine_time, gen_start_time>>
  BY DEF Place, clocks
<1>2. /\ Queued' \subseteq Queued /\ Running' \subseteq Running \cup Queued
      /\ UNCHANGED <<input_len, current_len, record>>
  BY PlaceHasHead, PlaceMoves DEF Place
<1>3. \A s \in Requests :
        earliest'[s] = IF s \in Running' \ Running THEN total_time ELSE earliest[s]
  BY DEF Place
<1>4. Running' \subseteq Requests
  BY <1>2, LiveAreRequests
<1>5. RecordPastPrompt'
  BY <1>2 DEF RecordPastPrompt
<1>6. TookNoTurn' /\ EarliestReached'
  BY <1>1, <1>2, <1>3, <1>4 DEF TookNoTurn, EarliestReached
<1>7. ASSUME NEW s \in Running', record'[s]
      PROVE  earliest'[s] <= gen_start_time'[s]
  <2>1. record[s] /\ s \in Running \cup Queued /\ s \in Requests
    BY <1>2, <1>4, <1>7
  <2>2. s \in Running
    BY <2>1 DEF RecordPastPrompt
  <2>. QED  BY <1>1, <1>3, <2>1, <2>2 DEF PromptTakesItsTurns
<1>. QED  BY <1>1, <1>5, <1>6, <1>7 DEF ClocksInWarmUp, PromptTakesItsTurns

(* What an update of S does to records and lengths, whichever loop step it *)
(* is part of.                                                             *)
LEMMA UpdateTurns ==
  ASSUME TurnsInv, NEW S \in SUBSET Running, UpdateSequences(S)
  PROVE  /\ RecordPastPrompt'
         /\ Running' \subseteq Running /\ Running' \subseteq Requests
         /\ Running' \cap Completed(S) = {}
         /\ \A s \in Running' :
              /\ record'[s] => record[s] \/ s \in FirstToken(S)
              /\ ~record'[s] /\ current_len'[s] = input_len'[s] =>
                   s \notin S /\ ~record[s] /\ current_len[s] = input_len[s]
<1>. USE DEF TurnsInv, HandoffInv, HomeInv, TypeInv, TypeOK, TurnsOK
<1>1. /\ Queued' = Queued /\ Running' = Running \ Completed(S)
      /\ \A s \in Queued : s \in Requests /\ s \notin S
      /\ \A s \in Requests \ Completed(S) :
            /\ input_len'[s] = input_len[s]
            /\ s \in S => current_len'[s] = LenAfter(s)
            /\ s \notin S => current_len'[s] = current_len[s]
            /\ record'[s] <=> record[s] \/ s \in FirstToken(S)
  BY UpdateMoves
<1>2. Running' \subseteq Running /\ Running' \subseteq Requests
  BY <1>1, LiveAreRequests
<1>3. Queued' \cup Running' \subseteq Requests \ Completed(S)
  BY <1>1, <1>2 DEF Completed
<1>4. \A s \in Requests : /\ LenAfter(s) \in Nat /\ current_len[s] \in Nat
                          /\ input_len[s] \in Nat
                          /\ LenAfter(s) >= current_len[s]
  BY DEF LenAfter, SchedulerTypeOK
<1>5. ASSUME NEW s \in Running', record'[s]
      PROVE  current_len'[s] >= input_len'[s]
  <2>1. /\ s \in Requests \ Completed(S) /\ s \in Running
        /\ record[s] \/ s \in FirstToken(S)
    BY <1>1, <1>3, <1>5
  <2>2. CASE s \in FirstToken(S)
    BY <1>1, <1>4, <2>1, <2>2 DEF FirstToken
  <2>3. CASE record[s]
    <3>1. current_len[s] >= input_len[s]
      BY <2>1, <2>3 DEF RecordPastPrompt
    <3>. QED  BY <1>1, <1>4, <2>1, <3>1
  <2>. QED  BY <2>1, <2>2, <2>3
<1>6. ASSUME NEW s \in Running', ~record'[s], current_len'[s] = input_len'[s]
      PROVE  s \notin S /\ ~record[s] /\ current_len[s] = input_len[s]
  <2>1. s \in Requests \ Completed(S) /\ ~record[s] /\ s \notin FirstToken(S)
    BY <1>1, <1>3, <1>6
  <2>2. s \notin S
    BY <1>1, <1>6, <2>1 DEF FirstToken
  <2>. QED  BY <1>1, <1>6, <2>1, <2>2
<1>7. \A s \in Queued' : ~record'[s]
  BY <1>1, <1>3 DEF RecordPastPrompt, FirstToken
<1>8. RecordPastPrompt'
  BY <1>5, <1>7 DEF RecordPastPrompt
<1>. QED  BY <1>1, <1>2, <1>3, <1>6, <1>8

LEMMA WarmUpTurns ==
  ASSUME TurnsInv, WarmUp
  PROVE  TurnsOK'
<1>. USE DEF TurnsInv, HandoffInv, HomeInv, TypeInv, TypeOK, TurnsOK
<1>1. /\ UpdateSequences(Running) /\ hits > 0
      /\ UNCHANGED <<hits, total_time, sum_machine_time, gen_start_time, earliest>>
  BY DEF WarmUp, clocks
<1>2. /\ RecordPastPrompt' /\ Running' \subseteq Requests
      /\ \A s \in Running' : earliest[s] <= 0
  BY <1>1, UpdateTurns DEF ClocksInWarmUp, EarliestReached
<1>3. \A s \in Running' : earliest'[s] <= total_time' /\ earliest'[s] <= gen_start_time'[s]
  BY <1>1, <1>2
<1>4. ClocksInWarmUp' /\ EarliestReached'
  BY <1>1 DEF ClocksInWarmUp, EarliestReached
<1>. QED  BY <1>2, <1>3, <1>4 DEF TookNoTurn, PromptTakesItsTurns

(* A first token of a turn of the gen machine is that of a request that    *)
(* arrived without a prompt.                                               *)
LEMMA GenMachineTurnTurns ==
  ASSUME TurnsInv, GenMachineTurn
  PROVE  TurnsOK'
<1>. USE DEF TurnsInv, HandoffInv, HomeInv, TypeInv, TypeOK, TurnsOK
<1>1. /\ UpdateSequences(Running) /\ hits = 0 /\ hits' = hits /\ ~hasSumSeq
      /\ UNCHANGED <<sum_machine_time, earliest>>
  BY DEF GenMachineTurn
<1>2. PICK time \in Durations :
        /\ total_time' = total_time + time
        /\ AddLatency(Running, total_time + time, gen_start_time)
  BY DEF GenMachineTurn
<1>3. time \in Nat /\ total_time \in Nat /\ sum_machine_time \in Nat
  BY LoopAssumption
<1>4. /\ RecordPastPrompt'
      /\ Running' \subseteq Running /\ Running' \subseteq Requests
      /\ Running' \cap Completed(Running) = {}
      /\ \A s \in Running' :
           /\ record'[s] => record[s] \/ s \in FirstToken(Running)
           /\ ~record'[s] /\ current_len'[s] = input_len'[s] => s \notin Running
  BY <1>1, UpdateTurns
<1>5. TookNoTurn' /\ ClocksInWarmUp'
  BY <1>1, <1>4 DEF TookNoTurn, ClocksInWarmUp
<1>6. EarliestReached'
  BY <1>1, <1>2, <1>3 DEF EarliestReached
<1>7. ASSUME NEW s \in Running', record'[s]
      PROVE  earliest'[s] <= gen_start_time'[s]
  <2>1. s \in Running /\ s \in Requests /\ s \notin Completed(Running)
    BY <1>4
  <2>2. CASE s \in FirstToken(Running)
    <3>1. ~InPrefill(s)
      BY <1>1, <2>1 DEF hasSumSeq, SumSeqs, Running
    <3>2. LenAfter(s) = input_len[s] /\ ~record[s]
      BY <2>2 DEF FirstToken
    <3>3. current_len[s] = input_len[s]
      BY <2>1, <3>1, <3>2 DEF InPrefill, LenAfter, SchedulerTypeOK
    <3>4. earliest[s] <= total_time
      BY <2>1, <3>2, <3>3 DEF TookNoTurn
    <3>5. gen_start_time'[s] = total_time + time
      BY <1>2, <2>1, <2>2 DEF AddLatency
    <3>. QED  BY <1>1, <1>3, <2>1, <3>4, <3>5
  <2>3. CASE s \notin FirstToken(Running)
    <3>1. record[s] /\ gen_start_time'[s] = gen_start_time[s]
      BY <1>2, <1>4, <1>7, <2>1, <2>3 DEF AddLatency
    <3>. QED  BY <1>1, <2>1, <3>1 DEF PromptTakesItsTurns
  <2>. QED  BY <2>2, <2>3
<1>. QED  BY <1>4, <1>5, <1>6, <1>7 DEF PromptTakesItsTurns

(* A turn of the sum machine ends later than every request of its batch    *)
(* has come so far, by the time of the turn.                               *)
LEMMA SumMachineTurnTurns ==
  ASSUME TurnsInv, SumMachineTurn
  PROVE  TurnsOK'
<1>. USE DEF TurnsInv, HandoffInv, HomeInv, TypeInv, TypeOK, TurnsOK
<1>1. /\ UpdateSequences(AllSumSeqs) /\ hits = 0 /\ hits' = hits
      /\ total_time' = total_time
      /\ AllSumSeqs \in SUBSET Running
  BY SumSeqsAreRunning DEF SumMachineTurn
<1>2. PICK time \in Durations :
        /\ sum_machine_time' = SumFinish(time)
        /\ AddLatency(AllSumSeqs, SumFinish(time),
             [s \in Requests |-> IF s \in AllSumSeqs THEN total_time + time
                                                     ELSE gen_start_time[s]])
        /\ earliest' = [s \in Requests |-> IF s \in AllSumSeqs THEN earliest[s] + time
                                                                ELSE earliest[s]]
  BY DEF SumMachineTurn
<1>3. /\ time \in Nat /\ SumFinish(time) \in Nat
      /\ sum_machine_time + time <= SumFinish(time)
      /\ total_time + time <= SumFinish(time)
      /\ total_time \in Nat /\ sum_machine_time \in Nat
  BY SumFinishNat
<1>4. /\ RecordPastPrompt'
      /\ Running' \subseteq Running /\ Running' \subseteq Requests
      /\ Running' \cap Completed(AllSumSeqs) = {}
      /\ \A s \in Running' :
           /\ record'[s] => record[s] \/ s \in FirstToken(AllSumSeqs)
           /\ ~record'[s] /\ current_len'[s] = input_len'[s] =>
                s \notin AllSumSeqs /\ ~record[s] /\ current_len[s] = input_len[s]
  BY <1>1, UpdateTurns
<1>5. TookNoTurn' /\ ClocksInWarmUp'
  <2>1. TookNoTurn'
    BY <1>1, <1>2, <1>4 DEF TookNoTurn
  <2>. QED  BY <1>1, <2>1 DEF ClocksInWarmUp
<1>6. ASSUME NEW s \in Requests
      PROVE  earliest'[s] <= SumFinish(time)
  <2>1. earliest[s] \in Nat /\ (earliest[s] <= total_time \/ earliest[s] <= sum_machine_time)
    BY DEF EarliestReached
  <2>2. earliest'[s] = earliest[s] + time \/ earliest'[s] = earliest[s]
    BY <1>2
  <2>. QED  BY <1>3, <2>1, <2>2
<1>7. EarliestReached'
  BY <1>2, <1>6 DEF EarliestReached
<1>8. ASSUME NEW s \in Running', record'[s]
      PROVE  earliest'[s] <= gen_start_time'[s]
  <2>1. s \in Running /\ s \in Requests /\ s \notin Completed(AllSumSeqs)
    BY <1>4
  <2>2. CASE s \in FirstToken(AllSumSeqs)
    <3>1. gen_start_time'[s] = SumFinish(time)
      BY <1>2, <2>1, <2>2 DEF AddLatency
    <3>. QED  BY <1>6, <2>1, <3>1
  <2>3. CASE s \notin FirstToken(AllSumSeqs)
    <3>1. record[s]
      BY <1>4, <1>8, <2>3
    <3>2. ~InPrefill(s)
      BY <2>1, <3>1 DEF RecordPastPrompt, InPrefill, SchedulerTypeOK
    <3>3. s \notin AllSumSeqs
      BY <2>1, <3>2, SumSeqsAreRunning
    <3>4. earliest'[s] = earliest[s] /\ gen_start_time'[s] = gen_start_time[s]
      BY <1>2, <2>1, <2>3, <3>3 DEF AddLatency
    <3>. QED  BY <2>1, <3>1, <3>4 DEF PromptTakesItsTurns
  <2>. QED  BY <2>2, <2>3
<1>. QED  BY <1>4, <1>5, <1>7, <1>8 DEF PromptTakesItsTurns

LEMMA NextTurns ==
  ASSUME TurnsInv, [Next]_vars
  PROVE  TurnsOK'
<1>1. CASE FillSequenceQueue \/ FillRunningQueue \/ Idle \/ SetMetadata \/ UNCHANGED vars
  <2>1. /\ UNCHANGED <<sequence_queue, running_queue, input_len, current_len, record,
                       total_time, sum_machine_time, gen_start_time, earliest>>
        /\ hits' = hits \/ hits' = IF hits > 0 THEN hits - 1 ELSE 0
    BY <1>1 DEF FillSequenceQueue, FillRunningQueue, Idle, SetMetadata, vars, clocks,
                schedulerVars, lengthVars
  <2>2. hits' > 0 => hits > 0
    BY <2>1
  <2>. QED  BY <2>1, <2>2 DEF TurnsInv, TurnsOK, RecordPastPrompt, TookNoTurn, ClocksInWarmUp,
                        EarliestReached, PromptTakesItsTurns, Queued, Running
<1>. QED  BY <1>1, PushSeqTurns, PlaceTurns, WarmUpTurns, GenMachineTurnTurns,
             SumMachineTurnTurns DEF Next

LEMMA InitTurns == Init => TurnsOK
<1>. SUFFICES ASSUME Init PROVE TurnsOK
  OBVIOUS
<1>1. /\ \A s \in Requests : /\ gen_start_time[s] = 0 /\ earliest[s] = 0
                            /\ ~record[s]
      /\ total_time = 0 /\ sum_machine_time = 0
  BY DEF Init, SchedulerInit
<1>2. Queued \subseteq Requests /\ Running \subseteq Requests
  BY InitTypeInv, LiveAreRequests DEF TypeInv, TypeOK
<1>. QED  BY <1>1, <1>2 DEF TurnsOK, RecordPastPrompt, TookNoTurn, ClocksInWarmUp,
                            EarliestReached, PromptTakesItsTurns

(* PromptTakesItsTurns: every handoff lies past the entry of its request   *)
(* and all of its prompt turns, one after the other, for any number of     *)
(* turns of either machine and any lengths of theirs.                      *)
THEOREM PromptsTakeTheirTurns == Spec => []PromptTakesItsTurns
<1>1. Init => TurnsInv
  BY InitHandoffInv, InitTurns DEF TurnsInv
<1>2. TurnsInv /\ [Next]_vars => TurnsInv'
  BY NextTypeInv, NextOneHome, NextHandoff, NextTurns DEF TurnsInv, HandoffInv, HomeInv
<1>3. TurnsInv => PromptTakesItsTurns
  BY DEF TurnsInv, TurnsOK
<1>. QED  BY <1>1, <1>2, <1>3, PTL DEF Spec
=============================================================================
