--------------------------- MODULE ColocatedProofs ---------------------------
(***************************************************************************)
(* Theorems about the colocated serving loop, for every configuration, any *)
(* bound on the warm-up and any number of arrivals.                        *)
(***************************************************************************)
EXTENDS ColocatedServing, SchedulerProofs, SetSums

(* fillRunningQueue computes its number of attempts from the length of the *)
(* queue, and an attempt takes at most one request out of it: the head it  *)
(* dereferences exists.  An idle turn goes back from "run" to "place".     *)
AttemptsBounded == pc \in {"place", "run"} => todo <= Len(sequence_queue)

(* The types, with the bound that makes PlaceHead's head a request.        *)
TypeInv == TypeOK /\ AttemptsBounded

LEMMA MaxInt ==
  ASSUME NEW a \in Int, NEW b \in Int
  PROVE  Max({a, b}) \in Int
<1>1. \E x \in {a, b} : \A y \in {a, b} : x >= y
  OBVIOUS
<1>2. Max({a, b}) \in {a, b}
  BY <1>1 DEF Max
<1>. QED  BY <1>2

LEMMA NumRequestInt ==
  ASSUME TypeOK
  PROVE  NumRequestToInject \subseteq Int
<1>1. BatchSize \in Nat /\ total_batch_size \in Nat
  BY BatchSizeNat, ConfigAssumption DEF TypeOK
<1>2. (7 * total_batch_size - 10 * BatchSize) \div 10 \in Int
  BY <1>1
<1>3. Max({(7 * total_batch_size - 10 * BatchSize) \div 10, 0}) \in Int
  BY <1>2, MaxInt
<1>4. 0 .. MaxArrivals \subseteq Int
  OBVIOUS
<1>. QED  BY <1>1, <1>3, <1>4 DEF NumRequestToInject

(* An attempt has a head to offer, and leaves the others one fewer.        *)
LEMMA PlaceHasHead ==
  ASSUME TypeInv, Place
  PROVE  /\ sequence_queue # << >>
         /\ Len(sequence_queue') >= Len(sequence_queue) - 1
<1>1. /\ todo \in Int /\ todo > 0 /\ todo <= Len(sequence_queue)
      /\ Len(sequence_queue) \in Nat
  BY LenProperties DEF TypeInv, TypeOK, AttemptsBounded, Place, SchedulerTypeOK
<1>2. sequence_queue # << >>
  BY <1>1
<1>. QED  BY <1>2, PlaceMoves DEF Place, TypeInv, TypeOK
-----------------------------------------------------------------------------
LEMMA InitTypeInv == Init => TypeInv
BY InitType, LoopAssumption DEF Init, TypeInv, TypeOK, AttemptsBounded

LEMMA NextTypeInv ==
  ASSUME TypeInv, [Next]_vars
  PROVE  TypeInv'
<1>. SUFFICES TypeOK' /\ AttemptsBounded'
  BY DEF TypeInv
<1>. USE DEF TypeInv
<1>1. CASE FillSequenceQueue
  <2>1. SchedulerTypeOK'
    BY <1>1 DEF FillSequenceQueue, TypeOK, SchedulerTypeOK, schedulerVars
  <2>2. todo' \in Int
    BY <1>1, NumRequestInt DEF FillSequenceQueue
  <2>3. hits' \in 0 .. MaxHits + 1
    BY <1>1, LoopAssumption DEF FillSequenceQueue, TypeOK
  <2>. QED  BY <1>1, <2>1, <2>2, <2>3
            DEF FillSequenceQueue, TypeOK, AttemptsBounded
<1>2. CASE PushSeq
  <2>1. SchedulerTypeOK'
    BY <1>2, PushSequenceType DEF PushSeq, TypeOK
  <2>. QED  BY <1>2, <2>1 DEF PushSeq, TypeOK, AttemptsBounded
<1>3. CASE FillRunningQueue
  <2>1. SchedulerTypeOK'
    BY <1>3 DEF FillRunningQueue, TypeOK, SchedulerTypeOK, schedulerVars
  <2>2. todo' \in Int /\ todo' <= Len(sequence_queue')
    BY <1>3, NumEmptySeqBound DEF FillRunningQueue, schedulerVars, TypeOK
  <2>. QED  BY <1>3, <2>1, <2>2 DEF FillRunningQueue, TypeOK, AttemptsBounded
<1>4. CASE Place
  <2>1. SchedulerTypeOK'
    BY <1>4, PlaceHasHead, PlaceHeadType DEF Place, TypeOK
  <2>2. Len(sequence_queue') \in Nat /\ Len(sequence_queue) \in Nat
    BY <2>1, LenProperties DEF TypeOK, SchedulerTypeOK
  <2>3. AttemptsBounded'
    BY <1>4, <2>2, PlaceHasHead DEF Place, AttemptsBounded, TypeOK
  <2>. QED  BY <1>4, <2>1, <2>3 DEF Place, TypeOK
<1>5. CASE SetMetadata
  <2>1. num_process_token' \in [Requests -> Nat]
    BY <1>5, SetTokensType DEF SetMetadata, process_gen, TypeOK, hasSumSeq
  <2>2. SchedulerTypeOK'
    BY <1>5, <2>1 DEF SetMetadata, TypeOK, SchedulerTypeOK, lengthVars
  <2>. QED  BY <1>5, <2>2 DEF SetMetadata, TypeOK, AttemptsBounded
<1>6. CASE Idle
  BY <1>6 DEF Idle, TypeOK, SchedulerTypeOK, schedulerVars, AttemptsBounded
<1>7. CASE UpdateScheduler
  <2>1. SchedulerTypeOK'
    BY <1>7, UpdateSequencesType DEF UpdateScheduler, TypeOK
  <2>. QED  BY <1>7, <2>1 DEF UpdateScheduler, TypeOK, AttemptsBounded
<1>8. CASE UNCHANGED vars
  BY <1>8 DEF vars, TypeOK, SchedulerTypeOK, schedulerVars, AttemptsBounded
<1>. QED  BY <1>1, <1>2, <1>3, <1>4, <1>5, <1>6, <1>7, <1>8 DEF Next

(* The types of the scheduler and of the loop (TypeOK).                    *)
THEOREM TypeCorrect == Spec => []TypeOK
<1>1. Init => TypeInv
  BY InitTypeInv
<1>2. TypeInv /\ [Next]_vars => TypeInv'
  BY NextTypeInv
<1>3. TypeInv => TypeOK
  BY DEF TypeInv
<1>. QED  BY <1>1, <1>2, <1>3, PTL DEF Spec
-----------------------------------------------------------------------------
(* A request is in the queue or in one batch, once.                        *)
HomeInv == TypeInv /\ OneHome

LEMMA NextOneHome ==
  ASSUME HomeInv, [Next]_vars
  PROVE  OneHome'
<1>. USE DEF HomeInv, TypeInv, TypeOK
<1>1. CASE PushSeq
  BY <1>1, PushSequenceOneHome DEF PushSeq
<1>2. CASE Place
  BY <1>2, PlaceHasHead, PlaceHeadOneHome DEF Place
<1>3. CASE UpdateScheduler
  BY <1>3, UpdateSequencesOneHome DEF UpdateScheduler
<1>4. CASE SetMetadata
  BY <1>4 DEF SetMetadata, OneHome, Queued
<1>5. CASE \/ FillSequenceQueue \/ FillRunningQueue \/ Idle \/ UNCHANGED vars
  BY <1>5 DEF FillSequenceQueue, FillRunningQueue, Idle, vars, schedulerVars,
              OneHome, Queued
<1>. QED  BY <1>1, <1>2, <1>3, <1>4, <1>5 DEF Next

(* OneHome for the loop: no method puts a request that is already in a     *)
(* container into another.                                                 *)
THEOREM RequestsHaveOneHome == Spec => []OneHome
<1>1. Init => HomeInv
  BY InitTypeInv, InitOneHome DEF Init, HomeInv
<1>2. HomeInv /\ [Next]_vars => HomeInv'
  BY NextTypeInv, NextOneHome DEF HomeInv
<1>3. HomeInv => OneHome
  BY DEF HomeInv
<1>. QED  BY <1>1, <1>2, <1>3, PTL DEF Spec
-----------------------------------------------------------------------------
(* No request steps over its total or its prompt.                          *)
LengthInv == HomeInv /\ LengthsOK

LEMMA NextLengths ==
  ASSUME ArrivesUnfinished, LengthInv, [Next]_vars
  PROVE  LengthsOK'
<1>. USE DEF LengthInv, HomeInv, TypeInv, TypeOK
<1>1. CASE PushSeq
  BY <1>1, PushSequenceLengths DEF PushSeq
<1>2. CASE Place
  BY <1>2, PlaceHasHead, PlaceHeadLengths DEF Place
<1>3. CASE UpdateScheduler
  BY <1>3, UpdateSequencesLengths DEF UpdateScheduler
<1>4. CASE SetMetadata
  BY <1>4, SetTokensLengths DEF SetMetadata, process_gen, hasSumSeq
<1>5. CASE \/ FillSequenceQueue \/ FillRunningQueue \/ Idle \/ UNCHANGED vars
  BY <1>5 DEF FillSequenceQueue, FillRunningQueue, Idle, vars, schedulerVars,
              LengthsOK, QueuedOK, RunningOK, LenAfter, InPrefill, Queued,
              Running
<1>. QED  BY <1>1, <1>2, <1>3, <1>4, <1>5 DEF Next

(* NoOvershoot, when no request arrives as long as it will ever get: the   *)
(* equality tests of updateScheduler are enough to pop every request and   *)
(* to report its first token, whatever the budget, ranks and lengths.      *)
THEOREM NeverOvershoots ==
  ASSUME ArrivesUnfinished
  PROVE  Spec => []NoOvershoot
<1>1. Init => LengthInv
  BY InitTypeInv, InitOneHome, InitLengths DEF Init, HomeInv, LengthInv
<1>2. LengthInv /\ [Next]_vars => LengthInv'
  BY NextTypeInv, NextOneHome, NextLengths DEF HomeInv, LengthInv
<1>3. LengthInv => NoOvershoot
  BY DEF LengthInv, LengthsOK, RunningOK, NoOvershoot
<1>. QED  BY <1>1, <1>2, <1>3, PTL DEF Spec
-----------------------------------------------------------------------------
(* One phase per iteration.  Between iterations nobody has tokens: that is *)
(* what makes the phase setMetadata picks the only one.                    *)
TokensSpent ==
  /\ \A s \in Queued : num_process_token[s] = 0
  /\ pc # "run" => \A s \in Running : num_process_token[s] = 0
  /\ OnePhasePerIteration

PhaseInv == HomeInv /\ TokensSpent

LEMMA PushSeqTokens ==
  ASSUME PhaseInv, PushSeq
  PROVE  TokensSpent'
<1>. USE DEF PhaseInv, HomeInv, TypeInv, TypeOK
<1>1. PICK s \in Requests :
        /\ Queued' = Queued \cup {s} /\ Running' = Running
        /\ num_process_token' = [num_process_token EXCEPT ![s] = 0]
  BY PushMoves DEF PushSeq
<1>2. \A t \in Queued \cup Running \cup {s} : num_process_token'[t] = 0
  BY <1>1, LiveAreRequests DEF TokensSpent, SchedulerTypeOK, PushSeq
<1>. QED  BY <1>1, <1>2 DEF TokensSpent, OnePhasePerIteration, PushSeq

LEMMA PlaceTokens ==
  ASSUME PhaseInv, Place
  PROVE  TokensSpent'
<1>. USE DEF PhaseInv, HomeInv, TypeInv, TypeOK
<1>1. \A s \in Queued \cup Running : num_process_token[s] = 0
  BY DEF TokensSpent, Place
<1>2. /\ Queued' \subseteq Queued /\ Running' \subseteq Running \cup Queued
      /\ num_process_token' = num_process_token /\ pc' = "place"
  BY PlaceHasHead, PlaceMoves DEF Place
<1>. QED  BY <1>1, <1>2 DEF TokensSpent, OnePhasePerIteration

LEMMA SetMetadataTokens ==
  ASSUME PhaseInv, SetMetadata
  PROVE  TokensSpent'
<1>. USE DEF PhaseInv, HomeInv, TypeInv, TypeOK
<1>1. /\ Queued' = Queued /\ Running' = Running /\ pc' = "run"
      /\ \A s : InPrefill(s)' <=> InPrefill(s)
  BY DEF SetMetadata, Queued, Running, InPrefill, lengthVars
<1>2. \A s \in Queued \cup Running : num_process_token[s] = 0
  BY DEF TokensSpent, SetMetadata
<1>3. ASSUME NEW s \in Queued
      PROVE  num_process_token'[s] = 0
  <2>1. s \in Requests /\ s \notin Running
    BY LiveAreRequests DEF OneHome, Running
  <2>. QED  BY <1>2, <2>1 DEF SetMetadata, SetTokens, process_gen
<1>4. ASSUME NEW s \in Running, NEW t \in Running,
             InPrefill(s), ~InPrefill(t)
      PROVE  num_process_token'[t] = 0
  <2>1. hasSumSeq
    BY <1>4 DEF hasSumSeq, SumSeqs, Running
  <2>2. t \in Requests
    BY LiveAreRequests
  <2>. QED  BY <1>2, <1>4, <2>1, <2>2 DEF SetMetadata, SetTokens, process_gen
<1>. QED  BY <1>1, <1>3, <1>4 DEF TokensSpent, OnePhasePerIteration

LEMMA UpdateSchedulerTokens ==
  ASSUME PhaseInv, UpdateScheduler
  PROVE  TokensSpent'
<1>. USE DEF PhaseInv, HomeInv, TypeInv, TypeOK
<1>1. /\ Queued' = Queued /\ Running' \subseteq Running /\ pc' = "fill"
  BY DEF UpdateScheduler, UpdateSequences, Queued, Running
<1>2. \A s \in Running : num_process_token'[s] = 0
  BY LiveAreRequests DEF UpdateScheduler, UpdateSequences, TokensAfter
<1>3. ASSUME NEW s \in Queued
      PROVE  num_process_token'[s] = 0
  <2>1. s \in Requests /\ s \notin Running
    BY LiveAreRequests DEF OneHome, Running
  <2>. QED  BY <2>1 DEF UpdateScheduler, UpdateSequences, TokensAfter, TokensSpent
<1>. QED  BY <1>1, <1>2, <1>3 DEF TokensSpent, OnePhasePerIteration

LEMMA NextTokens ==
  ASSUME PhaseInv, [Next]_vars
  PROVE  TokensSpent'
<1>1. CASE Idle
  <2>1. \A s \in Running : num_process_token[s] = 0
    BY <1>1 DEF Idle, NothingToProcess
  <2>2. /\ Queued' = Queued /\ Running' = Running
        /\ num_process_token' = num_process_token
        /\ pc' = "place"
    BY <1>1 DEF Idle, Queued, Running, schedulerVars
  <2>. QED  BY <2>1, <2>2 DEF PhaseInv, TokensSpent, OnePhasePerIteration
<1>2. CASE FillSequenceQueue \/ FillRunningQueue \/ UNCHANGED vars
  BY <1>2 DEF FillSequenceQueue, FillRunningQueue, vars, schedulerVars,
              PhaseInv, TokensSpent, OnePhasePerIteration, InPrefill, Queued,
              Running
<1>. QED  BY <1>1, <1>2, PushSeqTokens, PlaceTokens, SetMetadataTokens,
             UpdateSchedulerTokens DEF Next

LEMMA InitPhase == Init => PhaseInv
<1>. SUFFICES ASSUME Init PROVE TokensSpent
  BY InitTypeInv, InitOneHome DEF Init, HomeInv, PhaseInv
<1>2. num_process_token = [s \in Requests |-> 0] /\ pc = "fill"
  BY DEF Init, SchedulerInit
<1>3. Queued \subseteq Requests /\ Running \subseteq Requests
  BY InitTypeInv, LiveAreRequests DEF TypeInv, TypeOK
<1>. QED  BY <1>2, <1>3 DEF TokensSpent, OnePhasePerIteration

(* OnePhasePerIteration: prompts and decodes never share an iteration of a *)
(* colocated system.                                                       *)
THEOREM PhasesDoNotMix == Spec => []OnePhasePerIteration
<1>1. Init => PhaseInv
  BY InitPhase
<1>2. PhaseInv /\ [Next]_vars => PhaseInv'
  BY NextTypeInv, NextOneHome, NextTokens DEF HomeInv, PhaseInv
<1>3. PhaseInv => OnePhasePerIteration
  BY DEF PhaseInv, TokensSpent
<1>. QED  BY <1>1, <1>2, <1>3, PTL DEF Spec
-----------------------------------------------------------------------------
(* The report of first tokens.                                             *)
RecordInv == LengthInv /\ RecordsOK

LEMMA NextRecords ==
  ASSUME ArrivesInPrefill, RecordInv, [Next]_vars
  PROVE  RecordsOK'
<1>. USE DEF RecordInv, LengthInv, HomeInv, TypeInv, TypeOK
<1>1. CASE PushSeq
  BY <1>1, PushSequenceRecords DEF PushSeq
<1>2. CASE Place
  BY <1>2, PlaceHasHead, PlaceHeadRecords DEF Place
<1>3. CASE UpdateScheduler
  BY <1>3, UpdateSequencesRecords DEF UpdateScheduler
<1>4. CASE SetMetadata
  BY <1>4 DEF SetMetadata, RecordsOK, InPrefill, Queued, Running, lengthVars
<1>5. CASE \/ FillSequenceQueue \/ FillRunningQueue \/ Idle \/ UNCHANGED vars
  BY <1>5 DEF FillSequenceQueue, FillRunningQueue, Idle, vars, schedulerVars,
              RecordsOK, InPrefill, Queued, Running
<1>. QED  BY <1>1, <1>2, <1>3, <1>4, <1>5 DEF Next

(* FirstTokenReported: the first token of a request is on record from the  *)
(* iteration that ends its prompt on, never earlier, never missed.         *)
THEOREM FirstTokensReported == Spec => []FirstTokenReported
<1>1. CASE ArrivesInPrefill
  <2>. USE <1>1, PrefillIsUnfinished
  <2>1. Init => RecordInv
    BY InitTypeInv, InitOneHome, InitLengths, InitRecords
       DEF Init, HomeInv, LengthInv, RecordInv
  <2>2. RecordInv /\ [Next]_vars => RecordInv'
    BY NextTypeInv, NextOneHome, NextLengths, NextRecords
       DEF HomeInv, LengthInv, RecordInv
  <2>3. RecordInv => FirstTokenReported
    BY DEF RecordInv, RecordsOK, FirstTokenReported
  <2>. QED  BY <2>1, <2>2, <2>3, PTL DEF Spec
<1>2. CASE ~ArrivesInPrefill
  <2>1. FirstTokenReported
    BY <1>2 DEF FirstTokenReported
  <2>. QED  BY <2>1, PTL
<1>. QED  BY <1>1, <1>2
-----------------------------------------------------------------------------
(* What setMetadata hands out.  The prompts of a rank have their share, or *)
(* what is left of them; without a prompt anywhere each decode has one.    *)
TokensHandedOut ==
  pc = "run" =>
    /\ \A r \in Ranks : \A s \in SumSeqs(r) :
         num_process_token[s] = PrefillTokens(r, s)
    /\ ~hasSumSeq => \A s \in Running : num_process_token[s] = 1

BudgetInv == PhaseInv /\ TokensHandedOut

LEMMA RankOfUnique ==
  ASSUME OneHome, NEW r \in Ranks, NEW s \in running_queue[r]
  PROVE  s \in Running /\ RankOf(s) = r
<1>1. s \in Running
  BY DEF Running
<1>2. RankOf(s) \in Ranks /\ s \in running_queue[RankOf(s)]
  BY <1>1, RankOfIsHome
<1>. QED  BY <1>1, <1>2 DEF OneHome

LEMMA NextHandedOut ==
  ASSUME BudgetInv, [Next]_vars
  PROVE  TokensHandedOut'
<1>. USE DEF BudgetInv, PhaseInv, HomeInv, TypeInv, TypeOK
<1>1. CASE SetMetadata
  <2>1. /\ running_queue' = running_queue /\ current_len' = current_len
        /\ input_len' = input_len
    BY <1>1 DEF SetMetadata, lengthVars
  <2>2. /\ hasSumSeq' = hasSumSeq /\ Running' = Running
        /\ \A r \in Ranks : SumSeqs(r)' = SumSeqs(r)
        /\ \A r \in Ranks : \A s : PrefillTokens(r, s)' = PrefillTokens(r, s)
    BY <2>1 DEF hasSumSeq, SumSeqs, InPrefill, Running, PrefillTokens,
                PrefillShare
  <2>3. ASSUME NEW r \in Ranks, NEW s \in SumSeqs(r)
        PROVE  num_process_token'[s] = PrefillTokens(r, s)
    <3>1. s \in running_queue[r] /\ InPrefill(s) /\ hasSumSeq
      BY DEF SumSeqs, hasSumSeq
    <3>2. s \in Running /\ RankOf(s) = r /\ s \in Requests
      BY <3>1, RankOfUnique, LiveAreRequests
    <3>. QED  BY <1>1, <3>1, <3>2 DEF SetMetadata, SetTokens
  <2>4. ASSUME ~hasSumSeq, NEW s \in Running
        PROVE  num_process_token'[s] = 1
    <3>1. ~InPrefill(s) /\ s \in Requests
      BY <2>4, LiveAreRequests DEF hasSumSeq, SumSeqs, Running
    <3>. QED  BY <1>1, <2>4, <3>1 DEF SetMetadata, SetTokens, process_gen
  <2>. QED  BY <2>2, <2>3, <2>4 DEF TokensHandedOut
<1>2. CASE UNCHANGED vars
  BY <1>2 DEF vars, schedulerVars, TokensHandedOut, hasSumSeq, SumSeqs, InPrefill,
              Running, PrefillTokens, PrefillShare
<1>3. CASE \/ FillSequenceQueue \/ PushSeq \/ FillRunningQueue \/ Place \/ Idle
           \/ UpdateScheduler
  <2>1. pc' # "run"
    BY <1>3 DEF FillSequenceQueue, PushSeq, FillRunningQueue, Place, Idle,
                UpdateScheduler
  <2>. QED  BY <2>1 DEF TokensHandedOut
<1>. QED  BY <1>1, <1>2, <1>3 DEF Next

LEMMA BudgetInvariant == Spec => []BudgetInv
<1>1. Init => BudgetInv
  BY InitPhase DEF Init, BudgetInv, TokensHandedOut
<1>2. BudgetInv /\ [Next]_vars => BudgetInv'
  BY NextTypeInv, NextOneHome, NextTokens, NextHandedOut
     DEF HomeInv, PhaseInv, BudgetInv
<1>. QED  BY <1>1, <1>2, PTL DEF Spec

(* Whole parts of equal shares do not add up to more than there is.        *)
LEMMA SharesFit ==
  ASSUME NEW a \in Nat, NEW n \in Nat \ {0}
  PROVE  (a \div n) \in Nat /\ (a \div n) * n <= a /\ (a \div n = 0 => a < n)
OBVIOUS

LEMMA PromptsOfRank ==
  ASSUME SchedulerTypeOK, NEW r \in Ranks
  PROVE  /\ IsFiniteSet(SumSeqs(r)) /\ SumSeqs(r) \subseteq Running
         /\ Cardinality(SumSeqs(r)) \in Nat
         /\ SumSeqs(r) # {} => Cardinality(SumSeqs(r)) # 0
<1>1. SumSeqs(r) \subseteq Running
  BY DEF SumSeqs, Running
<1>2. IsFiniteSet(SumSeqs(r))
  BY <1>1, LiveAreRequests, ConfigAssumption, FS_Subset
<1>. QED  BY <1>1, <1>2, FS_CardinalityType, FS_EmptySet

(* PrefillBudget: the prompts of a rank together never get more than       *)
(* max_process_token tokens, however many they are.                        *)
THEOREM PrefillWithinBudget == Spec => []PrefillBudget
<1>1. ASSUME BudgetInv, NEW r \in Ranks
      PROVE  SumOver(num_process_token, SumSeqs(r)) <= max_process_token
  <2>. USE <1>1 DEF BudgetInv, PhaseInv, HomeInv, TypeInv, TypeOK
  <2>. DEFINE n == Cardinality(SumSeqs(r))
  <2>1. /\ IsFiniteSet(SumSeqs(r)) /\ SumSeqs(r) \subseteq Running /\ n \in Nat
        /\ SumSeqs(r) # {} => n # 0
    BY PromptsOfRank
  <2>2. \A s \in SumSeqs(r) : s \in Requests /\ num_process_token[s] \in Nat
    BY <2>1, LiveAreRequests DEF SchedulerTypeOK
  <2>3. max_process_token \in Nat
    BY ConfigAssumption
  <2>4. CASE pc # "run" \/ SumSeqs(r) = {}
    <3>1. \A s \in SumSeqs(r) : num_process_token[s] \in 0 .. 0
      BY <2>1, <2>4 DEF TokensSpent
    <3>2. SumOver(num_process_token, SumSeqs(r)) <= 0 * n
      BY <2>1, <3>1, SumBound
    <3>3. SumOver(num_process_token, SumSeqs(r)) \in Nat
      BY <2>1, <2>2, SumNat
    <3>. QED  BY <2>1, <2>3, <3>2, <3>3
  <2>5. CASE pc = "run" /\ SumSeqs(r) # {}
    <3>1. PrefillShare(r) \in Nat /\ PrefillShare(r) * n <= max_process_token
      BY <2>1, <2>3, <2>5, SharesFit DEF PrefillShare
    <3>2. ASSUME NEW s \in SumSeqs(r)
          PROVE  num_process_token[s] \in 0 .. PrefillShare(r)
      <4>1. num_process_token[s] = MinOf(PrefillShare(r), input_len[s] - current_len[s])
        BY <2>5 DEF TokensHandedOut, PrefillTokens
      <4>2. input_len[s] \in Nat /\ current_len[s] \in Nat /\ num_process_token[s] \in Nat
        BY <2>2 DEF SchedulerTypeOK
      <4>. QED  BY <3>1, <4>1, <4>2 DEF MinOf
    <3>3. SumOver(num_process_token, SumSeqs(r)) <= PrefillShare(r) * n
      BY <2>1, <3>1, <3>2, SumBound
    <3>4. SumOver(num_process_token, SumSeqs(r)) \in Nat
      BY <2>1, <2>2, SumNat
    <3>5. PrefillShare(r) * n \in Nat
      BY <2>1, <3>1
    <3>. QED  BY <2>3, <3>1, <3>3, <3>4, <3>5
  <2>. QED  BY <2>4, <2>5
<1>2. BudgetInv => PrefillBudget
  BY <1>1 DEF PrefillBudget, SumOver, MapThenSumSet, MapThenFoldSet
<1>. QED  BY <1>2, BudgetInvariant, PTL

(* IdleOnlyWhenStarved: the loop skips an iteration only when the batches  *)
(* are empty or each rank with prompts has more of them than tokens.       *)
THEOREM IdleMeansStarved == Spec => []IdleOnlyWhenStarved
<1>1. ASSUME BudgetInv, pc = "run", NothingToProcess, Running # {}
      PROVE  hasSumSeq
  BY <1>1 DEF BudgetInv, TokensHandedOut, NothingToProcess
<1>2. ASSUME BudgetInv, pc = "run", NothingToProcess,
             NEW r \in Ranks, SumSeqs(r) # {}
      PROVE  Cardinality(SumSeqs(r)) > max_process_token
  <2>. USE <1>2 DEF BudgetInv, PhaseInv, HomeInv, TypeInv, TypeOK
  <2>. DEFINE n == Cardinality(SumSeqs(r))
  <2>1. SumSeqs(r) \subseteq Running /\ n \in Nat \ {0} /\ max_process_token \in Nat
    BY PromptsOfRank, ConfigAssumption
  <2>2. PICK s \in SumSeqs(r) : TRUE
    OBVIOUS
  <2>3. /\ s \in Requests /\ num_process_token[s] = 0
        /\ num_process_token[s] = MinOf(PrefillShare(r), input_len[s] - current_len[s])
    BY <2>1, LiveAreRequests DEF NothingToProcess, TokensHandedOut, PrefillTokens
  <2>4. input_len[s] \in Nat /\ current_len[s] \in Nat /\ current_len[s] < input_len[s]
    BY <2>3 DEF SchedulerTypeOK, SumSeqs, InPrefill
  <2>5. PrefillShare(r) = 0
    BY <2>3, <2>4 DEF MinOf
  <2>. QED  BY <2>1, <2>5, SharesFit DEF PrefillShare
<1>3. BudgetInv => IdleOnlyWhenStarved
  BY <1>1, <1>2 DEF IdleOnlyWhenStarved
<1>. QED  BY <1>3, BudgetInvariant, PTL
-----------------------------------------------------------------------------
(* The refinement of RequestLifecycle.  An attempt to place a request is   *)
(* made only while the batches together have room.                         *)
RoomBounded == pc \in {"place", "run"} => todo <= total_batch_size - BatchSize

RefineInv == LengthInv /\ TokensSpent /\ RoomBounded

LEMMA NextRoom ==
  ASSUME HomeInv, RoomBounded, [Next]_vars
  PROVE  RoomBounded'
<1>. USE DEF HomeInv, TypeInv, TypeOK
<1>1. CASE FillRunningQueue
  <2>1. BatchSize' = BatchSize
    BY <1>1 DEF FillRunningQueue, schedulerVars, BatchSize, Running
  <2>. QED  BY <1>1, <2>1, NumEmptySeqBound DEF FillRunningQueue, RoomBounded
<1>2. CASE Place
  <2>1. /\ BatchSize \in Nat /\ total_batch_size \in Nat /\ IsFiniteSet(Running)
    BY BatchSizeNat, LiveAreRequests, ConfigAssumption, FS_Subset
  <2>2. \/ Running' = Running
        \/ \E s : s \notin Running /\ Running' = Running \cup {s}
    BY <1>2, PlaceHasHead, PlaceMovesOne DEF Place
  <2>3. BatchSize' = BatchSize \/ BatchSize' = BatchSize + 1
    BY <2>1, <2>2, FS_AddElement DEF BatchSize
  <2>. QED  BY <1>2, <2>1, <2>3 DEF Place, RoomBounded
<1>3. CASE SetMetadata \/ Idle \/ UNCHANGED vars
  <2>1. BatchSize' = BatchSize /\ todo' = todo
    BY <1>3 DEF SetMetadata, Idle, vars, schedulerVars, BatchSize, Running
  <2>. QED  BY <1>3, <2>1 DEF SetMetadata, Idle, vars, RoomBounded
<1>4. CASE FillSequenceQueue \/ PushSeq \/ UpdateScheduler
  BY <1>4 DEF FillSequenceQueue, PushSeq, UpdateScheduler, RoomBounded
<1>. QED  BY <1>1, <1>2, <1>3, <1>4 DEF Next

(* The mapping, and what it makes of the sets of the abstract level.       *)
stageMap == [s \in Requests |-> StageOf(s)]

LEMMA StagesMapped ==
  ASSUME SchedulerTypeOK, OneHome
  PROVE  /\ Lifecycle!In("free") = Requests \ (Queued \cup Running)
         /\ Lifecycle!In("waiting") = Queued
         /\ Lifecycle!In("prefill") = {s \in Running : InPrefill(s)}
         /\ Lifecycle!In("decode") = {s \in Running : ~InPrefill(s)}
<1>1. /\ Queued \subseteq Requests /\ Running \subseteq Requests
      /\ Queued \cap Running = {}
  BY LiveAreRequests DEF OneHome, Running
<1>. QED  BY <1>1 DEF Lifecycle!In, StageOf

(* The abstract module counts as this one does.                            *)
LEMMA SameCardinality ==
  ASSUME NEW S
  PROVE  Lifecycle!Cardinality(S) = Cardinality(S)
BY DEF Lifecycle!Cardinality, Cardinality

LEMMA InitRefines == Init => Lifecycle!Init
<1>. SUFFICES ASSUME Init
              PROVE  \A s \in Requests : StageOf(s) = "free"
  BY DEF Lifecycle!Init
<1>1. Queued = {} /\ Running = {}
  BY DEF Init, SchedulerInit, Queued, Running
<1>. QED  BY <1>1 DEF StageOf

LEMMA PushRefines ==
  ASSUME RefineInv, PushSeq
  PROVE  Lifecycle!Submit
<1>. USE DEF RefineInv, LengthInv, HomeInv, TypeInv, TypeOK
<1>1. PICK s \in Requests, l \in RequestLengths :
        /\ s \notin Queued /\ s \notin Running
        /\ Queued' = Queued \cup {s} /\ Running' = Running
        /\ input_len' = [input_len EXCEPT ![s] = NewInput(l)]
        /\ current_len' = [current_len EXCEPT ![s] = NewCurrent(l)]
  BY PushMoves DEF PushSeq
<1>2. s \in Lifecycle!In("free")
  BY <1>1, StagesMapped
<1>3. ASSUME NEW t \in Requests, t # s
      PROVE  StageOf(t)' = StageOf(t)
  BY <1>1, <1>3 DEF StageOf, InPrefill, SchedulerTypeOK
<1>4. StageOf(s)' = "waiting"
  BY <1>1 DEF StageOf
<1>5. stageMap' = [stageMap EXCEPT ![s] = "waiting"]
  BY <1>3, <1>4 DEF stageMap
<1>. QED  BY <1>2, <1>5 DEF Lifecycle!Submit, stageMap

LEMMA PlaceRefines ==
  ASSUME RefineInv, Place
  PROVE  Lifecycle!Admit \/ stageMap' = stageMap
<1>. USE DEF RefineInv, LengthInv, HomeInv, TypeInv, TypeOK
<1>1. /\ input_len' = input_len /\ current_len' = current_len
      /\ sequence_queue # << >>
  BY PlaceHasHead, PlaceMoves DEF Place
<1>2. CASE Queued' = Queued /\ Running' = Running
  BY <1>1, <1>2 DEF stageMap, StageOf, InPrefill
<1>3. CASE \E s \in Queued : /\ s \notin Running /\ Queued' = Queued \ {s}
                             /\ Running' = Running \cup {s}
  <2>1. PICK s \in Queued : /\ s \notin Running /\ Queued' = Queued \ {s}
                            /\ Running' = Running \cup {s}
    BY <1>3
  <2>2. s \in Requests /\ s \in Lifecycle!In("waiting")
    BY <2>1, StagesMapped, LiveAreRequests
  <2>. DEFINE st == IF InPrefill(s) THEN "prefill" ELSE "decode"
  <2>3. stageMap' = [stageMap EXCEPT ![s] = st]
    BY <1>1, <2>1, <2>2 DEF stageMap, StageOf, InPrefill
  <2>4. Lifecycle!Cardinality(Lifecycle!In("prefill") \cup Lifecycle!In("decode"))
          < total_batch_size
    <3>1. Lifecycle!In("prefill") \cup Lifecycle!In("decode") = Running
      BY StagesMapped
    <3>2. BatchSize \in Nat /\ total_batch_size \in Nat
      BY BatchSizeNat, ConfigAssumption
    <3>. QED  BY <3>1, <3>2, SameCardinality DEF RoomBounded, Place, BatchSize
  <2>. QED  BY <2>2, <2>3, <2>4 DEF Lifecycle!Admit, stageMap
<1>. QED  BY <1>1, <1>2, <1>3, PlaceMovesOne DEF Place

(* An iteration finishes prompts or decodes, never both: while a prompt is *)
(* unfinished decodes have no tokens, and one without tokens is not at its *)
(* end.                                                                    *)
LEMMA UpdateRefines ==
  ASSUME RefineInv, UpdateScheduler
  PROVE  \/ Lifecycle!FinishPrompts \/ Lifecycle!FinishDecodes
         \/ stageMap' = stageMap
<1>. USE DEF RefineInv, LengthInv, HomeInv, TypeInv, TypeOK
<1>. DEFINE C == Completed(Running)
            P == Lifecycle!In("prefill")
            D == Lifecycle!In("decode")
<1>1. /\ Queued' = Queued /\ Running' = Running \ C /\ C \subseteq Running
      /\ \A s \in Requests \ C :
           /\ input_len'[s] = input_len[s]
           /\ s \in Running => current_len'[s] = LenAfter(s)
      /\ \A s \in Queued : s \notin Running
      /\ Queued \subseteq Requests /\ Running \subseteq Requests
  BY UpdateMoves, LiveAreRequests DEF UpdateScheduler, Completed
<1>2. /\ P = {s \in Running : InPrefill(s)}
      /\ D = {s \in Running : ~InPrefill(s)}
  BY StagesMapped
<1>3. \A s \in Requests :
        StageOf(s)' = IF s \in C THEN "free"
                      ELSE IF s \in P /\ LenAfter(s) >= input_len[s] THEN "decode"
                      ELSE StageOf(s)
  <2>. SUFFICES ASSUME NEW s \in Requests
                PROVE  StageOf(s)' = IF s \in C THEN "free"
                                     ELSE IF s \in P /\ LenAfter(s) >= input_len[s]
                                          THEN "decode"
                                     ELSE StageOf(s)
    OBVIOUS
  <2>1. CASE s \in C
    BY <1>1, <2>1 DEF StageOf
  <2>2. CASE s \notin C /\ s \notin Running
    BY <1>1, <1>2, <2>2 DEF StageOf
  <2>3. CASE s \notin C /\ s \in Running
    <3>1. /\ s \in Running' /\ s \notin Queued /\ s \notin Queued'
          /\ input_len'[s] = input_len[s] /\ current_len'[s] = LenAfter(s)
      BY <1>1, <2>3
    <3>2. /\ current_len[s] \in Nat /\ num_process_token[s] \in Nat
          /\ input_len[s] \in Nat
      BY DEF SchedulerTypeOK
    <3>. QED  BY <1>2, <2>3, <3>1, <3>2 DEF StageOf, InPrefill, LenAfter
  <2>. QED  BY <2>1, <2>2, <2>3
<1>. HIDE DEF C
<1>4. CASE P # {}
  <2>. DEFINE S == {s \in P : s \in C \/ LenAfter(s) >= input_len[s]}
              T == P \cap C
  <2>1. C \subseteq P
    <3>. SUFFICES ASSUME NEW s \in C, s \notin P
                  PROVE  FALSE
      OBVIOUS
    <3>1. s \in Running /\ ~InPrefill(s)
      BY <1>1, <1>2
    <3>2. num_process_token[s] = 0
      BY <1>2, <1>4, <3>1 DEF TokensSpent, OnePhasePerIteration, UpdateScheduler
    <3>3. current_len[s] < total_len[s] /\ LenAfter(s) = total_len[s]
      BY <3>1 DEF LengthsOK, RunningOK, C, Completed
    <3>4. current_len[s] \in Nat /\ total_len[s] \in Nat
      BY <1>1 DEF SchedulerTypeOK
    <3>. QED  BY <3>2, <3>3, <3>4 DEF LenAfter
  <2>2. stageMap' = [s \in Requests |-> IF s \in T THEN "free"
                                        ELSE IF s \in S THEN "decode"
                                        ELSE stageMap[s]]
    BY <1>3, <2>1 DEF stageMap
  <2>3. CASE S = {}
    BY <2>2, <2>3 DEF stageMap
  <2>4. CASE S # {}
    <3>1. S \in SUBSET P /\ T \in SUBSET S
      OBVIOUS
    <3>2. Lifecycle!FinishPrompts
      BY <2>2, <2>4, <3>1 DEF Lifecycle!FinishPrompts, stageMap
    <3>. QED  BY <3>2
  <2>. QED  BY <2>3, <2>4
<1>5. CASE P = {}
  <2>1. C \in SUBSET D
    BY <1>1, <1>2, <1>5
  <2>2. stageMap' = [s \in Requests |-> IF s \in C THEN "free" ELSE stageMap[s]]
    BY <1>3, <1>5 DEF stageMap
  <2>3. CASE C = {}
    BY <2>2, <2>3 DEF stageMap
  <2>4. CASE C # {}
    BY <1>5, <2>1, <2>2, <2>4 DEF Lifecycle!FinishDecodes, stageMap
  <2>. QED  BY <2>3, <2>4
<1>. QED  BY <1>4, <1>5

LEMMA NextRefines ==
  ASSUME RefineInv, [Next]_vars
  PROVE  Lifecycle!Next \/ stageMap' = stageMap
<1>1. CASE \/ FillSequenceQueue \/ FillRunningQueue \/ SetMetadata \/ Idle
           \/ UNCHANGED vars
  <2>1. UNCHANGED <<sequence_queue, running_queue, input_len, current_len>>
    BY <1>1 DEF FillSequenceQueue, FillRunningQueue, SetMetadata, Idle, vars,
                schedulerVars, lengthVars
  <2>. QED  BY <2>1 DEF stageMap, StageOf, Queued, Running, InPrefill
<1>. QED  BY <1>1, PushRefines, PlaceRefines, UpdateRefines
          DEF Next, Lifecycle!Next

(* ImplementsLifecycle: without lengths, ranks and budgets the loop is the *)
(* life cycle of requests, with prompts before decodes and never more      *)
(* requests in the batches than total_batch_size, when no request arrives  *)
(* as long as it will ever get.                                            *)
THEOREM LoopImplementsLifecycle ==
  ASSUME ArrivesUnfinished
  PROVE  Spec => ImplementsLifecycle
<1>1. Init => RefineInv
  BY InitPhase, InitLengths
     DEF Init, PhaseInv, LengthInv, RefineInv, RoomBounded
<1>2. RefineInv /\ [Next]_vars => RefineInv'
  BY NextTypeInv, NextOneHome, NextLengths, NextTokens, NextRoom
     DEF HomeInv, PhaseInv, LengthInv, RefineInv
<1>3. Init => Lifecycle!Init
  BY InitRefines
<1>4. RefineInv /\ [Next]_vars => [Lifecycle!Next]_stageMap
  BY NextRefines
<1>. QED  BY <1>1, <1>2, <1>3, <1>4, PTL
          DEF Spec, ImplementsLifecycle, Lifecycle!Spec, stageMap
=============================================================================
