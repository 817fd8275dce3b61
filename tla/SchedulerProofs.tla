--------------------------- MODULE SchedulerProofs ---------------------------
(***************************************************************************)
(* Lemmas about the methods of class Scheduler, for every configuration    *)
(* allowed by ConfigAssumption.  Each method is shown to preserve          *)
(*   SchedulerTypeOK   the types,                                          *)
(*   OneHome           a request is in one container, once,                *)
(*   LengthsOK         the lengths of live requests are in order,          *)
(*   RecordsOK         first tokens are on record when the prompt is done. *)
(* LengthsOK is the inductive form of NoOvershoot and RecordsOK that of    *)
(* FirstTokenReported: they add what a request brings with it from the     *)
(* queue.  The serving loops use these lemmas, one per action.             *)
(***************************************************************************)
EXTENDS Scheduler, FiniteSetTheorems, SequenceTheorems, TLAPS

(* A live request has work left and keeps its prompt within its total; one *)
(* in the queue has been given no tokens yet.                              *)
QueuedOK(s) ==
  /\ current_len[s] < total_len[s]
  /\ input_len[s] <= total_len[s]
  /\ num_process_token[s] = 0

RunningOK(s) ==
  /\ current_len[s] < total_len[s]
  /\ input_len[s] <= total_len[s]
  /\ LenAfter(s) <= total_len[s]
  /\ InPrefill(s) => LenAfter(s) <= input_len[s]

LengthsOK ==
  /\ \A s \in Queued : QueuedOK(s)
  /\ \A s \in Running : RunningOK(s)

(* A request that waits brings a prompt with it and is not on record.      *)
RecordsOK ==
  /\ \A s \in Queued : record[s] = FALSE /\ InPrefill(s)
  /\ \A s \in Running : record[s] <=> ~InPrefill(s)
-----------------------------------------------------------------------------
(* Numbers.                                                                *)

LEMMA MinOfNat ==
  ASSUME NEW a \in Nat, NEW b \in Nat
  PROVE  MinOf(a, b) \in Nat /\ MinOf(a, b) <= a /\ MinOf(a, b) <= b
BY DEF MinOf

LEMMA DivNat ==
  ASSUME NEW a \in Nat, NEW b \in Nat \ {0}
  PROVE  a \div b \in Nat
BY SMT

LEMMA RankAfterType ==
  ASSUME rotate \in Ranks, NEW k \in 0 .. dp_degree
  PROVE  RankAfter(k) \in Ranks
BY ConfigAssumption, SMT DEF RankAfter, Ranks
-----------------------------------------------------------------------------
(* Requests in the queue and in the batches.                               *)

LEMMA LiveAreRequests ==
  ASSUME SchedulerTypeOK
  PROVE  Queued \subseteq Requests /\ Running \subseteq Requests
<1>1. Queued \subseteq Requests
  BY ElementOfSeq DEF SchedulerTypeOK, Queued
<1>2. Running \subseteq Requests
  BY DEF SchedulerTypeOK, Running
<1>. QED  BY <1>1, <1>2

LEMMA RankOfIsHome ==
  ASSUME NEW s \in Running
  PROVE  RankOf(s) \in Ranks /\ s \in running_queue[RankOf(s)]
<1>1. \E r \in Ranks : s \in running_queue[r]
  BY DEF Running
<1>. QED  BY <1>1 DEF RankOf

(* getBatchSize is a number.                                               *)
LEMMA BatchSizeNat ==
  ASSUME SchedulerTypeOK
  PROVE  BatchSize \in Nat
<1>1. IsFiniteSet(Running)
  BY ConfigAssumption, LiveAreRequests, FS_Subset
<1>. QED  BY <1>1, FS_CardinalityType DEF BatchSize

(* setMetadata gives a prompt at least nothing and at most the rest of it. *)
LEMMA PrefillTokensBound ==
  ASSUME SchedulerTypeOK, NEW s \in Running, InPrefill(s)
  PROVE  /\ PrefillTokens(RankOf(s), s) \in Nat
         /\ current_len[s] + PrefillTokens(RankOf(s), s) <= input_len[s]
<1>. DEFINE r == RankOf(s)
<1>1. r \in Ranks /\ s \in SumSeqs(r)
  BY RankOfIsHome DEF SumSeqs
<1>2. IsFiniteSet(SumSeqs(r))
  <2>1. SumSeqs(r) \in SUBSET Requests
    BY <1>1 DEF SumSeqs, SchedulerTypeOK
  <2>. QED  BY <2>1, ConfigAssumption, FS_Subset
<1>3. Cardinality(SumSeqs(r)) \in Nat \ {0}
  BY <1>1, <1>2, FS_CardinalityType, FS_EmptySet
<1>4. PrefillShare(r) \in Nat
  BY <1>3, DivNat, ConfigAssumption DEF PrefillShare
<1>5. s \in Requests
  BY LiveAreRequests
<1>6. input_len[s] - current_len[s] \in Nat
  BY <1>5 DEF InPrefill, SchedulerTypeOK
<1>7. /\ PrefillTokens(r, s) \in Nat
      /\ PrefillTokens(r, s) <= input_len[s] - current_len[s]
  BY <1>4, <1>6, MinOfNat DEF PrefillTokens
<1>8. current_len[s] \in Nat /\ input_len[s] \in Nat
  BY <1>5 DEF SchedulerTypeOK
<1>. QED  BY <1>7, <1>8

(* The lengths a new request gets.                                         *)
LEMMA NewLengths ==
  ASSUME NEW l \in RequestLengths
  PROVE  /\ NewInput(l) \in Nat
         /\ NewTotal(l) \in Nat
         /\ NewCurrent(l) \in Nat
         /\ NewInput(l) <= NewTotal(l)
<1>1. l[1] \in Nat \ {0} /\ l[2] \in Nat \ {0}
  BY ConfigAssumption
<1>2. CutOutput(l) \in Nat \ {0} \/ real_data
  BY <1>1, ConfigAssumption DEF CutOutput
<1>3. NewTotal(l) \in Nat /\ l[1] <= NewTotal(l)
  BY <1>1, <1>2 DEF NewTotal
<1>4. NewCurrent(l) \in Nat
  <2>1. l[1] * reuse_kv_percent \in Nat
    BY <1>1, ConfigAssumption
  <2>2. (l[1] * reuse_kv_percent) \div 100 \in Nat
    BY <2>1, DivNat
  <2>. QED  BY <1>1, <2>2 DEF NewCurrent
<1>. QED  BY <1>1, <1>3, <1>4 DEF NewInput
-----------------------------------------------------------------------------
(* The new request of PushSequence, and the queue with it at its end.      *)
LEMMA PushedRequest ==
  ASSUME SchedulerTypeOK, Free # {}
  PROVE  LET s == CHOOSE q \in Free : TRUE
         IN  s \in Requests /\ s \notin Queued /\ s \notin Running
BY DEF Free

LEMMA QueuedAfterAppend ==
  ASSUME SchedulerTypeOK, NEW s \in Requests,
         sequence_queue' = Append(sequence_queue, s)
  PROVE  /\ sequence_queue' \in Seq(Requests)
         /\ Len(sequence_queue') = Len(sequence_queue) + 1
         /\ \A i \in 1 .. Len(sequence_queue) :
              sequence_queue'[i] = sequence_queue[i]
         /\ sequence_queue'[Len(sequence_queue) + 1] = s
         /\ Queued' = Queued \cup {s}
<1>1. sequence_queue \in Seq(Requests) /\ Len(sequence_queue) \in Nat
  BY LenProperties DEF SchedulerTypeOK
<1>2. /\ sequence_queue' \in Seq(Requests)
      /\ Len(sequence_queue') = Len(sequence_queue) + 1
      /\ \A i \in 1 .. Len(sequence_queue) :
           sequence_queue'[i] = sequence_queue[i]
      /\ sequence_queue'[Len(sequence_queue) + 1] = s
  BY <1>1, AppendProperties
<1>3. Queued' = {sequence_queue'[i] : i \in 1 .. Len(sequence_queue) + 1}
  BY <1>2 DEF Queued
<1>4. 1 .. Len(sequence_queue) + 1
        = (1 .. Len(sequence_queue)) \cup {Len(sequence_queue) + 1}
  BY <1>1
<1>5. Queued' = {sequence_queue'[i] : i \in 1 .. Len(sequence_queue)}
                  \cup {sequence_queue'[Len(sequence_queue) + 1]}
  BY <1>3, <1>4
<1>6. {sequence_queue'[i] : i \in 1 .. Len(sequence_queue)} = Queued
  BY <1>2 DEF Queued
<1>. QED  BY <1>2, <1>5, <1>6

(* The queue without its head.                                             *)
LEMMA QueuedAfterTail ==
  ASSUME SchedulerTypeOK, sequence_queue # << >>,
         sequence_queue' = Tail(sequence_queue)
  PROVE  /\ sequence_queue' \in Seq(Requests)
         /\ Len(sequence_queue') = Len(sequence_queue) - 1
         /\ \A i \in 1 .. Len(sequence_queue') :
              sequence_queue'[i] = sequence_queue[i + 1]
         /\ Queued' \subseteq Queued
         /\ Head(sequence_queue) \in Queued
         /\ Head(sequence_queue) = sequence_queue[1]
<1>1. sequence_queue \in Seq(Requests) /\ Len(sequence_queue) \in Nat \ {0}
  BY EmptySeq DEF SchedulerTypeOK
<1>2. /\ sequence_queue' \in Seq(Requests)
      /\ Len(sequence_queue') = Len(sequence_queue) - 1
      /\ \A i \in 1 .. Len(sequence_queue') :
           sequence_queue'[i] = sequence_queue[i + 1]
  BY <1>1, HeadTailProperties
<1>3. Queued' \subseteq Queued
  <2>1. SUFFICES ASSUME NEW i \in 1 .. Len(sequence_queue')
                 PROVE  sequence_queue'[i] \in Queued
    BY DEF Queued
  <2>2. i + 1 \in 1 .. Len(sequence_queue)
    BY <1>1, <1>2
  <2>. QED  BY <1>2, <2>2 DEF Queued
<1>4. Head(sequence_queue) = sequence_queue[1]
  BY <1>1
<1>5. Head(sequence_queue) \in Queued
  BY <1>1, <1>4 DEF Queued
<1>. QED  BY <1>2, <1>3, <1>4, <1>5
-----------------------------------------------------------------------------
(* What each method does to the set of live requests.                      *)

(* pushSeq: one new request in the queue, the others as they were.         *)
LEMMA PushMoves ==
  ASSUME SchedulerTypeOK, PushSequence
  PROVE  \E s \in Requests, l \in RequestLengths :
           /\ s \notin Queued /\ s \notin Running
           /\ Queued' = Queued \cup {s} /\ Running' = Running
           /\ input_len' = [input_len EXCEPT ![s] = NewInput(l)]
           /\ total_len' = [total_len EXCEPT ![s] = NewTotal(l)]
           /\ current_len' = [current_len EXCEPT ![s] = NewCurrent(l)]
           /\ num_process_token' = [num_process_token EXCEPT ![s] = 0]
           /\ record' = [record EXCEPT ![s] = FALSE]
<1>1. PICK s \in Requests, l \in RequestLengths :
        /\ s = CHOOSE q \in Free : TRUE
        /\ sequence_queue' = Append(sequence_queue, s)
        /\ input_len' = [input_len EXCEPT ![s] = NewInput(l)]
        /\ total_len' = [total_len EXCEPT ![s] = NewTotal(l)]
        /\ current_len' = [current_len EXCEPT ![s] = NewCurrent(l)]
        /\ num_process_token' = [num_process_token EXCEPT ![s] = 0]
        /\ record' = [record EXCEPT ![s] = FALSE]
        /\ running_queue' = running_queue
  BY PushedRequest DEF PushSequence
<1>2. s \notin Queued /\ s \notin Running
  BY <1>1, PushedRequest DEF PushSequence
<1>3. Queued' = Queued \cup {s}
  BY <1>1, QueuedAfterAppend, Zenon
<1>4. Running' = Running
  BY <1>1, Zenon DEF Running
<1>. QED  BY <1>1, <1>2, <1>3, <1>4, Zenon

(* fillRunningQueue, one attempt: only a queued request may enter a batch. *)
LEMMA PlaceMoves ==
  ASSUME SchedulerTypeOK, PlaceHead, sequence_queue # << >>
  PROVE  /\ Queued' \subseteq Queued
         /\ Running' \subseteq Running \cup Queued
         /\ Len(sequence_queue') >= Len(sequence_queue) - 1
         /\ UNCHANGED <<input_len, total_len, current_len, num_process_token,
                        record>>
<1>0. Len(sequence_queue) \in Nat
  BY LenProperties DEF SchedulerTypeOK
<1>1. CASE UNCHANGED schedulerVars
  BY <1>0, <1>1 DEF Queued, Running, schedulerVars
<1>2. CASE ~ UNCHANGED schedulerVars
  <2>1. PICK k \in 0 .. dp_degree - 1 :
             /\ running_queue' = [running_queue EXCEPT ![RankAfter(k)] =
                                    @ \cup {Head(sequence_queue)}]
             /\ sequence_queue' = Tail(sequence_queue)
             /\ UNCHANGED <<lengthVars, current_len, num_process_token, record>>
    BY <1>2 DEF PlaceHead, Offer
  <2>2. /\ Queued' \subseteq Queued /\ Head(sequence_queue) \in Queued
        /\ Len(sequence_queue') = Len(sequence_queue) - 1
    BY <2>1, QueuedAfterTail
  <2>3. Running' \subseteq Running \cup {Head(sequence_queue)}
    BY <2>1 DEF Running, SchedulerTypeOK
  <2>. QED  BY <1>0, <2>1, <2>2, <2>3 DEF lengthVars
<1>. QED  BY <1>1, <1>2

(* The same attempt, when every request has one home: nothing changes, or  *)
(* one request goes from the queue to a batch.                             *)
LEMMA PlaceMovesOne ==
  ASSUME SchedulerTypeOK, OneHome, PlaceHead, sequence_queue # << >>
  PROVE  \/ Queued' = Queued /\ Running' = Running
         \/ \E s \in Queued : /\ s \notin Running
                              /\ Queued' = Queued \ {s}
                              /\ Running' = Running \cup {s}
<1>1. CASE UNCHANGED schedulerVars
  BY <1>1 DEF Queued, Running, schedulerVars
<1>2. CASE ~ UNCHANGED schedulerVars
  <2>. DEFINE s == Head(sequence_queue)
              n == Len(sequence_queue)
  <2>1. PICK k \in 0 .. dp_degree - 1 :
             /\ running_queue' = [running_queue EXCEPT ![RankAfter(k)] = @ \cup {s}]
             /\ sequence_queue' = Tail(sequence_queue)
    BY <1>2 DEF PlaceHead, Offer
  <2>2. /\ n \in Nat /\ n # 0 /\ Len(sequence_queue') = n - 1
        /\ \A i \in 1 .. n - 1 : sequence_queue'[i] = sequence_queue[i + 1]
        /\ s \in Queued /\ s = sequence_queue[1]
    BY <2>1, QueuedAfterTail, LenProperties, EmptySeq DEF SchedulerTypeOK
  <2>3. s \notin Running
    BY <2>2 DEF OneHome, Running
  <2>4. RankAfter(k) \in Ranks
    <3>1. k \in 0 .. dp_degree
      BY ConfigAssumption
    <3>. QED  BY <3>1, RankAfterType DEF SchedulerTypeOK
  <2>5. Running' = Running \cup {s}
    <3>. HIDE DEF s
    <3>1. \A r \in Ranks : running_queue'[r] = IF r = RankAfter(k)
                                               THEN running_queue[r] \cup {s}
                                               ELSE running_queue[r]
      BY <2>1 DEF SchedulerTypeOK
    <3>2. s \in Running'
      BY <2>4, <3>1 DEF Running
    <3>3. ASSUME NEW q \in Running'
          PROVE  q \in Running \cup {s}
      <4>1. PICK r \in Ranks : q \in running_queue'[r]
        BY DEF Running
      <4>2. q \in running_queue[r] \cup {s}
        BY <3>1, <4>1
      <4>. QED  BY <4>2 DEF Running
    <3>4. ASSUME NEW q \in Running
          PROVE  q \in Running'
      BY <3>1 DEF Running
    <3>. QED  BY <3>2, <3>3, <3>4
  <2>6. Queued' = Queued \ {s}
    <3>. HIDE DEF s
    <3>1. Queued' = {sequence_queue'[i] : i \in 1 .. n - 1}
      BY <2>2 DEF Queued
    <3>2. ASSUME NEW q \in Queued \ {s}
          PROVE  q \in Queued'
      <4>1. PICK i \in 1 .. n : q = sequence_queue[i]
        BY DEF Queued
      <4>2. i - 1 \in 1 .. n - 1 /\ (i - 1) + 1 = i
        BY <2>2, <4>1
      <4>. QED  BY <2>2, <3>1, <4>1, <4>2, ZenonT(60)
    <3>3. ASSUME NEW q \in Queued'
          PROVE  q \in Queued \ {s}
      <4>1. PICK i \in 1 .. n - 1 : q = sequence_queue[i + 1]
        BY <2>2, <3>1
      <4>2. i + 1 \in 1 .. n /\ 1 \in 1 .. n /\ i + 1 # 1
        BY <2>2
      <4>3. q # s
        BY <2>2, <4>1, <4>2 DEF OneHome
      <4>. QED  BY <4>1, <4>2, <4>3 DEF Queued
    <3>. QED  BY <3>2, <3>3
  <2>. QED  BY <2>2, <2>3, <2>5, <2>6
<1>. QED  BY <1>1, <1>2

(* The attempts fillRunningQueue makes.                                    *)
LEMMA NumEmptySeqBound ==
  ASSUME SchedulerTypeOK
  PROVE  /\ num_empty_seq \in Int
         /\ num_empty_seq <= Len(sequence_queue)
         /\ num_empty_seq <= total_batch_size - BatchSize
<1>1. BatchSize \in Nat /\ total_batch_size \in Nat
  BY BatchSizeNat, ConfigAssumption
<1>2. Len(sequence_queue) \in Nat
  BY LenProperties DEF SchedulerTypeOK
<1>. QED  BY <1>1, <1>2 DEF num_empty_seq, MinOf

(* updateScheduler: the completed requests leave, and what becomes of the  *)
(* others depends on whether they are updated.                             *)
LEMMA UpdateMoves ==
  ASSUME SchedulerTypeOK, OneHome, NEW S \in SUBSET Running, UpdateSequences(S)
  PROVE  /\ Queued' = Queued
         /\ Running' = Running \ Completed(S)
         /\ \A s \in Queued : s \in Requests /\ s \notin S
         /\ \A s \in Requests \ Completed(S) :
              /\ input_len'[s] = input_len[s] /\ total_len'[s] = total_len[s]
              /\ s \in S => /\ current_len'[s] = LenAfter(s)
                            /\ num_process_token'[s] = 0
              /\ s \notin S => /\ current_len'[s] = current_len[s]
                               /\ num_process_token'[s] = num_process_token[s]
              /\ record'[s] <=> record[s] \/ s \in FirstToken(S)
<1>1. Queued' = Queued
  BY DEF UpdateSequences, Queued
<1>2. Running' = Running \ Completed(S)
  BY DEF Running, UpdateSequences
<1>3. \A s \in Queued : s \in Requests /\ s \notin S
  BY LiveAreRequests DEF OneHome, Running
<1>4. ASSUME NEW s \in Requests \ Completed(S)
      PROVE  /\ input_len'[s] = input_len[s] /\ total_len'[s] = total_len[s]
             /\ s \in S => /\ current_len'[s] = LenAfter(s)
                           /\ num_process_token'[s] = 0
             /\ s \notin S => /\ current_len'[s] = current_len[s]
                              /\ num_process_token'[s] = num_process_token[s]
  BY <1>4 DEF UpdateSequences, TokensAfter, BlankIn
<1>5. ASSUME NEW s \in Requests \ Completed(S)
      PROVE  record'[s] <=> record[s] \/ s \in FirstToken(S)
  BY <1>5 DEF UpdateSequences
<1>. QED  BY <1>1, <1>2, <1>3, <1>4, <1>5
-----------------------------------------------------------------------------
(* Types.                                                                  *)

LEMMA InitType == SchedulerInit => SchedulerTypeOK
BY EmptySeq, ConfigAssumption DEF SchedulerInit, SchedulerTypeOK, Ranks

(* pushSeq *)
LEMMA PushSequenceType ==
  ASSUME SchedulerTypeOK, PushSequence
  PROVE  SchedulerTypeOK'
<1>. DEFINE s == CHOOSE q \in Free : TRUE
<1>1. PICK l \in RequestLengths :
        /\ sequence_queue' = Append(sequence_queue, s)
        /\ input_len' = [input_len EXCEPT ![s] = NewInput(l)]
        /\ total_len' = [total_len EXCEPT ![s] = NewTotal(l)]
        /\ current_len' = [current_len EXCEPT ![s] = NewCurrent(l)]
        /\ num_process_token' = [num_process_token EXCEPT ![s] = 0]
        /\ record' = [record EXCEPT ![s] = FALSE]
        /\ UNCHANGED <<running_queue, rotate>>
  BY DEF PushSequence
<1>2. s \in Requests
  BY PushedRequest DEF PushSequence
<1>3. sequence_queue' \in Seq(Requests)
  BY <1>1, <1>2, QueuedAfterAppend
<1>4. input_len' \in [Requests -> Nat] /\ total_len' \in [Requests -> Nat]
  BY <1>1, NewLengths DEF SchedulerTypeOK
<1>5. current_len' \in [Requests -> Nat]
  BY <1>1, NewLengths DEF SchedulerTypeOK
<1>6. num_process_token' \in [Requests -> Nat]
  BY <1>1 DEF SchedulerTypeOK
<1>7. record' \in [Requests -> BOOLEAN]
  BY <1>1 DEF SchedulerTypeOK
<1>8. running_queue' \in [Ranks -> SUBSET Requests] /\ rotate' \in Ranks
  BY <1>1 DEF SchedulerTypeOK
<1>. QED  BY <1>3, <1>4, <1>5, <1>6, <1>7, <1>8 DEF SchedulerTypeOK

(* fillRunningQueue, one attempt *)
LEMMA PlaceHeadType ==
  ASSUME SchedulerTypeOK, PlaceHead, sequence_queue # << >>
  PROVE  SchedulerTypeOK'
<1>1. CASE UNCHANGED schedulerVars
  BY <1>1 DEF SchedulerTypeOK, schedulerVars
<1>2. CASE ~ UNCHANGED schedulerVars
  <2>1. PICK k \in 0 .. dp_degree - 1 :
             /\ running_queue' = [running_queue EXCEPT ![RankAfter(k)] =
                                    @ \cup {Head(sequence_queue)}]
             /\ sequence_queue' = Tail(sequence_queue)
             /\ rotate' = RankAfter(k + 1)
             /\ UNCHANGED <<lengthVars, current_len, num_process_token, record>>
    BY <1>2 DEF PlaceHead, Offer
  <2>2. rotate' \in Ranks
    <3>1. k + 1 \in 0 .. dp_degree
      BY ConfigAssumption
    <3>. QED  BY <2>1, <3>1, RankAfterType DEF SchedulerTypeOK
  <2>3. sequence_queue' \in Seq(Requests) /\ Head(sequence_queue) \in Requests
    BY <2>1, QueuedAfterTail, LiveAreRequests
  <2>4. running_queue' \in [Ranks -> SUBSET Requests]
    BY <2>1, <2>3 DEF SchedulerTypeOK
  <2>. QED  BY <2>1, <2>2, <2>3, <2>4 DEF SchedulerTypeOK, lengthVars
<1>. QED  BY <1>1, <1>2 DEF PlaceHead, Offer

(* setMetadata *)
LEMMA SetTokensType ==
  ASSUME SchedulerTypeOK, NEW ps \in BOOLEAN, NEW pg \in BOOLEAN, NEW E,
         SetTokens(ps, pg, E)
  PROVE  num_process_token' \in [Requests -> Nat]
<1>1. SUFFICES ASSUME NEW s \in Requests
               PROVE  num_process_token'[s] \in Nat
  BY DEF SetTokens
<1>2. s \in Running /\ InPrefill(s) => PrefillTokens(RankOf(s), s) \in Nat
  BY PrefillTokensBound
<1>. QED  BY <1>2 DEF SetTokens, SchedulerTypeOK

(* updateScheduler *)
LEMMA UpdateSequencesType ==
  ASSUME SchedulerTypeOK, NEW S, UpdateSequences(S)
  PROVE  SchedulerTypeOK'
<1>1. /\ current_len' \in [Requests -> Nat]
      /\ num_process_token' \in [Requests -> Nat]
  BY DEF UpdateSequences, TokensAfter, SchedulerTypeOK, LenAfter
<1>2. input_len' \in [Requests -> Nat] /\ total_len' \in [Requests -> Nat]
  BY DEF UpdateSequences, SchedulerTypeOK, BlankIn
<1>3. record' \in [Requests -> BOOLEAN]
  BY DEF UpdateSequences, SchedulerTypeOK
<1>4. running_queue' \in [Ranks -> SUBSET Requests]
  BY DEF UpdateSequences, SchedulerTypeOK
<1>. QED  BY <1>1, <1>2, <1>3, <1>4 DEF UpdateSequences, SchedulerTypeOK
-----------------------------------------------------------------------------
(* A request is in one container, once.                                    *)

LEMMA InitOneHome == SchedulerInit => OneHome
<1>. SUFFICES ASSUME SchedulerInit PROVE OneHome
  OBVIOUS
<1>1. sequence_queue = << >> /\ \A r \in Ranks : running_queue[r] = {}
  BY DEF SchedulerInit
<1>2. Len(sequence_queue) = 0
  BY <1>1
<1>. QED  BY <1>1, <1>2 DEF OneHome

(* A new request is in no container yet, and goes to the end of the queue. *)
LEMMA PushSequenceOneHome ==
  ASSUME SchedulerTypeOK, OneHome, PushSequence
  PROVE  OneHome'
<1>. DEFINE s == CHOOSE q \in Free : TRUE
             n == Len(sequence_queue)
<1>1. /\ sequence_queue' = Append(sequence_queue, s)
      /\ running_queue' = running_queue
  BY DEF PushSequence
<1>2. s \in Requests /\ s \notin Queued /\ s \notin Running
  BY PushedRequest DEF PushSequence
<1>. HIDE DEF s
<1>3. /\ Len(sequence_queue') = n + 1
      /\ \A i \in 1 .. n : sequence_queue'[i] = sequence_queue[i]
      /\ sequence_queue'[n + 1] = s
      /\ Queued' = Queued \cup {s}
  BY <1>1, <1>2, QueuedAfterAppend
<1>4. n \in Nat
  BY LenProperties DEF SchedulerTypeOK
<1>5. ASSUME NEW i \in 1 .. n + 1, NEW j \in 1 .. n + 1, i # j
      PROVE  sequence_queue'[i] # sequence_queue'[j]
  <2>1. \A k \in 1 .. n : sequence_queue'[k] \in Queued
    BY <1>3 DEF Queued
  <2>2. CASE i \in 1 .. n /\ j \in 1 .. n
    BY <1>3, <1>5, <2>2 DEF OneHome
  <2>3. CASE i = n + 1
    <3>1. j \in 1 .. n
      BY <1>4, <1>5, <2>3
    <3>. QED  BY <1>2, <1>3, <2>1, <2>3, <3>1
  <2>4. CASE j = n + 1
    <3>1. i \in 1 .. n
      BY <1>4, <1>5, <2>4
    <3>. QED  BY <1>2, <1>3, <2>1, <2>4, <3>1
  <2>. QED  BY <1>4, <2>2, <2>3, <2>4
<1>6. \A r \in Ranks : running_queue'[r] \cap Queued' = {}
  BY <1>1, <1>2, <1>3 DEF OneHome, Running
<1>. QED  BY <1>1, <1>3, <1>5, <1>6 DEF OneHome

(* The head of the queue leaves it for one batch.                          *)
LEMMA PlaceHeadOneHome ==
  ASSUME SchedulerTypeOK, OneHome, PlaceHead, sequence_queue # << >>
  PROVE  OneHome'
<1>1. CASE UNCHANGED schedulerVars
  BY <1>1 DEF OneHome, Queued, schedulerVars
<1>2. CASE ~ UNCHANGED schedulerVars
  <2>1. PICK k \in 0 .. dp_degree - 1 :
             /\ running_queue' = [running_queue EXCEPT ![RankAfter(k)] =
                                    @ \cup {Head(sequence_queue)}]
             /\ sequence_queue' = Tail(sequence_queue)
    BY <1>2 DEF PlaceHead, Offer
  <2>. DEFINE n == Len(sequence_queue)
              h == Head(sequence_queue)
  <2>2. /\ Len(sequence_queue') = n - 1
        /\ \A i \in 1 .. n - 1 : sequence_queue'[i] = sequence_queue[i + 1]
        /\ Queued' \subseteq Queued
        /\ h \in Queued
        /\ h = sequence_queue[1]
    BY <2>1, QueuedAfterTail
  <2>3. n \in Nat \ {0}
    BY EmptySeq DEF SchedulerTypeOK
  <2>4. \A i, j \in 1 .. n - 1 :
          i # j => sequence_queue'[i] # sequence_queue'[j]
    <3>1. SUFFICES ASSUME NEW i \in 1 .. n - 1, NEW j \in 1 .. n - 1, i # j
                   PROVE  sequence_queue[i + 1] # sequence_queue[j + 1]
      BY <2>2
    <3>2. i + 1 \in 1 .. n /\ j + 1 \in 1 .. n /\ i + 1 # j + 1
      BY <2>3, <3>1
    <3>. QED  BY <3>2 DEF OneHome
  <2>5. h \notin Queued'
    <3>1. SUFFICES ASSUME NEW i \in 1 .. n - 1
                   PROVE  sequence_queue[i + 1] # h
      BY <2>2 DEF Queued
    <3>2. i + 1 \in 1 .. n /\ 1 \in 1 .. n /\ i + 1 # 1
      BY <2>3
    <3>. QED  BY <2>2, <3>2 DEF OneHome
  <2>6. \A r \in Ranks : h \notin running_queue[r]
    BY <2>2 DEF OneHome
  <2>7. \A r \in Ranks : running_queue'[r] =
          IF r = RankAfter(k) THEN running_queue[r] \cup {h}
                              ELSE running_queue[r]
    BY <2>1 DEF SchedulerTypeOK
  <2>8. ASSUME NEW r \in Ranks
        PROVE  running_queue'[r] \cap Queued' = {}
    <3>1. running_queue'[r] \subseteq running_queue[r] \cup {h}
      BY <2>7
    <3>2. running_queue[r] \cap Queued = {}
      BY DEF OneHome
    <3>. QED  BY <2>2, <2>5, <3>1, <3>2
  <2>9. \A r1, r2 \in Ranks :
          r1 # r2 => running_queue'[r1] \cap running_queue'[r2] = {}
    <3>1. SUFFICES ASSUME NEW r1 \in Ranks, NEW r2 \in Ranks, r1 # r2
                   PROVE  running_queue'[r1] \cap running_queue'[r2] = {}
      OBVIOUS
    <3>2. running_queue[r1] \cap running_queue[r2] = {}
      BY <3>1 DEF OneHome
    <3>. QED  BY <2>6, <2>7, <3>1, <3>2
  <2>. QED  BY <2>2, <2>4, <2>8, <2>9 DEF OneHome
<1>. QED  BY <1>1, <1>2

(* updateScheduler only takes requests out of batches.                     *)
LEMMA UpdateSequencesOneHome ==
  ASSUME SchedulerTypeOK, OneHome, NEW S, UpdateSequences(S)
  PROVE  OneHome'
<1>1. /\ sequence_queue' = sequence_queue
      /\ Queued' = Queued
      /\ \A r \in Ranks : running_queue'[r] \subseteq running_queue[r]
  BY DEF UpdateSequences, Queued
<1>. QED  BY <1>1 DEF OneHome
-----------------------------------------------------------------------------
(* Lengths.                                                                *)

LEMMA InitLengths == SchedulerInit => LengthsOK
<1>. SUFFICES ASSUME SchedulerInit PROVE LengthsOK
  OBVIOUS
<1>1. Len(sequence_queue) = 0 /\ \A r \in Ranks : running_queue[r] = {}
  BY DEF SchedulerInit
<1>2. Queued = {} /\ Running = {}
  BY <1>1 DEF Queued, Running
<1>. QED  BY <1>2 DEF LengthsOK

(* A new request is given its lengths, the live ones keep theirs.          *)
LEMMA PushSequenceLengths ==
  ASSUME SchedulerTypeOK, LengthsOK, ArrivesUnfinished, PushSequence
  PROVE  LengthsOK'
<1>1. PICK s \in Requests, l \in RequestLengths :
        /\ s = CHOOSE q \in Free : TRUE
        /\ sequence_queue' = Append(sequence_queue, s)
        /\ input_len' = [input_len EXCEPT ![s] = NewInput(l)]
        /\ total_len' = [total_len EXCEPT ![s] = NewTotal(l)]
        /\ current_len' = [current_len EXCEPT ![s] = NewCurrent(l)]
        /\ num_process_token' = [num_process_token EXCEPT ![s] = 0]
        /\ running_queue' = running_queue
  BY PushedRequest DEF PushSequence
<1>2. s \in Requests /\ s \notin Queued /\ s \notin Running
  BY <1>1, PushedRequest DEF PushSequence
<1>3. Queued' = Queued \cup {s} /\ Running' = Running
  BY <1>1, <1>2, QueuedAfterAppend DEF Running
<1>4. QueuedOK(s)'
  BY <1>1, <1>2, NewLengths DEF QueuedOK, ArrivesUnfinished, SchedulerTypeOK
<1>5. ASSUME NEW t \in Requests, t # s
      PROVE  /\ input_len'[t] = input_len[t] /\ total_len'[t] = total_len[t]
             /\ current_len'[t] = current_len[t]
             /\ num_process_token'[t] = num_process_token[t]
  BY <1>1, <1>5 DEF SchedulerTypeOK
<1>6. \A t \in Queued : QueuedOK(t)'
  BY <1>2, <1>5, LiveAreRequests DEF LengthsOK, QueuedOK
<1>7. \A t \in Running : RunningOK(t)'
  BY <1>2, <1>5, LiveAreRequests DEF LengthsOK, RunningOK, LenAfter, InPrefill
<1>. QED  BY <1>3, <1>4, <1>6, <1>7 DEF LengthsOK

(* A request that has no tokens yet enters a batch in good order.          *)
LEMMA PlaceHeadLengths ==
  ASSUME SchedulerTypeOK, LengthsOK, PlaceHead, sequence_queue # << >>
  PROVE  LengthsOK'
<1>1. CASE UNCHANGED schedulerVars
  BY <1>1 DEF LengthsOK, QueuedOK, RunningOK, LenAfter, InPrefill, Queued,
              Running, schedulerVars
<1>2. CASE ~ UNCHANGED schedulerVars
  <2>1. PICK k \in 0 .. dp_degree - 1 :
             /\ running_queue' = [running_queue EXCEPT ![RankAfter(k)] =
                                    @ \cup {Head(sequence_queue)}]
             /\ sequence_queue' = Tail(sequence_queue)
             /\ UNCHANGED <<lengthVars, current_len, num_process_token, record>>
    BY <1>2 DEF PlaceHead, Offer
  <2>. DEFINE h == Head(sequence_queue)
  <2>2. Queued' \subseteq Queued /\ h \in Queued
    BY <2>1, QueuedAfterTail
  <2>3. Running' \subseteq Running \cup {h}
    BY <2>1 DEF Running, SchedulerTypeOK
  <2>4. ASSUME NEW s
        PROVE  /\ QueuedOK(s)' <=> QueuedOK(s)
               /\ RunningOK(s)' <=> RunningOK(s)
    BY <2>1 DEF QueuedOK, RunningOK, LenAfter, InPrefill, lengthVars
  <2>5. RunningOK(h)
    <3>1. QueuedOK(h) /\ h \in Requests
      BY <2>2, LiveAreRequests DEF LengthsOK
    <3>. QED  BY <3>1 DEF QueuedOK, RunningOK, LenAfter, InPrefill,
                          SchedulerTypeOK
  <2>. QED  BY <2>2, <2>3, <2>4, <2>5 DEF LengthsOK
<1>. QED  BY <1>1, <1>2

(* setMetadata never gives a request more than is left of its prompt, or   *)
(* of its answer.                                                          *)
LEMMA SetTokensLengths ==
  ASSUME SchedulerTypeOK, OneHome, LengthsOK,
         NEW ps \in BOOLEAN, NEW pg \in BOOLEAN, NEW E,
         SetTokens(ps, pg, E),
         UNCHANGED <<sequence_queue, running_queue, lengthVars, current_len>>
  PROVE  LengthsOK'
<1>1. Queued' = Queued /\ Running' = Running
  BY DEF Queued, Running
<1>2. ASSUME NEW s \in Queued
      PROVE  QueuedOK(s)'
  <2>1. s \in Requests /\ s \notin Running
    BY LiveAreRequests DEF OneHome, Running
  <2>2. num_process_token'[s] = num_process_token[s]
    BY <2>1 DEF SetTokens
  <2>. QED  BY <2>2 DEF LengthsOK, QueuedOK, lengthVars
<1>3. ASSUME NEW s \in Running
      PROVE  RunningOK(s)'
  <2>1. /\ s \in Requests
        /\ current_len[s] \in Nat /\ input_len[s] \in Nat
        /\ total_len[s] \in Nat /\ num_process_token[s] \in Nat
    BY LiveAreRequests DEF SchedulerTypeOK
  <2>2. RunningOK(s)
    BY DEF LengthsOK
  <2>3. /\ current_len'[s] = current_len[s]
        /\ input_len'[s] = input_len[s]
        /\ total_len'[s] = total_len[s]
    BY DEF lengthVars
  <2>4. CASE InPrefill(s)
    <3>1. num_process_token'[s] \in {num_process_token[s],
                                     PrefillTokens(RankOf(s), s)}
      BY <2>1, <2>4 DEF SetTokens
    <3>2. current_len[s] + num_process_token'[s] <= input_len[s]
      <4>1. current_len[s] + num_process_token[s] <= input_len[s]
        BY <2>2, <2>4 DEF RunningOK, LenAfter
      <4>2. current_len[s] + PrefillTokens(RankOf(s), s) <= input_len[s]
        BY <2>4, PrefillTokensBound
      <4>. QED  BY <3>1, <4>1, <4>2
    <3>3. num_process_token'[s] \in Nat
      BY <2>1, SetTokensType
    <3>. QED  BY <2>1, <2>2, <2>3, <3>2, <3>3
              DEF RunningOK, LenAfter, InPrefill
  <2>5. CASE ~InPrefill(s)
    <3>1. num_process_token'[s] \in {num_process_token[s], 1}
      BY <2>1, <2>5 DEF SetTokens
    <3>. QED  BY <2>1, <2>2, <2>3, <2>5, <3>1
              DEF RunningOK, LenAfter, InPrefill
  <2>. QED  BY <2>4, <2>5
<1>. QED  BY <1>1, <1>2, <1>3 DEF LengthsOK

(* updateScheduler: a request that has reached its total leaves, so every  *)
(* request that stays has work left, and no tokens until they are set.     *)
LEMMA UpdateSequencesLengths ==
  ASSUME SchedulerTypeOK, OneHome, LengthsOK, NEW S \in SUBSET Running,
         UpdateSequences(S)
  PROVE  LengthsOK'
<1>1. Queued' = Queued
  BY DEF UpdateSequences, Queued
<1>2. ASSUME NEW s \in Running'
      PROVE  s \in Running /\ s \notin Completed(S)
  BY <1>2 DEF Running, UpdateSequences
<1>3. ASSUME NEW s \in Requests, s \notin Completed(S)
      PROVE  /\ input_len'[s] = input_len[s] /\ total_len'[s] = total_len[s]
             /\ s \in S => /\ current_len'[s] = LenAfter(s)
                           /\ num_process_token'[s] = 0
             /\ s \notin S => /\ current_len'[s] = current_len[s]
                              /\ num_process_token'[s] = num_process_token[s]
  BY <1>3 DEF UpdateSequences, TokensAfter, BlankIn
<1>4. ASSUME NEW s \in Queued
      PROVE  QueuedOK(s)'
  <2>1. s \in Requests /\ s \notin Running
    BY LiveAreRequests DEF OneHome, Running
  <2>2. s \notin S /\ s \notin Completed(S)
    BY <2>1 DEF Completed
  <2>. QED  BY <1>3, <2>1, <2>2 DEF LengthsOK, QueuedOK
<1>5. ASSUME NEW s \in Running'
      PROVE  RunningOK(s)'
  <2>1. s \in Running /\ s \notin Completed(S) /\ s \in Requests
    BY <1>2, LiveAreRequests
  <2>2. RunningOK(s)
    BY <2>1 DEF LengthsOK
  <2>3. /\ current_len[s] \in Nat /\ input_len[s] \in Nat
        /\ total_len[s] \in Nat /\ num_process_token[s] \in Nat
    BY <2>1 DEF SchedulerTypeOK
  <2>4. CASE s \in S
    <3>1. LenAfter(s) # total_len[s] /\ LenAfter(s) <= total_len[s]
      BY <2>1, <2>2, <2>4 DEF Completed, RunningOK
    <3>. QED  BY <1>3, <2>1, <2>2, <2>3, <2>4, <3>1
              DEF RunningOK, LenAfter, InPrefill
  <2>5. CASE s \notin S
    BY <1>3, <2>1, <2>2, <2>5 DEF RunningOK, LenAfter, InPrefill
  <2>. QED  BY <2>4, <2>5
<1>. QED  BY <1>1, <1>4, <1>5 DEF LengthsOK
-----------------------------------------------------------------------------
(* The report of first tokens.                                             *)

LEMMA PrefillIsUnfinished == ArrivesInPrefill => ArrivesUnfinished
<1>. SUFFICES ASSUME ArrivesInPrefill, NEW l \in RequestLengths
              PROVE  NewCurrent(l) < NewTotal(l)
  BY DEF ArrivesUnfinished
<1>1. NewCurrent(l) < NewInput(l)
  BY DEF ArrivesInPrefill
<1>. QED  BY <1>1, NewLengths

LEMMA InitRecords == SchedulerInit => RecordsOK
<1>. SUFFICES ASSUME SchedulerInit PROVE RecordsOK
  OBVIOUS
<1>1. Len(sequence_queue) = 0 /\ \A r \in Ranks : running_queue[r] = {}
  BY DEF SchedulerInit
<1>2. Queued = {} /\ Running = {}
  BY <1>1 DEF Queued, Running
<1>. QED  BY <1>2 DEF RecordsOK

LEMMA PushSequenceRecords ==
  ASSUME SchedulerTypeOK, ArrivesInPrefill, RecordsOK, PushSequence
  PROVE  RecordsOK'
<1>1. PICK s \in Requests, l \in RequestLengths :
        /\ s \notin Queued /\ s \notin Running
        /\ Queued' = Queued \cup {s} /\ Running' = Running
        /\ input_len' = [input_len EXCEPT ![s] = NewInput(l)]
        /\ current_len' = [current_len EXCEPT ![s] = NewCurrent(l)]
        /\ record' = [record EXCEPT ![s] = FALSE]
  BY PushMoves
<1>2. record'[s] = FALSE /\ InPrefill(s)'
  BY <1>1 DEF ArrivesInPrefill, InPrefill, SchedulerTypeOK
<1>3. ASSUME NEW t \in Requests, t # s
      PROVE  record'[t] = record[t] /\ (InPrefill(t)' <=> InPrefill(t))
  BY <1>1, <1>3 DEF InPrefill, SchedulerTypeOK
<1>. QED  BY <1>1, <1>2, <1>3, LiveAreRequests DEF RecordsOK

LEMMA PlaceHeadRecords ==
  ASSUME SchedulerTypeOK, RecordsOK, PlaceHead, sequence_queue # << >>
  PROVE  RecordsOK'
<1>1. /\ Queued' \subseteq Queued /\ Running' \subseteq Running \cup Queued
      /\ UNCHANGED <<input_len, current_len, record>>
  BY PlaceMoves
<1>2. record' = record /\ \A s : InPrefill(s)' <=> InPrefill(s)
  BY <1>1 DEF InPrefill
<1>. QED  BY <1>1, <1>2 DEF RecordsOK

(* An update that brings a prompt to its end brings it there exactly, so   *)
(* that the equality test of updateScheduler sees it.                      *)
LEMMA UpdateSequencesRecords ==
  ASSUME SchedulerTypeOK, OneHome, LengthsOK, RecordsOK,
         NEW S \in SUBSET Running, UpdateSequences(S)
  PROVE  RecordsOK'
<1>1. Queued' = Queued /\ Running' = Running \ Completed(S)
  BY UpdateMoves
<1>2. ASSUME NEW s \in Queued
      PROVE  record'[s] = FALSE /\ InPrefill(s)'
  <2>1. s \in Requests /\ s \notin S
    BY UpdateMoves
  <2>2. s \notin Completed(S) /\ s \notin FirstToken(S)
    BY <2>1 DEF Completed, FirstToken
  <2>3. record[s] = FALSE /\ InPrefill(s)
    BY DEF RecordsOK
  <2>4. record'[s] = FALSE
    BY <2>1, <2>2, <2>3 DEF UpdateSequences
  <2>5. current_len'[s] = current_len[s] /\ input_len'[s] = input_len[s]
    BY <2>1, <2>2, UpdateMoves
  <2>. QED  BY <2>3, <2>4, <2>5 DEF InPrefill
<1>3. ASSUME NEW s \in Running \ Completed(S)
      PROVE  record'[s] <=> ~InPrefill(s)'
  <2>1. s \in Running /\ s \notin Completed(S) /\ s \in Requests
    BY LiveAreRequests
  <2>2. record[s] <=> ~InPrefill(s)
    BY <2>1 DEF RecordsOK
  <2>3. record'[s] <=> record[s] \/ s \in FirstToken(S)
    BY <2>1, UpdateMoves
  <2>4. CASE s \notin S
    <3>1. current_len'[s] = current_len[s] /\ input_len'[s] = input_len[s]
      BY <2>1, <2>4, UpdateMoves
    <3>2. s \notin FirstToken(S)
      BY <2>4 DEF FirstToken
    <3>. QED  BY <2>2, <2>3, <3>1, <3>2 DEF InPrefill
  <2>5. CASE s \in S
    <3>1. current_len'[s] = LenAfter(s) /\ input_len'[s] = input_len[s]
      BY <2>1, <2>5, UpdateMoves
    <3>2. s \in FirstToken(S) <=> LenAfter(s) = input_len[s] /\ ~record[s]
      BY <2>1, <2>5 DEF FirstToken
    <3>3. InPrefill(s)' <=> LenAfter(s) < input_len[s]
      BY <3>1 DEF InPrefill
    <3>4. /\ current_len[s] \in Nat /\ input_len[s] \in Nat
          /\ num_process_token[s] \in Nat
      BY <2>1 DEF SchedulerTypeOK
    <3>5. InPrefill(s) => LenAfter(s) <= input_len[s]
      BY <2>1 DEF LengthsOK, RunningOK
    <3>6. ~InPrefill(s) => ~(LenAfter(s) < input_len[s])
      BY <3>4 DEF InPrefill, LenAfter
    <3>7. InPrefill(s) => (~(LenAfter(s) < input_len[s])
                             <=> LenAfter(s) = input_len[s])
      BY <3>4, <3>5 DEF LenAfter
    <3>. QED  BY <2>2, <2>3, <3>2, <3>3, <3>6, <3>7
  <2>. QED  BY <2>4, <2>5
<1>. QED  BY <1>1, <1>2, <1>3 DEF RecordsOK
=============================================================================
