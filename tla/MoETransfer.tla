----------------------------- MODULE MoETransfer -----------------------------
(***************************************************************************)
(* What the devices send each other around the experts of a layer, and the *)
(* time it takes: MoEScatter brings the tokens to the devices of their     *)
(* experts, MoEGather brings the results back.                             *)
(* Source: src/src/module/communication.cpp.                               *)
(*                                                                         *)
(* The devices compute their times from the same counts and write only     *)
(* their own status, so that one step stands for all of them.  Bandwidths  *)
(* are given as the time of a byte.                                        *)
(***************************************************************************)
EXTENDS Integers, Functions, FiniteSetsExt

CONSTANTS
  Clusters,                \* the configurations, see ClusterType
  DeviceByte, DeviceLatency, NodeByte, NodeLatency

VARIABLES
  cluster,                    \* the configuration, which is read once
  local_num_token_in_expert,  \* by batch and expert
  prefill,                    \* by batch: it has prompt tokens
  phase,                      \* "gate", "experts" or "combined"
  mark,                       \* of the input: "none", "high" or "low"
  status                      \* by device: its times

vars == <<cluster, local_num_token_in_expert, prefill, phase, mark, status>>

(* num_device: devices of a node; TokenBytes: bytes of a token; fp8:       *)
(* deepseekV3 with a precision of one byte; Prefills: whether a batch may  *)
(* have prompt tokens, may not, or both; Marks: the marks the input may    *)
(* have for parallel execution; MaxTokens: bound on the tokens of a layer. *)
ClusterType ==
  [num_device : Nat \ {0}, num_node : Nat \ {0}, ne_tp_dg : Nat \ {0}, e_tp_dg : Nat \ {0},
   num_routed_expert : Nat, TokenBytes : Nat \ {0}, fp8 : BOOLEAN,
   communication_hiding : BOOLEAN, Prefills : SUBSET BOOLEAN,
   Marks : SUBSET {"none", "high", "low"}, MaxTokens : Nat]

num_device == cluster.num_device
num_node == cluster.num_node
ne_tp_dg == cluster.ne_tp_dg
e_tp_dg == cluster.e_tp_dg
fp8 == cluster.fp8
total_num_device == num_device * num_node
Devices == 0 .. total_num_device - 1
Batches == 0 .. (total_num_device \div ne_tp_dg) - 1
Experts == 0 .. cluster.num_routed_expert - 1

ASSUME TransferAssumption ==
  /\ Clusters \subseteq ClusterType
  /\ {DeviceByte, DeviceLatency, NodeByte, NodeLatency} \subseteq Nat
  /\ \A c \in Clusters : /\ c.num_device % c.ne_tp_dg = 0 /\ c.num_device % c.e_tp_dg = 0
                        /\ c.num_routed_expert % (c.num_device * c.num_node) = 0
                        /\ c.TokenBytes % (c.ne_tp_dg * c.e_tp_dg) = 0

Total(f, S) == FoldFunctionOnSet(LAMBDA x, y : x + y, 0, f, S)

Batch(d) == d \div ne_tp_dg
NodeOf(d) == d \div num_device

(* The node of the other side where the code divides by the literal 8.     *)
(* Mutant: its own rank is taken for it.                                   *)
NodeBy8Shifted(d) == (d + 1) \div 8

NodeBy8(d) == d \div 8

(* expert_id_offset, num_expert_per_device *)
ExpertsOf(d) ==
  LET each == cluster.num_routed_expert \div total_num_device
      first == each * (d \div e_tp_dg) * e_tp_dg
  IN  first .. first + each * e_tp_dg - 1

Tokens(b, d) == Total(local_num_token_in_expert[b], ExpertsOf(d))

Links(intra, inter) == [intra |-> intra, inter |-> inter]
Scaled(l, mul, div) == Links((l.intra * cluster.TokenBytes * mul) \div div,
                             (l.inter * cluster.TokenBytes * mul) \div div)
Nothing(l) == l.intra = 0 /\ l.inter = 0

(* Tokens of the batch of d for or from the devices that are not in S. *)
OwnTokens(d, S) ==
  LET others == Devices \ S
      for(side) == Total([p \in side |-> Tokens(Batch(d), p)], side)
  IN  Links(for({p \in others : NodeBy8(p) = NodeOf(d)}),
            for({p \in others : NodeBy8(p) # NodeOf(d)}))

(* Tokens of the other batches for the experts of d. *)
OtherTokens(d) ==
  LET others == Batches \ {Batch(d)}
      node(b) == NodeOf(b * ne_tp_dg)
      from(side) == Total([b \in side |-> Tokens(b, d)], side)
  IN  Links(from({b \in others : node(b) = NodeOf(d)}),
            from({b \in others : node(b) # NodeOf(d)}))

Group(d, size) == {p \in Devices : p \div size = d \div size}

(* The bytes of MoEScatter and MoEGather. *)
ScatterSend(d) == Scaled(OwnTokens(d, Group(d, ne_tp_dg)), 1, ne_tp_dg)
ScatterReceive(d) == Scaled(OtherTokens(d), 1, ne_tp_dg)

GatherReceive(d) ==
  Scaled(OwnTokens(d, Group(d, e_tp_dg)), IF fp8 THEN 2 ELSE 1, e_tp_dg * ne_tp_dg)

GatherSend(d) == Scaled(OtherTokens(d), 1, ne_tp_dg)

(* A prompt uses both networks at the same time, a decode only the one     *)
(* between the nodes if there is one.  Mutant: the one it needs most.      *)
LinkTimeEither(d, l) ==
  IF l.inter > 0 THEN l.inter * NodeByte + NodeLatency ELSE l.intra * DeviceByte + DeviceLatency

LinkTime(d, l) ==
  CASE prefill[Batch(d)] -> Max({l.intra * DeviceByte + DeviceLatency,
                                 l.inter * NodeByte + NodeLatency})
    [] ~prefill[Batch(d)] /\ num_node = 1 ->
         (l.intra + l.inter) * DeviceByte + DeviceLatency
    [] OTHER -> (l.intra + l.inter) * NodeByte + NodeLatency

(* Both return without charging anything as soon as one side has nothing. *)
TransferTime(d, first, second) ==
  IF Nothing(first) \/ Nothing(second) THEN 0
  ELSE Max({LinkTime(d, first), LinkTime(d, second)})

ScatterTime(d) == TransferTime(d, ScatterSend(d), ScatterReceive(d))
GatherTime(d) == TransferTime(d, GatherReceive(d), GatherSend(d))

Charged(st, t) ==
  LET on(unit) == IF mark = unit /\ ~cluster.communication_hiding THEN t ELSE 0
  IN  [device_time |-> st.device_time + t,
       high_time |-> st.high_time + on("high"), low_time |-> st.low_time + on("low")]
-----------------------------------------------------------------------------
Init ==
  /\ cluster \in Clusters
  /\ local_num_token_in_expert = [b \in Batches |-> [e \in Experts |-> 0]]
  /\ prefill \in [Batches -> cluster.Prefills]
  /\ mark \in cluster.Marks
  /\ phase = "gate"
  /\ status = [d \in Devices |-> [device_time |-> 0, high_time |-> 0, low_time |-> 0]]

AllTokens ==
  Total([b \in Batches |-> Total(local_num_token_in_expert[b], Experts)], Batches)

(* The gate gives a token of batch b to expert e. *)
Gate(b, e) ==
  /\ phase = "gate" /\ AllTokens < cluster.MaxTokens
  /\ local_num_token_in_expert' = [local_num_token_in_expert EXCEPT ![b][e] = @ + 1]
  /\ UNCHANGED <<cluster, prefill, phase, mark, status>>

MoEScatter ==
  /\ phase = "gate"
  /\ status' = [d \in Devices |-> Charged(status[d], ScatterTime(d))]
  /\ phase' = "experts"
  /\ UNCHANGED <<cluster, local_num_token_in_expert, prefill, mark>>

MoEGather ==
  /\ phase = "experts"
  /\ status' = [d \in Devices |-> Charged(status[d], GatherTime(d))]
  /\ phase' = "combined"
  /\ UNCHANGED <<cluster, local_num_token_in_expert, prefill, mark>>

Next == MoEScatter \/ MoEGather \/ \E b \in Batches, e \in Experts : Gate(b, e)

Spec == Init /\ [][Next]_vars
-----------------------------------------------------------------------------
Sum(l) == Links(Total([d \in Devices |-> l[d].intra], Devices),
                Total([d \in Devices |-> l[d].inter], Devices))
Times(l, n) == Links(l.intra * n, l.inter * n)

(* What all devices send in MoEScatter is what all receive, on the links   *)
(* of a node and between nodes, although the sender finds the node of the  *)
(* receiver another way than the receiver that of the sender.  (A receiver *)
(* counts the share of one of the ne_tp_dg devices that send.)  One side   *)
(* divides by 8: only for nodes of eight devices.                          *)
SentIsReceived ==
  num_device = 8 =>
    Sum([d \in Devices |-> ScatterSend(d)])
      = Times(Sum([d \in Devices |-> ScatterReceive(d)]), ne_tp_dg)

(* One more token makes no device faster. *)
TokensNeverSpeedUp ==
  [][(\E b \in Batches, e \in Experts : Gate(b, e)) =>
       \A d \in Devices : ScatterTime(d)' >= ScatterTime(d) /\ GatherTime(d)' >= GatherTime(d)]_vars
=============================================================================
