---------------------------- MODULE MCMoETransfer ----------------------------
(* Clusters for MoETransfer. *)
EXTENDS MoETransfer

(* Two nodes of eight devices, as the code has them, in groups of four.    *)
(* What is sent and received is a sum over tokens: one token tells.        *)
EightByTwo ==
  [num_device |-> 8, num_node |-> 2, ne_tp_dg |-> 4, e_tp_dg |-> 4, num_routed_expert |-> 16,
   TokenBytes |-> 16, fp8 |-> FALSE, communication_hiding |-> FALSE,
   Prefills |-> {TRUE}, Marks |-> {"low", "none"}, MaxTokens |-> 1]

(* Two nodes of two devices, with enough tokens for bytes in both          *)
(* directions and one more.                                                *)
FourDevices ==
  [num_device |-> 2, num_node |-> 2, ne_tp_dg |-> 1, e_tp_dg |-> 1, num_routed_expert |-> 4,
   TokenBytes |-> 2, fp8 |-> TRUE, communication_hiding |-> FALSE,
   Prefills |-> {TRUE, FALSE}, Marks |-> {"high"}, MaxTokens |-> 3]

MCClusters == {EightByTwo, FourDevices}
=============================================================================
