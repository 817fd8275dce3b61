---------------------------- MODULE MCModuleGraph ----------------------------
(***************************************************************************)
(* Instances of ModuleGraph for TLC.                                       *)
(***************************************************************************)
EXTENDS ModuleGraph, TLC

(* Two layers with experts: counts of one must not be taken for the other. *)
TwoMoE == <<"moe", "moe">>

(* Layers without experts, where all syncs are between the devices of one  *)
(* tensor-parallel group.                                                  *)
DenseThenMoE == <<"dense", "moe">>
=============================================================================
