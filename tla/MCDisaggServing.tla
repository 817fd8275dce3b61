---------------------------- MODULE MCDisaggServing ----------------------------
(***************************************************************************)
(* Instances of DisaggServing for TLC.                                     *)
(***************************************************************************)
EXTENDS DisaggServing, TLC

(* Prompts of one and of several turns, answers of two and three tokens.   *)
MixedLengths == {<<1, 3>>, <<3, 2>>}
=============================================================================
