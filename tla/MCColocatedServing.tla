-------------------------- MODULE MCColocatedServing --------------------------
(***************************************************************************)
(* Instances of ColocatedServing for TLC.                                  *)
(***************************************************************************)
EXTENDS ColocatedServing, TLC

(* A short prompt with a long answer and a long prompt with a short one:   *)
(* with three prefill tokens the long prompt takes several iterations.     *)
MixedLengths == {<<1, 3>>, <<4, 2>>}

(* One configured length, as every synthetic run has.                      *)
OneLength == {<<2, 3>>}

(* An odd prompt, half of it reused: a little more than half is left.      *)
ReusedPrompt == {<<9, 4>>}
=============================================================================
