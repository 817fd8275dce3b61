--------------------------- MODULE RequestLifecycle ---------------------------
(***************************************************************************)
(* What the colocated serving loop promises about requests, without        *)
(* lengths, ranks, budgets or loop control.  A request is free, waits,     *)
(* has its prompt processed, decodes, and is free again.  Batches hold a   *)
(* bounded number of requests, and prompts have priority: no decode makes  *)
(* progress past its end while a prompt is unfinished.                     *)
(***************************************************************************)
EXTENDS Integers, FiniteSets

CONSTANTS
  Requests,           (* identities of requests                              *)
  Capacity            (* most requests in the batches                        *)

VARIABLE stage        (* the stage of each request                           *)

Stages == {"free", "waiting", "prefill", "decode"}

In(st) == {s \in Requests : stage[s] = st}

Init == stage = [s \in Requests |-> "free"]

Submit == \E s \in In("free") : stage' = [stage EXCEPT ![s] = "waiting"]

(* A request may bring a finished prompt with it and start as a decode.    *)
Admit ==
  /\ Cardinality(In("prefill") \cup In("decode")) < Capacity
  /\ \E s \in In("waiting"), st \in {"prefill", "decode"} :
       stage' = [stage EXCEPT ![s] = st]

(* Some prompts are finished; a request with a single output token is done *)
(* with its prompt.                                                        *)
FinishPrompts ==
  \E S \in SUBSET In("prefill") :
    \E T \in SUBSET S :
      /\ S # {}
      /\ stage' = [s \in Requests |-> IF s \in T THEN "free"
                                      ELSE IF s \in S THEN "decode"
                                      ELSE stage[s]]

FinishDecodes ==
  /\ In("prefill") = {}
  /\ \E S \in SUBSET In("decode") :
       /\ S # {}
       /\ stage' = [s \in Requests |-> IF s \in S THEN "free" ELSE stage[s]]

Next == Submit \/ Admit \/ FinishPrompts \/ FinishDecodes

Spec == Init /\ [][Next]_stage
=============================================================================
