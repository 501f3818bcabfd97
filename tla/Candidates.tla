------------------------------ MODULE Candidates ------------------------------
(* What the two strategies of the automatic model selection share. *)
EXTENDS Lists

CONSTANT NoModel   \* an empty model name

ModelsOf(candidates) == [i \in DOMAIN candidates |-> candidates[i].model]
==============================================================================
