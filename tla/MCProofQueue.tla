---------------------------- MODULE MCProofQueue ----------------------------
(***************************************************************************)
(* TLC instances of ProofQueue: an execution proof of block 1, an          *)
(* aggregation of blocks 1 to 2, a large controller and another one, which *)
(* compete for the aggregation.  Exit codes 77 (tried again locally) and   *)
(* 137 (deferred to the large prover).                                     *)
(***************************************************************************)
EXTENDS ProofQueue

CONSTANTS e1, a2, L, n1

MCKindOf == [j \in Jobs |-> IF j = a2 THEN "aggregation" ELSE "execution"]
MCEndOf == [j \in Jobs |-> IF j = e1 THEN 1 ELSE 2]
=============================================================================
