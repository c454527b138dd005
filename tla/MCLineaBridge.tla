--------------------------- MODULE MCLineaBridge ---------------------------
(* TLC instance of LineaBridge. *)
EXTENDS LineaBridge

MCSubmissions == {<<[from |-> 1, to |-> 1, root |-> 1]>>, <<[from |-> 2, to |-> 2, root |-> 2]>>}
MCDeposits == {[value |-> 1, fee |-> 1]}
MCSends == {[value |-> 1, fee |-> 0], [value |-> 1, fee |-> 1], [value |-> 0, fee |-> 2]}
MCLegacy == {[number |-> 0, value |-> 1, fee |-> 0]}
MCPauseTypes == {"GENERAL", "L1_L2", "L2_L1"}
=============================================================================
