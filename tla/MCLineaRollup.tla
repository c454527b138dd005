--------------------------- MODULE MCLineaRollup ---------------------------
(* TLC instances of LineaRollupSpec. *)
EXTENDS LineaRollupSpec

b1 == [from |-> 1, to |-> 1, root |-> 1]
b2 == [from |-> 2, to |-> 2, root |-> 2]
b12 == [from |-> 1, to |-> 2, root |-> 2]

\* Two blocks cut in two ways, in one transaction or in two, and a blob whose
\* state root is wrong.
MCSubmissions == {<<b1>>, <<b2>>, <<b12>>, <<b1, b2>>, <<[b2 EXCEPT !.root = 1]>>}
FewSubmissions == {<<b1>>, <<b12>>}
MCDeposits == {[value |-> 1, fee |-> 0]}
MCWithdrawals == {[value |-> 1, fee |-> 0]}
MCLimits == {2}
MCLegacy == {[number |-> 0, value |-> 1, fee |-> 1]}
MCPauseTypes == {"GENERAL", "L1_L2", "L2_L1", "BLOB_SUBMISSION", "CALLDATA_SUBMISSION", "FINALIZATION"}
NoLegacy == {}
=============================================================================
