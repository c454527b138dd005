-------------------------- MODULE LineaRollupSpec --------------------------
(***************************************************************************)
(* LineaRollup under everything its callers may do, with an L2 chain whose *)
(* message service may have anchored anything: messages of L1, or others.  *)
(***************************************************************************)
EXTENDS LineaRollup

CONSTANTS
    Withdrawals,    \* [value, fee] of the L2->L1 messages
    MaxL2Blocks,    \* bound on the L2 chain
    MaxTime         \* bound on block.timestamp

ASSUME LineaRollupSpecAssumption ==
    /\ Withdrawals \subseteq [value : Nat, fee : Nat]
    /\ MaxL2Blocks \in Nat
    /\ MaxTime \in Nat

vars == <<now, l2Chain, rollupVars>>

Init ==
    /\ now = 1
    /\ l2Chain = <<>>
    /\ RollupInit

Tick ==
    /\ now < MaxTime
    /\ now' = now + 1
    /\ UNCHANGED <<l2Chain, rollupVars>>

\* A message nobody sent from L1: message numbers start at 1.
Stray == [number |-> 0, value |-> 0, fee |-> 0]

\* The rolling hashes the L2 message service can reach from the last one.
NextRollingHashes ==
    LET before == AnchoredAt(Len(l2Chain)).hash
    IN  {h \in ToSet(rollingHashes) \cup {Append(before, Stray)} :
            IsStrictPrefix(before, h)}

\* A block of the L2 chain is sealed: at most one anchoring, at most one
\* L2->L1 message.
SealBlock(timestamp, rollingHash, sent) ==
    /\ Len(l2Chain) < MaxL2Blocks
    /\ timestamp > L2Timestamp(Len(l2Chain))
    /\ l2Chain' = Append(l2Chain,
          [timestamp |-> timestamp, firstUpdate |-> Len(rollingHash),
           lastUpdate |-> Len(rollingHash), rollingHash |-> rollingHash,
           messages |-> sent, claims |-> {}])
    /\ UNCHANGED <<now, rollupVars>>

L2Messages(n) ==
    {<<>>} \cup {<<[number |-> Len(MessagesIn(1, n)) + 1, value |-> w.value, fee |-> w.fee]>> :
                    w \in Withdrawals}

Traffic ==
    \/ Tick
    \/ \E rollingHash \in NextRollingHashes \cup {EmptyRollingHash},
          sent \in L2Messages(Len(l2Chain)) : SealBlock(now, rollingHash, sent)
    \/ (Anybody \/ (\E op \in Operators : Operator(op))) /\ UNCHANGED <<now, l2Chain>>

Next == Traffic \/ (Roles /\ UNCHANGED <<now, l2Chain>>)

Spec == Init /\ [][Next]_vars

\* The roles never act: more room for the traffic.
TrafficSpec == Init /\ [][Traffic]_vars

-----------------------------------------------------------------------------

TypeOK ==
    /\ now \in Nat
    /\ L2ChainTypeOK
    /\ LimiterTypeOK
    /\ paused \subseteq PauseTypes
    /\ operators \subseteq Operators
    /\ verifiers \subseteq ProofTypes
    /\ nextMessageNumber \in 1 .. MaxL1Messages + 1
    /\ rollingHashes \in [0 .. MaxL1Messages -> RollingHash]
    /\ \A n \in 0 .. nextMessageNumber - 1 : Len(rollingHashes[n]) = n
    /\ blobShnarfExists \subseteq Shnarf
    /\ currentL2BlockNumber \in Nat
    /\ currentL2BlockNumber \in DOMAIN stateRootHashes
    /\ \A n \in DOMAIN stateRootHashes : n \in Nat /\ stateRootHashes[n] \in Nat
    /\ currentFinalizedShnarf \in blobShnarfExists
    /\ currentFinalizedState \in [number : Nat, rollingHash : RollingHash, timestamp : Nat]
    /\ l2MerkleRoots \subseteq Seq(Message)
    /\ messageClaimed \subseteq Nat
    /\ inboxL2L1 \subseteq LegacyMessages
    /\ escrow \in Nat
    /\ lastFinalizationAt \in 0 .. now

\* What finalizeBlocks has accepted is a prefix of the L2 chain, whichever forks
\* of blobs were submitted and however stale the data of a finalization was: the
\* finalized blobs cover each block once and in order, and the finalized state
\* root, rolling hash, message number and timestamp are those of its last block.
FinalizedIsL2Prefix ==
    /\ currentL2BlockNumber <= Len(l2Chain)
    /\ IF currentL2BlockNumber = 0
       THEN currentFinalizedShnarf = GenesisShnarf
       ELSE Tiles(currentFinalizedShnarf, 1, currentL2BlockNumber)
    /\ stateRootHashes[currentL2BlockNumber] = StateRoot(currentL2BlockNumber)
    /\ currentFinalizedState =
          FinalizedState(AnchoredAt(currentL2BlockNumber).number,
                         AnchoredAt(currentL2BlockNumber).hash,
                         L2Timestamp(currentL2BlockNumber))

\* The feedback loop (_validateL2ComputedRollingHash): whatever was anchored on
\* L2, the messages a finalized L2 block has received are the first messages sent
\* from L1, in their order.
FinalizedAnchoringIsL1Prefix ==
    \A b \in 1 .. currentL2BlockNumber :
       IsPrefix(AnchoredAt(b).hash, rollingHashes[nextMessageNumber - 1])

\* _addL2MerkleRoots: the L2->L1 messages of the finalized blocks, and no others,
\* are leaves of the anchored roots, each in one place only.
ClaimableIsFinalized ==
    LET leaves == UNION {{root} \X DOMAIN root : root \in l2MerkleRoots}
        finalized == ToSet(MessagesIn(1, currentL2BlockNumber))
    IN  /\ {l[1][l[2]] : l \in leaves} = finalized
        /\ Cardinality(leaves) = Cardinality(finalized)

\* Finalization only moves forward: neither the block, nor the message number,
\* nor the timestamp falls back, and the blobs already finalized stay a prefix.
FinalizationMovesForward ==
    [][/\ currentL2BlockNumber' >= currentL2BlockNumber
       /\ currentFinalizedState'.number >= currentFinalizedState.number
       /\ currentFinalizedState'.timestamp >= currentFinalizedState.timestamp
       /\ IsPrefix(currentFinalizedShnarf, currentFinalizedShnarf')
       /\ stateRootHashes' # stateRootHashes => currentL2BlockNumber' > currentL2BlockNumber]_vars

\* setFallbackOperator: nobody makes the fallback operator an operator while a
\* finalized L2 block is younger than six months.
FallbackOnlyIfFinalizedIsOld ==
    [][(FallbackOperator \in operators' \ operators) =>
          (\A b \in 1 .. currentL2BlockNumber : l2Chain[b].timestamp + SixMonths <= now)]_vars

\* "Reverts if six months have not passed since the last finalization."
\* (setFallbackOperator): no finalization in the six months before the grant.
FallbackOnlyAfterInactivity ==
    [][(FallbackOperator \in operators' \ operators) => lastFinalizationAt + SixMonths <= now]_vars

\* _requireTypeAndGeneralNotPaused in each entry point: a pause freezes the state
\* its type stands for against everybody, and the general pause freezes all of
\* it; only the roles still act.
PauseFreezes ==
    [][/\ "GENERAL" \in paused =>
             UNCHANGED <<sendVars, blobShnarfExists, finalVars, claimVars, escrow>>
       /\ "L1_L2" \in paused => UNCHANGED sendVars
       /\ "L2_L1" \in paused => UNCHANGED claimVars
       /\ "FINALIZATION" \in paused => UNCHANGED finalVars
       /\ {"BLOB_SUBMISSION", "CALLDATA_SUBMISSION"} \subseteq paused =>
             UNCHANGED blobShnarfExists]_vars
=============================================================================
