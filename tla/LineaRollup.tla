---------------------------- MODULE LineaRollup ----------------------------
(***************************************************************************)
(* contracts/contracts/LineaRollup.sol with the contracts it inherits from *)
(* (ZkEvmV2, L1MessageService, L1MessageManager, their V1 parts and the    *)
(* PauseManager): data submission, finalization and both directions of     *)
(* messaging on L1.  A revert is the absence of a step.                    *)
(***************************************************************************)
EXTENDS RateLimiter, L2Chain, FiniteSetsExt

CONSTANTS
    Operators,          \* accounts that may hold OPERATOR_ROLE
    FallbackOperator,   \* fallbackOperator
    SixMonths,          \* SIX_MONTHS_IN_SECONDS
    ProofTypes,
    PauseTypes,         \* the pause types the roles use
    Deposits,           \* [value, fee] of the messages users send
    Submissions,        \* the sequences of blobs operators submit
    LegacyMessages,     \* messages received before the Merkle roots (pre-AlphaV2)
    MaxL1Messages,      \* bound on the messages sent from L1
    MaxSubmissions      \* bound on the accepted submissions

ASSUME LineaRollupAssumption ==
    /\ FallbackOperator \in Operators
    /\ SixMonths \in Nat \ {0}
    /\ Deposits \subseteq [value : Nat, fee : Nat]
    /\ Submissions \subseteq Seq(Blob)
    /\ LegacyMessages \subseteq Message
    /\ MaxL1Messages \in Nat
    /\ MaxSubmissions \in Nat

VARIABLES
    paused,                 \* _pauseTypeStatusesBitMap
    operators,              \* the holders of OPERATOR_ROLE
    verifiers,              \* the proof types with a verifier
    nextMessageNumber,
    rollingHashes,
    blobShnarfExists,
    currentL2BlockNumber,
    stateRootHashes,
    currentFinalizedShnarf,
    currentFinalizedState,
    l2MerkleRoots,          \* the roots with a non-zero l2MerkleRootsDepths
    messageClaimed,         \* _messageClaimedBitMap
    inboxL2L1,              \* the legacy inbox
    escrow,                 \* the contract's balance
    lastFinalizationAt      \* history: when finalizeBlocks last succeeded, 0 if never

roleVars == <<paused, operators, verifiers>>
sendVars == <<nextMessageNumber, rollingHashes>>
finalVars == <<currentL2BlockNumber, stateRootHashes, currentFinalizedShnarf,
               currentFinalizedState, l2MerkleRoots, lastFinalizationAt>>
claimVars == <<messageClaimed, inboxL2L1>>
rollupVars == <<counters, roleVars, sendVars, blobShnarfExists, finalVars, claimVars, escrow>>

\* _computeLastFinalizedState
FinalizedState(number, rollingHash, timestamp) ==
    [number |-> number, rollingHash |-> rollingHash, timestamp |-> timestamp]

\* What delivering a message takes out of the contract.
Payout(m) == m.value + m.fee

\* initialize.  The messages of the legacy inbox were paid for.
RollupInit ==
    /\ LimiterInit
    /\ paused = {}
    /\ operators = Operators \ {FallbackOperator}
    /\ verifiers = ProofTypes
    /\ nextMessageNumber = 1
    /\ rollingHashes = [n \in 0 .. MaxL1Messages |-> EmptyRollingHash]
    /\ blobShnarfExists = {GenesisShnarf}
    /\ currentL2BlockNumber = 0
    /\ stateRootHashes = [n \in {0} |-> StateRoot(0)]
    /\ currentFinalizedShnarf = GenesisShnarf
    /\ currentFinalizedState = FinalizedState(0, EmptyRollingHash, L2Timestamp(0))
    /\ l2MerkleRoots = {}
    /\ messageClaimed = {}
    /\ inboxL2L1 = LegacyMessages
    /\ escrow = MapThenSumSet(Payout, LegacyMessages)
    /\ lastFinalizationAt = 0

\* Mutant: the general pause is not looked at.
NotPausedByType(type) == type \notin paused

\* _requireTypeAndGeneralNotPaused
NotPaused(type) == type \notin paused /\ "GENERAL" \notin paused

-----------------------------------------------------------------------------
\* Messaging.

\* Mutant: the hash is chained to the slot it is stored in.
AddRollingHashToItself(messageNumber, messageHash) ==
    rollingHashes' = [rollingHashes EXCEPT ![messageNumber] =
       Append(rollingHashes[messageNumber], messageHash)]

\* _addRollingHash
AddRollingHash(messageNumber, messageHash) ==
    rollingHashes' = [rollingHashes EXCEPT ![messageNumber] =
       Append(rollingHashes[messageNumber - 1], messageHash)]

\* sendMessage
sendMessage(d) ==
    /\ nextMessageNumber <= MaxL1Messages
    /\ NotPaused("L1_L2")
    /\ AddRollingHash(nextMessageNumber,
                      [number |-> nextMessageNumber, value |-> d.value, fee |-> d.fee])
    /\ nextMessageNumber' = nextMessageNumber + 1
    /\ escrow' = escrow + d.value + d.fee
    /\ UNCHANGED <<counters, roleVars, blobShnarfExists, finalVars, claimVars>>

\* distributeFees: value and fee are paid out.  What is left of the fee goes to
\* the recipient with a send whose failure is ignored: `kept' stays behind.
PayOut(m) ==
    /\ escrow >= Payout(m)
    /\ \E kept \in 0 .. m.fee : escrow' = escrow - Payout(m) + kept

\* Mutant: the message is not marked.
SetL2L1MessageToClaimedNot(number) ==
    /\ number \notin messageClaimed
    /\ UNCHANGED messageClaimed

\* _setL2L1MessageToClaimed
SetL2L1MessageToClaimed(number) ==
    /\ number \notin messageClaimed
    /\ messageClaimed' = messageClaimed \cup {number}

\* claimMessageWithProof: m is a leaf of an anchored root; the call of the
\* recipient succeeds.
claimMessageWithProof(root, m) ==
    /\ NotPaused("L2_L1")
    /\ root \in l2MerkleRoots
    /\ SetL2L1MessageToClaimed(m.number)
    /\ AddUsedAmount(Payout(m))
    /\ \E i \in DOMAIN root : root[i] = m
    /\ PayOut(m)
    /\ UNCHANGED <<inboxL2L1, roleVars, sendVars, blobShnarfExists, finalVars>>

\* L1MessageServiceV1.claimMessage, for the legacy inbox.
claimMessage(m) ==
    /\ NotPaused("L2_L1")
    /\ m \in inboxL2L1
    /\ inboxL2L1' = inboxL2L1 \ {m}
    /\ AddUsedAmount(Payout(m))
    /\ PayOut(m)
    /\ UNCHANGED <<messageClaimed, roleVars, sendVars, blobShnarfExists, finalVars>>

-----------------------------------------------------------------------------
\* Data submission.

\* submitBlobs: only the last shnarf of the transaction is stored.
submitBlobs(op, blobs, parentShnarf) ==
    LET computedShnarf == parentShnarf \o blobs
    IN  /\ Cardinality(blobShnarfExists) <= MaxSubmissions
        /\ NotPaused("BLOB_SUBMISSION")
        /\ op \in operators
        /\ blobs # <<>>
        /\ parentShnarf \in blobShnarfExists
        /\ computedShnarf \notin blobShnarfExists
        /\ blobShnarfExists' = blobShnarfExists \cup {computedShnarf}
        /\ UNCHANGED <<counters, roleVars, sendVars, finalVars, claimVars, escrow>>

\* submitDataAsCalldata: one blob, under a pause type of its own.
submitDataAsCalldata(op, blob, parentShnarf) ==
    LET computedShnarf == Append(parentShnarf, blob)
    IN  /\ Cardinality(blobShnarfExists) <= MaxSubmissions
        /\ NotPaused("CALLDATA_SUBMISSION")
        /\ op \in operators
        /\ parentShnarf \in blobShnarfExists
        /\ computedShnarf \notin blobShnarfExists
        /\ blobShnarfExists' = blobShnarfExists \cup {computedShnarf}
        /\ UNCHANGED <<counters, roleVars, sendVars, finalVars, claimVars, escrow>>

-----------------------------------------------------------------------------
\* Finalization.

\* FinalizationDataV3 for the blocks after `first' up to `last', as an aggregation
\* proof carries it (AggregationSubmitter.kt).  The proof takes the last finalized
\* values from its request: they are those of some block `base', and only the
\* contract knows which block was finalized last.
FinalizationData(base, first, last, shnarf) ==
    LET before == AnchoredAt(base)
        after == RollingHashAfter(first + 1, last, before.number, before.hash)
    IN  [parentStateRootHash |-> StateRoot(first),
         endBlockNumber |-> last,
         shnarf |-> shnarf,
         lastFinalizedTimestamp |-> L2Timestamp(base),
         finalTimestamp |-> L2Timestamp(last),
         lastFinalizedL1RollingHash |-> before.hash,
         l1RollingHash |-> after.hash,
         lastFinalizedL1RollingHashMessageNumber |-> before.number,
         l1RollingHashMessageNumber |-> after.number,
         l2MerkleRoots |-> MerkleRoots(MessagesIn(first + 1, last))]

\* _computePublicInput
PublicInput(fd) ==
    [parentShnarf |-> currentFinalizedShnarf,
     finalShnarf |-> fd.shnarf,
     lastTimestamp |-> fd.lastFinalizedTimestamp,
     finalTimestamp |-> fd.finalTimestamp,
     lastBlock |-> currentL2BlockNumber,
     endBlock |-> fd.endBlockNumber,
     lastRollingHash |-> fd.lastFinalizedL1RollingHash,
     rollingHash |-> fd.l1RollingHash,
     lastNumber |-> fd.lastFinalizedL1RollingHashMessageNumber,
     number |-> fd.l1RollingHashMessageNumber,
     merkleRoots |-> fd.l2MerkleRoots]

\* Mutant: the feedback loop is left open.
ValidateL2ComputedRollingHashNot(number, rollingHash) == TRUE

\* _validateL2ComputedRollingHash
ValidateL2ComputedRollingHash(number, rollingHash) ==
    IF number = 0
    THEN rollingHash = EmptyRollingHash
    ELSE /\ rollingHash # EmptyRollingHash
         /\ number <= MaxL1Messages
         /\ rollingHashes[number] = rollingHash

\* Mutant: the roots of earlier finalizations are lost.
ReplaceL2MerkleRoots(newRoots) ==
    /\ newRoots \cap l2MerkleRoots = {}
    /\ l2MerkleRoots' = newRoots

\* _addL2MerkleRoots
AddL2MerkleRoots(newRoots) ==
    /\ newRoots \cap l2MerkleRoots = {}
    /\ l2MerkleRoots' = l2MerkleRoots \cup newRoots

\* Mutant: the caller's word is taken for the last finalized state.
LastFinalizedStateIsNot(number, rollingHash, timestamp) == TRUE

\* The triple hashes to currentFinalizedState.
LastFinalizedStateIs(number, rollingHash, timestamp) ==
    currentFinalizedState = FinalizedState(number, rollingHash, timestamp)

\* _finalizeBlocks
_finalizeBlocks(fd) ==
    /\ fd.endBlockNumber > currentL2BlockNumber
    /\ ValidateL2ComputedRollingHash(fd.l1RollingHashMessageNumber, fd.l1RollingHash)
    /\ LastFinalizedStateIs(fd.lastFinalizedL1RollingHashMessageNumber,
                            fd.lastFinalizedL1RollingHash, fd.lastFinalizedTimestamp)
    /\ fd.finalTimestamp < now
    /\ fd.shnarf # GenesisShnarf /\ Last(fd.shnarf).root # ZeroRoot
    /\ fd.shnarf \in blobShnarfExists
    /\ AddL2MerkleRoots(fd.l2MerkleRoots)
    /\ stateRootHashes' = [n \in DOMAIN stateRootHashes \cup {fd.endBlockNumber} |->
          IF n = fd.endBlockNumber THEN Last(fd.shnarf).root ELSE stateRootHashes[n]]
    /\ currentL2BlockNumber' = fd.endBlockNumber
    /\ currentFinalizedShnarf' = fd.shnarf
    /\ currentFinalizedState' = FinalizedState(fd.l1RollingHashMessageNumber,
                                               fd.l1RollingHash, fd.finalTimestamp)

\* finalizeBlocks; _verifyProof accepts what the circuit proves.
finalizeBlocks(op, proofType, fd) ==
    /\ NotPaused("FINALIZATION")
    /\ op \in operators
    /\ stateRootHashes[currentL2BlockNumber] = fd.parentStateRootHash
    /\ _finalizeBlocks(fd)
    /\ proofType \in verifiers
    /\ Circuit(PublicInput(fd))
    /\ lastFinalizationAt' = now
    /\ UNCHANGED <<counters, roleVars, sendVars, blobShnarfExists, claimVars, escrow>>

-----------------------------------------------------------------------------
\* Roles.

\* setFallbackOperator, which anybody may call.
setFallbackOperator(number, rollingHash, timestamp) ==
    /\ now >= timestamp + SixMonths
    /\ LastFinalizedStateIs(number, rollingHash, timestamp)
    /\ operators' = operators \cup {FallbackOperator}
    /\ UNCHANGED <<counters, paused, verifiers, sendVars, blobShnarfExists, finalVars,
                   claimVars, escrow>>

\* renounceRole: the fallback operator cannot.
renounceRole(op) ==
    /\ op \in operators
    /\ op # FallbackOperator
    /\ operators' = operators \ {op}
    /\ UNCHANGED <<counters, paused, verifiers, sendVars, blobShnarfExists, finalVars,
                   claimVars, escrow>>

\* setVerifierAddress and unsetVerifierAddress
setVerifierAddress(proofType) ==
    /\ verifiers' = verifiers \cup {proofType}
    /\ UNCHANGED <<counters, paused, operators, sendVars, blobShnarfExists, finalVars,
                   claimVars, escrow>>

unsetVerifierAddress(proofType) ==
    /\ verifiers' = verifiers \ {proofType}
    /\ UNCHANGED <<counters, paused, operators, sendVars, blobShnarfExists, finalVars,
                   claimVars, escrow>>

\* pauseByType and unPauseByType: both revert when there is nothing to change.
pauseByType(type) ==
    /\ type \notin paused
    /\ paused' = paused \cup {type}
    /\ UNCHANGED <<counters, operators, verifiers, sendVars, blobShnarfExists, finalVars,
                   claimVars, escrow>>

unPauseByType(type) ==
    /\ type \in paused
    /\ paused' = paused \ {type}
    /\ UNCHANGED <<counters, operators, verifiers, sendVars, blobShnarfExists, finalVars,
                   claimVars, escrow>>

\* The rate limiter's roles.
resetRateLimit ==
    /\ \/ \E limit \in Limits : ResetRateLimitAmount(limit)
       \/ ResetAmountUsedInPeriod
    /\ UNCHANGED <<roleVars, sendVars, blobShnarfExists, finalVars, claimVars, escrow>>

-----------------------------------------------------------------------------
\* Who does what.

Anybody ==
    \/ \E d \in Deposits : sendMessage(d)
    \/ \E root \in l2MerkleRoots : \E m \in ToSet(root) : claimMessageWithProof(root, m)
    \/ \E m \in LegacyMessages : claimMessage(m)
    \/ \E t \in 0 .. now : setFallbackOperator(currentFinalizedState.number,
                              currentFinalizedState.rollingHash, t)

Operator(op) ==
    \/ \E parent \in blobShnarfExists, blobs \in Submissions : submitBlobs(op, blobs, parent)
    \/ \E parent \in blobShnarfExists, blobs \in Submissions :
          Len(blobs) = 1 /\ submitDataAsCalldata(op, blobs[1], parent)
    \/ \E shnarf \in UNION {Prefixes(f) : f \in blobShnarfExists} :
       \E base, first, last \in 0 .. Len(l2Chain), proofType \in ProofTypes :
          /\ base <= first /\ first < last
          /\ finalizeBlocks(op, proofType, FinalizationData(base, first, last, shnarf))

Roles ==
    \/ \E op \in Operators : renounceRole(op)
    \/ \E proofType \in ProofTypes : setVerifierAddress(proofType)
    \/ \E proofType \in ProofTypes : unsetVerifierAddress(proofType)
    \/ \E type \in PauseTypes : pauseByType(type)
    \/ \E type \in PauseTypes : unPauseByType(type)
    \/ resetRateLimit
=============================================================================
