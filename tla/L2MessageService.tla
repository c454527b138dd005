-------------------------- MODULE L2MessageService --------------------------
(***************************************************************************)
(* contracts/contracts/messageService/l2: the L2 message service with its  *)
(* inbox of L1->L2 messages (L2MessageManager, L2MessageServiceV1), and    *)
(* the blocks the sequencer seals around its transactions.                 *)
(***************************************************************************)
EXTENDS Clock, L2Chain

CONSTANTS
    L2Period, L2Limits,     \* the rate limiter of L2
    Sends,                  \* [value, fee] of the messages users send to L1
    InitialMinimumFee,      \* 0.0001 ether
    MinimumFees,            \* the values setMinimumFee may be given
    L2PauseTypes,
    MaxAnchored,            \* bound on the anchored messages
    MaxSent,                \* bound on the messages sent to L1
    MaxL2Blocks             \* bound on the sealed blocks

ASSUME L2MessageServiceAssumption ==
    /\ Sends \subseteq [value : Nat, fee : Nat]
    /\ InitialMinimumFee \in Nat
    /\ MinimumFees \subseteq Nat
    /\ MaxAnchored \in Nat
    /\ MaxSent \in Nat
    /\ MaxL2Blocks \in Nat

VARIABLES
    l2LimitInWei, l2PeriodEnd, l2PeriodAmount,
    l2Paused,
    minimumFeeInWei,
    l2NextMessageNumber,
    inboxL1L2MessageStatus,         \* the messages whose status is not UNKNOWN
    lastAnchoredL1MessageNumber,
    l1RollingHashes,
    circulating,                    \* the ether of L2 outside the message service
    openBlock                       \* the block the sequencer is filling

L2Limiter == INSTANCE RateLimiter WITH
    Period <- L2Period, Limits <- L2Limits, limitInWei <- l2LimitInWei,
    currentPeriodEnd <- l2PeriodEnd, currentPeriodAmountInWei <- l2PeriodAmount

l2Counters == <<l2LimitInWei, l2PeriodEnd, l2PeriodAmount>>
inboxVars == <<inboxL1L2MessageStatus, lastAnchoredL1MessageNumber, l1RollingHashes>>
l2Vars == <<l2Counters, l2Paused, minimumFeeInWei, l2NextMessageNumber, inboxVars,
            circulating, openBlock, l2Chain>>

EmptyBlock == [firstUpdate |-> 0, lastUpdate |-> 0, rollingHash |-> EmptyRollingHash,
               messages |-> <<>>, claims |-> {}]

\* initialize.  The message service is funded at genesis; all ether outside it
\* has come over the bridge.
L2Init ==
    /\ L2Limiter!LimiterInit
    /\ l2Paused = {}
    /\ minimumFeeInWei = InitialMinimumFee
    /\ l2NextMessageNumber = 1
    /\ inboxL1L2MessageStatus = <<>>
    /\ lastAnchoredL1MessageNumber = 0
    /\ l1RollingHashes = [n \in 0 .. MaxAnchored |-> EmptyRollingHash]
    /\ circulating = 0
    /\ openBlock = EmptyBlock
    /\ l2Chain = <<>>

\* Mutant: the general pause is not looked at.
L2NotPausedByType(type) == type \notin l2Paused

\* _requireTypeAndGeneralNotPaused
L2NotPaused(type) == type \notin l2Paused /\ "GENERAL" \notin l2Paused

-----------------------------------------------------------------------------

\* Mutant: the minimum fee is not asked for.
FeeIsUnchecked(fee) == TRUE

FeeIsEnough(fee) == fee >= minimumFeeInWei

\* sendMessage: the fee above the minimum travels with the message, the minimum
\* goes to the coinbase and stays on L2.
l2SendMessage(s) ==
    /\ l2NextMessageNumber <= MaxSent
    /\ L2NotPaused("L2_L1")
    /\ FeeIsEnough(s.fee)
    /\ circulating >= s.value + s.fee
    /\ LET postmanFee == s.fee - minimumFeeInWei
           message == [number |-> l2NextMessageNumber, value |-> s.value, fee |-> postmanFee]
       IN  /\ L2Limiter!AddUsedAmount(s.value + postmanFee)
           /\ openBlock' = [openBlock EXCEPT !.messages = Append(@, message)]
           /\ circulating' = circulating - (s.value + postmanFee)
    /\ l2NextMessageNumber' = l2NextMessageNumber + 1
    /\ UNCHANGED <<l2Paused, minimumFeeInWei, inboxVars, l2Chain>>

\* Mutant: a duplicate in the list is counted and hashed again.
FreshWithDuplicates(hashes) ==
    SelectSeq(hashes, LAMBDA h : h \notin DOMAIN inboxL1L2MessageStatus)

\* The hashes the loop of anchorL1L2MessageHashes finds UNKNOWN, in its order: the
\* second occurrence in the list is RECEIVED already.
Fresh(hashes) ==
    FoldLeft(LAMBDA seen, h : IF h \in DOMAIN inboxL1L2MessageStatus \cup ToSet(seen)
                              THEN seen ELSE Append(seen, h),
             <<>>, hashes)

\* anchorL1L2MessageHashes, by the L1_L2_MESSAGE_SETTER_ROLE.
anchorL1L2MessageHashes(hashes, startingMessageNumber, finalMessageNumber, finalRollingHash) ==
    LET fresh == Fresh(hashes)
        number == lastAnchoredL1MessageNumber + Len(fresh)
        rollingHash == l1RollingHashes[lastAnchoredL1MessageNumber] \o fresh
    IN  /\ "GENERAL" \notin l2Paused
        /\ hashes # <<>>
        /\ Len(hashes) <= 100
        /\ finalRollingHash # EmptyRollingHash
        /\ startingMessageNumber - 1 = lastAnchoredL1MessageNumber
        /\ number <= MaxAnchored
        /\ number = finalMessageNumber
        /\ finalRollingHash = rollingHash
        /\ inboxL1L2MessageStatus' = [h \in DOMAIN inboxL1L2MessageStatus \cup ToSet(fresh) |->
              IF h \in DOMAIN inboxL1L2MessageStatus THEN inboxL1L2MessageStatus[h]
              ELSE "RECEIVED"]
        /\ IF number = lastAnchoredL1MessageNumber
           THEN UNCHANGED <<lastAnchoredL1MessageNumber, l1RollingHashes, openBlock>>
           ELSE /\ lastAnchoredL1MessageNumber' = number
                /\ l1RollingHashes' = [l1RollingHashes EXCEPT ![number] = rollingHash]
                /\ openBlock' = [openBlock EXCEPT
                      !.firstUpdate = IF @ = 0 THEN number ELSE @,
                      !.lastUpdate = number, !.rollingHash = rollingHash]
        /\ UNCHANGED <<l2Counters, l2Paused, minimumFeeInWei, l2NextMessageNumber,
                       circulating, l2Chain>>

\* Mutant: a message that is CLAIMED already passes.
UpdateL1L2MessageStatusUnchecked(m) ==
    /\ m \in DOMAIN inboxL1L2MessageStatus
    /\ inboxL1L2MessageStatus' = [inboxL1L2MessageStatus EXCEPT ![m] = "CLAIMED"]

\* _updateL1L2MessageStatusToClaimed
UpdateL1L2MessageStatusToClaimed(m) ==
    /\ m \in DOMAIN inboxL1L2MessageStatus
    /\ inboxL1L2MessageStatus[m] = "RECEIVED"
    /\ inboxL1L2MessageStatus' = [inboxL1L2MessageStatus EXCEPT ![m] = "CLAIMED"]

\* claimMessage: value and fee are paid out; a refund of the fee whose send fails
\* stays behind.
l2ClaimMessage(m) ==
    /\ L2NotPaused("L1_L2")
    /\ UpdateL1L2MessageStatusToClaimed(m)
    /\ \E kept \in 0 .. m.fee : circulating' = circulating + m.value + m.fee - kept
    /\ openBlock' = [openBlock EXCEPT !.claims = @ \cup {m}]
    /\ UNCHANGED <<l2Counters, l2Paused, minimumFeeInWei, l2NextMessageNumber,
                   lastAnchoredL1MessageNumber, l1RollingHashes, l2Chain>>

setMinimumFee(fee) ==
    /\ minimumFeeInWei' = fee
    /\ UNCHANGED <<l2Counters, l2Paused, l2NextMessageNumber, inboxVars, circulating,
                   openBlock, l2Chain>>

l2PauseByType(type) ==
    /\ type \notin l2Paused
    /\ l2Paused' = l2Paused \cup {type}
    /\ UNCHANGED <<l2Counters, minimumFeeInWei, l2NextMessageNumber, inboxVars, circulating,
                   openBlock, l2Chain>>

l2UnPauseByType(type) ==
    /\ type \in l2Paused
    /\ l2Paused' = l2Paused \ {type}
    /\ UNCHANGED <<l2Counters, minimumFeeInWei, l2NextMessageNumber, inboxVars, circulating,
                   openBlock, l2Chain>>

\* resetRateLimitAmount and resetAmountUsedInPeriod
l2ResetRateLimit ==
    /\ \/ \E limit \in L2Limits : L2Limiter!ResetRateLimitAmount(limit)
       \/ L2Limiter!ResetAmountUsedInPeriod
    /\ UNCHANGED <<l2Paused, minimumFeeInWei, l2NextMessageNumber, inboxVars, circulating,
                   openBlock, l2Chain>>

\* The sequencer seals the open block; timestamps of L2 blocks increase.
SealOpenBlock ==
    /\ Len(l2Chain) < MaxL2Blocks
    /\ now > L2Timestamp(Len(l2Chain))
    /\ l2Chain' = Append(l2Chain,
          [timestamp |-> now, firstUpdate |-> openBlock.firstUpdate,
           lastUpdate |-> openBlock.lastUpdate, rollingHash |-> openBlock.rollingHash,
           messages |-> openBlock.messages, claims |-> openBlock.claims])
    /\ openBlock' = EmptyBlock
    /\ UNCHANGED <<l2Counters, l2Paused, minimumFeeInWei, l2NextMessageNumber, inboxVars,
                   circulating>>
=============================================================================
