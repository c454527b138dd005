---------------------------- MODULE LineaBridge ----------------------------
(***************************************************************************)
(* The rollup contract on L1 and the message service on L2, composed: what *)
(* is finalized on L1 are the blocks the L2 message service ran in.  The   *)
(* holder of L1_L2_MESSAGE_SETTER_ROLE may call anchorL1L2MessageHashes    *)
(* with anything: repeated, reordered or invented hashes included.         *)
(***************************************************************************)
EXTENDS LineaRollup, L2MessageService

CONSTANTS
    MaxAnchoring,   \* bound on the hashes of one anchoring
    MaxTime         \* bound on block.timestamp

ASSUME LineaBridgeAssumption == MaxAnchoring \in Nat /\ MaxTime \in Nat

vars == <<now, rollupVars, l2Vars>>

Init ==
    /\ now = 1
    /\ RollupInit
    /\ L2Init

Tick ==
    /\ now < MaxTime
    /\ now' = now + 1
    /\ UNCHANGED <<rollupVars, l2Vars>>

\* A hash that stands for no message of L1, whose numbers start at 1.
Invented == [number |-> 0, value |-> 1, fee |-> 0]

L1Messages == rollingHashes[nextMessageNumber - 1]

\* The caller knows the rolling hashes of L1, and can compute the one its own
\* list would lead to.
Anchor ==
    \E hashes \in SeqOf(ToSet(L1Messages) \cup {Invented}, MaxAnchoring) :
    \E finalRollingHash \in {rollingHashes[n] : n \in 0 .. nextMessageNumber - 1}
                            \cup {l1RollingHashes[lastAnchoredL1MessageNumber] \o hashes} :
    \E start, final \in 1 .. MaxAnchored :
       anchorL1L2MessageHashes(hashes, start, final, finalRollingHash)

L2Users ==
    \/ \E s \in Sends : l2SendMessage(s)
    \/ \E m \in DOMAIN inboxL1L2MessageStatus : l2ClaimMessage(m)

L2Roles ==
    \/ \E fee \in MinimumFees : setMinimumFee(fee)
    \/ \E type \in L2PauseTypes : l2PauseByType(type)
    \/ \E type \in L2PauseTypes : l2UnPauseByType(type)
    \/ l2ResetRateLimit

Traffic ==
    \/ Tick
    \/ (Anybody \/ (\E op \in Operators : Operator(op))) /\ UNCHANGED <<now, l2Vars>>
    \/ (Anchor \/ L2Users \/ SealOpenBlock) /\ UNCHANGED <<now, rollupVars>>

Next == Traffic \/ (L2Roles /\ UNCHANGED <<now, rollupVars>>)

Spec == Init /\ [][Next]_vars

\* The roles of L2 never act: more room for the traffic.
TrafficSpec == Init /\ [][Traffic]_vars

-----------------------------------------------------------------------------

AnchoredHashes == l1RollingHashes[lastAnchoredL1MessageNumber]

TypeOK ==
    /\ now \in Nat
    /\ L2ChainTypeOK
    /\ L2Limiter!LimiterTypeOK
    /\ l2Paused \subseteq L2PauseTypes
    /\ minimumFeeInWei \in Nat
    /\ l2NextMessageNumber \in 1 .. MaxSent + 1
    /\ \A m \in DOMAIN inboxL1L2MessageStatus :
          m \in Message /\ inboxL1L2MessageStatus[m] \in {"RECEIVED", "CLAIMED"}
    /\ lastAnchoredL1MessageNumber \in 0 .. MaxAnchored
    /\ l1RollingHashes \in [0 .. MaxAnchored -> RollingHash]
    /\ circulating \in Nat
    /\ openBlock.messages \in Seq(Message)

\* anchorL1L2MessageHashes: number, rolling hash and inbox never come apart.  The
\* last rolling hash chains each message of the inbox once, and its number is how
\* many they are, although only the final hash of an anchoring is stored and a
\* list may repeat hashes ("the lastAnchoredL1MessageNumber MUST NOT be
\* incremented and the rolling hash not calculated, else synchronisation will
\* break").
InboxIsRollingHash ==
    /\ ToSet(AnchoredHashes) = DOMAIN inboxL1L2MessageStatus
    /\ Len(AnchoredHashes) = lastAnchoredL1MessageNumber
    /\ Cardinality(DOMAIN inboxL1L2MessageStatus) = lastAnchoredL1MessageNumber

\* A message of the inbox is claimed at most once and never forgotten
\* (_updateL1L2MessageStatusToClaimed): every claim of the L2 chain moves its
\* status from RECEIVED to CLAIMED for good.
InboxMovesForward ==
    [][\A m \in DOMAIN inboxL1L2MessageStatus :
          /\ m \in DOMAIN inboxL1L2MessageStatus'
          /\ inboxL1L2MessageStatus[m] = "CLAIMED" =>
                inboxL1L2MessageStatus'[m] = "CLAIMED" /\ m \notin openBlock'.claims \ openBlock.claims
      ]_vars

\* What a user received on L2 in a finalized block was sent from L1, with that
\* value and fee, whatever the message setter anchored.
FinalizedClaimsWereSent ==
    \A b \in 1 .. currentL2BlockNumber : l2Chain[b].claims \subseteq ToSet(L1Messages)

Owed == {m \in ToSet(MessagesIn(1, currentL2BlockNumber)) : m.number \notin messageClaimed}

\* The rollup holds the ether for every message of the finalized blocks that is
\* not claimed yet: claimMessageWithProof never fails for want of balance, even
\* if messages were invented on L2, because the blocks that spend them cannot be
\* finalized.
EscrowCoversFinalized == MapThenSumSet(Payout, Owed \cup inboxL2L1) <= escrow

\* The pauses of L2: a general pause stops anchoring, claiming and sending, whatever
\* else happens; a pause of one direction stops that direction and not anchoring.
L2PauseFreezes ==
    [][/\ "GENERAL" \in l2Paused => UNCHANGED <<inboxVars, l2NextMessageNumber, circulating>>
       /\ "L2_L1" \in l2Paused => UNCHANGED l2NextMessageNumber
       /\ "L1_L2" \in l2Paused =>
             (\A m \in DOMAIN inboxL1L2MessageStatus :
                inboxL1L2MessageStatus'[m] = inboxL1L2MessageStatus[m])]_vars
=============================================================================
