------------------------------ MODULE L2Chain ------------------------------
(***************************************************************************)
(* The L2 chain as the bridge sees it, and what the public-input circuit   *)
(* (prover/circuits/pi-interconnection/circuit.go) lets a prover claim     *)
(* about it.                                                               *)
(*                                                                         *)
(* Hashes are collision free, so each stands for what was hashed:          *)
(*   - a message hash is the message;                                      *)
(*   - an L1->L2 rolling hash is the sequence of the messages in it;       *)
(*   - a shnarf is the sequence of the blobs chained into it;              *)
(*   - a Merkle root is the sequence of its leaves;                        *)
(*   - the state root of block n is n: the chain is a single history.      *)
(***************************************************************************)
EXTENDS Integers, Sequences, SequencesExt

CONSTANT TreeSize    \* leaves of one L2->L1 message tree, 2^L2MessageMerkleDepth

ASSUME TreeSizeAssumption == TreeSize \in Nat \ {0}

VARIABLE l2Chain

Message == [number : Nat, value : Nat, fee : Nat]
RollingHash == Seq(Message)
EmptyRollingHash == <<>>

Blob == [from : Nat, to : Nat, root : Int]
Shnarf == Seq(Blob)
GenesisShnarf == <<>>

StateRoot(n) == n
ZeroRoot == -1              \* bytes32(0)

\* A sealed block: the RollingHashUpdated events of the L2 message service in
\* it (the numbers of the first and of the last, 0 when there is none), the
\* L2->L1 messages sent and the L1->L2 messages claimed in it.
Block == [timestamp : Nat, firstUpdate : Nat, lastUpdate : Nat,
          rollingHash : RollingHash, messages : Seq(Message),
          claims : SUBSET Message]

L2ChainTypeOK == l2Chain \in Seq(Block)

L2Timestamp(n) == IF n = 0 THEN 0 ELSE l2Chain[n].timestamp

-----------------------------------------------------------------------------
\* Circuit.Define.

\* CHECK_NUM_CONSEC, CHECK_STATE_CONSEC, CHECK_FINAL_SHNARF: the executions of
\* the decompressed blobs start after the last finalized block, follow each
\* other and end in the state roots the shnarfs were computed with.
Tiles(blobs, first, last) ==
    /\ blobs # <<>>
    /\ blobs[1].from = first
    /\ blobs[Len(blobs)].to = last
    /\ \A i \in DOMAIN blobs :
          /\ blobs[i].from <= blobs[i].to
          /\ blobs[i].root = StateRoot(blobs[i].to)
          /\ i < Len(blobs) => blobs[i + 1].from = blobs[i].to + 1

\* The blocks of a range that carry a RollingHashUpdated event.
UpdatesIn(first, last) == {b \in first .. last : l2Chain[b].lastUpdate # 0}

\* The rolling hash and number after the range, those before it being given:
\* api.Select(rollingHashUpdated, pi.LastRollingHashUpdateNumber, ...).
RollingHashAfter(first, last, number, hash) ==
    IF UpdatesIn(first, last) = {} THEN [number |-> number, hash |-> hash]
    ELSE LET b == CHOOSE b \in UpdatesIn(first, last) :
                     \A c \in UpdatesIn(first, last) : c <= b
         IN  [number |-> l2Chain[b].lastUpdate, hash |-> l2Chain[b].rollingHash]

\* What L2 has anchored by the end of block n.
AnchoredAt(n) == RollingHashAfter(1, n, 0, EmptyRollingHash)

\* merkleLeavesConcat: the L2->L1 messages of a range of blocks, in order.
MessagesIn(first, last) ==
    FlattenSeq([i \in 1 .. last - first + 1 |-> l2Chain[first + i - 1].messages])

\* The leaves cut into trees of TreeSize, the last one padded with zeros.
MerkleRoots(leaves) ==
    {SubSeq(leaves, i, IF i + TreeSize - 1 < Len(leaves) THEN i + TreeSize - 1 ELSE Len(leaves)) :
        i \in {j \in DOMAIN leaves : (j - 1) % TreeSize = 0}}

\* What an aggregation proof can show of a public input: there is an execution
\* of the L2 blocks after lastBlock that yields the other values.  The circuit's
\* InitialStateRootHash is a free witness; the executions are those of the one
\* L2 chain by assumption, so it is the root after lastBlock.  Neither ChainID nor
\* L2MessageServiceAddr is part of the public input; there is one of each.
Circuit(pi) ==
    /\ pi.endBlock \in 1 .. Len(l2Chain)
    /\ IsPrefix(pi.parentShnarf, pi.finalShnarf)
    /\ Tiles(SubSeq(pi.finalShnarf, Len(pi.parentShnarf) + 1, Len(pi.finalShnarf)),
             pi.lastBlock + 1, pi.endBlock)
    \* CHECK_TIME_INCREASE, CHECK_FINAL_TIME
    /\ pi.lastTimestamp < l2Chain[pi.lastBlock + 1].timestamp
    /\ pi.finalTimestamp = l2Chain[pi.endBlock].timestamp
    \* CHECK_RHASH_CONSEC, of which only what does not depend on how the blocks
    \* are cut into executions; CHECK_FINAL_RHASH, CHECK_FINAL_RHASH_NUM
    /\ \A b \in UpdatesIn(pi.lastBlock + 1, pi.endBlock) :
          pi.lastNumber < l2Chain[b].firstUpdate
    /\ [number |-> pi.number, hash |-> pi.rollingHash]
          = RollingHashAfter(pi.lastBlock + 1, pi.endBlock, pi.lastNumber, pi.lastRollingHash)
    \* CHECK_MERKLE
    /\ pi.merkleRoots = MerkleRoots(MessagesIn(pi.lastBlock + 1, pi.endBlock))

=============================================================================
