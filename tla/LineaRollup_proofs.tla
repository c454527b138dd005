------------------------- MODULE LineaRollup_proofs -------------------------
(***************************************************************************)
(* Proofs about LineaRollup, for every set of operators, messages, blobs   *)
(* and withdrawals, and every length of the L2 chain.                      *)
(***************************************************************************)
EXTENDS LineaRollupSpec, WellFoundedInduction, TLAPS

-----------------------------------------------------------------------------
\* The L2 chain.

\* A non-empty set of block numbers has a greatest element: the CHOOSE of
\* RollingHashAfter finds its block.
LEMMA GreatestBlock ==
    ASSUME NEW n \in Nat, NEW S \in SUBSET (1 .. n), S # {}
    PROVE  \E b \in S : \A c \in S : c <= b
<1> DEFINE T == {n - b : b \in S}
<1>1. T \subseteq Nat /\ T # {}
  <2>1. PICK b : b \in S
    OBVIOUS
  <2>2. n - b \in T
    BY <2>1
  <2> QED
    BY <2>2
<1>2. PICK d \in T : \A e \in T : ~ (<<e, d>> \in OpToRel(<, Nat))
  BY <1>1, NatLessThanWellFounded, WFMin
<1>3. PICK b \in S : d = n - b
  OBVIOUS
<1>4. \A c \in S : c <= b
  <2> TAKE c \in S
  <2>1. n - c \in T /\ n - c \in Nat /\ d \in Nat
    BY <1>1
  <2>2. ~ (n - c < d)
    BY <1>2, <2>1 DEF OpToRel
  <2> QED
    BY <1>3, <2>1, <2>2
<1> QED
  BY <1>4

\* Following the RollingHashUpdated events up to a block, and from there to a
\* later one, is following them all the way.
LEMMA RollingHashComposes ==
    ASSUME NEW a \in Nat, NEW b \in Nat, a <= b
    PROVE  RollingHashAfter(a + 1, b, AnchoredAt(a).number, AnchoredAt(a).hash)
              = AnchoredAt(b)
<1> DEFINE U == UpdatesIn(1, a)
           V == UpdatesIn(a + 1, b)
           W == UpdatesIn(1, b)
           Greatest(S) == CHOOSE c \in S : \A d \in S : d <= c
<1>1. W = U \cup V /\ U \subseteq 1 .. a /\ V \subseteq a + 1 .. b /\ W \subseteq 1 .. b
  BY DEF UpdatesIn
<1>2. CASE V = {}
  <2>1. W = U
    BY <1>1, <1>2
  <2>2. AnchoredAt(a) = AnchoredAt(b)
    BY <2>1 DEF AnchoredAt, RollingHashAfter
  <2>3. CASE U = {}
    BY <1>2, <2>1, <2>3 DEF AnchoredAt, RollingHashAfter
  <2>4. CASE U # {}
    BY <1>2, <2>1, <2>2, <2>4 DEF AnchoredAt, RollingHashAfter
  <2> QED
    BY <2>3, <2>4
<1>3. CASE V # {}
  <2>1. PICK m \in V : \A d \in V : d <= m
    BY <1>1, <1>3, GreatestBlock
  <2>2. \A d \in W : d <= m
    BY <1>1, <2>1
  <2>3. Greatest(V) = m
    BY <1>1, <2>1
  <2>4. Greatest(W) = m
    BY <1>1, <2>1, <2>2
  <2>5. W # {}
    BY <1>1, <1>3
  <2> QED
    BY <1>3, <2>3, <2>4, <2>5 DEF AnchoredAt, RollingHashAfter
<1> QED
  BY <1>2, <1>3

\* Blobs that continue a tiling of the blocks up to a, up to b, tile all of them.
LEMMA TilesConcatenate ==
    ASSUME NEW s \in Seq(Blob), NEW t \in Seq(Blob), NEW a \in Nat, NEW b \in Nat,
           IsPrefix(s, t),
           IF a = 0 THEN s = <<>> ELSE Tiles(s, 1, a),
           Tiles(SubSeq(t, Len(s) + 1, Len(t)), a + 1, b)
    PROVE  Tiles(t, 1, b)
<1> DEFINE rest == SubSeq(t, Len(s) + 1, Len(t))
<1>1. Len(s) \in Nat /\ Len(t) \in Nat /\ Len(s) <= Len(t)
  BY DEF IsPrefix
<1>2. rest \in Seq(Blob) /\ Len(rest) = Len(t) - Len(s)
  BY <1>1
<1>3. \A i \in 1 .. Len(s) : t[i] = s[i]
  BY <1>1 DEF IsPrefix
<1>4. \A i \in 1 .. Len(rest) : rest[i] = t[Len(s) + i]
  BY <1>1, <1>2
<1>t. Tiles(rest, a + 1, b)
  OBVIOUS
<1>d. DOMAIN t = 1 .. Len(t) /\ DOMAIN s = 1 .. Len(s) /\ DOMAIN rest = 1 .. Len(rest)
  BY <1>2
<1> HIDE DEF rest
<1>5. Len(rest) > 0 /\ rest[1].from = a + 1 /\ rest[Len(rest)].to = b
  BY <1>2, <1>t DEF Tiles
<1>6. t # <<>> /\ t[Len(t)].to = b
  <2>1. Len(t) = Len(s) + Len(rest) /\ Len(rest) \in 1 .. Len(rest)
    BY <1>1, <1>2, <1>5
  <2>2. t[Len(t)] = rest[Len(rest)]
    BY <2>1, <1>4
  <2> QED
    BY <2>1, <2>2, <1>1, <1>5
<1>7. t[1].from = 1
  <2>1. CASE a = 0
    BY <2>1, <1>4, <1>5, <1>2
  <2>2. CASE a # 0
    BY <2>2, <1>1, <1>3 DEF Tiles
  <2> QED
    BY <2>1, <2>2
<1>8. ASSUME NEW i \in DOMAIN t
      PROVE  /\ t[i].from <= t[i].to
             /\ t[i].root = StateRoot(t[i].to)
             /\ i < Len(t) => t[i + 1].from = t[i].to + 1
  <2>0. i \in Nat /\ i > 0 /\ i <= Len(t)
    BY <1>1, <1>d
  <2>1. CASE i < Len(s)
    <3>1. i \in DOMAIN s /\ t[i] = s[i] /\ t[i + 1] = s[i + 1]
      BY <2>0, <2>1, <1>1, <1>3, <1>d
    <3>2. Tiles(s, 1, a)
      BY <2>0, <2>1
    <3> QED
      BY <2>1, <3>1, <3>2 DEF Tiles
  <2>2. CASE i = Len(s)
    <3>1. a # 0 /\ s[i].to = a
      BY <2>2 DEF Tiles
    <3>2. t[i + 1] = rest[1]
      BY <2>2, <1>1, <1>2, <1>4, <1>5
    <3> QED
      BY <2>2, <3>1, <3>2, <1>1, <1>3, <1>5 DEF Tiles
  <2>3. CASE i > Len(s)
    <3>1. i - Len(s) \in 1 .. Len(rest) /\ t[i] = rest[i - Len(s)]
      BY <2>0, <2>3, <1>1, <1>2, <1>4, SMTT(60)
    <3>2. i < Len(t) => i - Len(s) < Len(rest) /\ t[i + 1] = rest[(i - Len(s)) + 1]
      <4> DEFINE j == (i - Len(s)) + 1
      <4>0. j \in Int /\ Len(s) + j = i + 1
        BY <2>0, <1>1
      <4>1. i < Len(t) => j \in 1 .. Len(rest)
        BY <2>0, <2>3, <4>0, <1>1, <1>2
      <4>2. i < Len(t) => i - Len(s) < Len(rest)
        BY <2>0, <1>1, <1>2
      <4> HIDE DEF j
      <4>3. i < Len(t) => t[i + 1] = rest[j]
        BY <4>0, <4>1, <1>4
      <4> QED
        BY <4>2, <4>3 DEF j
    <3> QED
      BY <3>1, <3>2, <1>d, <1>t DEF Tiles
  <2> QED
    BY <2>0, <2>1, <2>2, <2>3, <1>1
<1> QED
  BY <1>6, <1>7, <1>8 DEF Tiles

-----------------------------------------------------------------------------
\* What is finalized is a prefix of the L2 chain.

\* The shape of the state the argument relies on.
Shape ==
    /\ \E S : l2Chain \in Seq(S)
    /\ currentL2BlockNumber \in Nat
    /\ blobShnarfExists \subseteq Seq(Blob)
    /\ currentFinalizedShnarf \in Seq(Blob)

PrefixInv == Shape /\ FinalizedIsL2Prefix

\* A step that leaves the chain and the finalized values alone.
LEMMA PrefixKept ==
    ASSUME PrefixInv, blobShnarfExists' \subseteq Seq(Blob),
           UNCHANGED <<l2Chain, finalVars>>
    PROVE  PrefixInv'
BY SMTT(60) DEF PrefixInv, Shape, FinalizedIsL2Prefix, finalVars, AnchoredAt, RollingHashAfter,
       UpdatesIn, L2Timestamp

\* Sealing a block changes nothing about the blocks before it.
LEMMA SealKeepsPast ==
    ASSUME NEW S, l2Chain \in Seq(S), NEW block, l2Chain' = Append(l2Chain, block),
           NEW n \in Nat, n <= Len(l2Chain)
    PROVE  AnchoredAt(n)' = AnchoredAt(n) /\ L2Timestamp(n)' = L2Timestamp(n)
<1>1. \A b \in 1 .. n : l2Chain'[b] = l2Chain[b]
  OBVIOUS
<1>2. UpdatesIn(1, n)' = UpdatesIn(1, n)
  BY <1>1 DEF UpdatesIn
<1>3. L2Timestamp(n)' = L2Timestamp(n)
  BY <1>1 DEF L2Timestamp
<1>4. CASE UpdatesIn(1, n) = {}
  BY <1>2, <1>3, <1>4 DEF AnchoredAt, RollingHashAfter
<1>5. CASE UpdatesIn(1, n) # {}
  <2> DEFINE Greatest(T) == CHOOSE b \in T : \A c \in T : c <= b
  <2>1. UpdatesIn(1, n) \subseteq 1 .. n
    BY DEF UpdatesIn
  <2>2. PICK m \in UpdatesIn(1, n) : \A c \in UpdatesIn(1, n) : c <= m
    BY <1>5, <2>1, GreatestBlock
  <2>3. Greatest(UpdatesIn(1, n)) = m /\ m \in 1 .. n
    BY <2>1, <2>2
  <2>4. AnchoredAt(n) = [number |-> l2Chain[m].lastUpdate, hash |-> l2Chain[m].rollingHash]
    BY <1>5, <2>3 DEF AnchoredAt, RollingHashAfter
  <2>5. AnchoredAt(n)' = [number |-> l2Chain'[m].lastUpdate, hash |-> l2Chain'[m].rollingHash]
    BY <1>5, <1>2, <2>3 DEF AnchoredAt, RollingHashAfter
  <2> QED
    BY <1>1, <1>3, <2>3, <2>4, <2>5
<1> QED
  BY <1>4, <1>5

\* What the circuit says of the data a finalization is called with.
LEMMA CircuitOfFinalization ==
    ASSUME NEW fd, Circuit(PublicInput(fd))
    PROVE  /\ fd.endBlockNumber \in 1 .. Len(l2Chain)
           /\ IsPrefix(currentFinalizedShnarf, fd.shnarf)
           /\ Tiles(SubSeq(fd.shnarf, Len(currentFinalizedShnarf) + 1, Len(fd.shnarf)),
                    currentL2BlockNumber + 1, fd.endBlockNumber)
           /\ fd.finalTimestamp = l2Chain[fd.endBlockNumber].timestamp
           /\ [number |-> fd.l1RollingHashMessageNumber, hash |-> fd.l1RollingHash]
                 = RollingHashAfter(currentL2BlockNumber + 1, fd.endBlockNumber,
                                    fd.lastFinalizedL1RollingHashMessageNumber,
                                    fd.lastFinalizedL1RollingHash)
<1>1. PICK pi : pi = PublicInput(fd)
  OBVIOUS
<1>2. /\ pi.endBlock = fd.endBlockNumber
      /\ pi.parentShnarf = currentFinalizedShnarf
      /\ pi.finalShnarf = fd.shnarf
      /\ pi.lastBlock = currentL2BlockNumber
      /\ pi.finalTimestamp = fd.finalTimestamp
      /\ pi.number = fd.l1RollingHashMessageNumber
      /\ pi.rollingHash = fd.l1RollingHash
      /\ pi.lastNumber = fd.lastFinalizedL1RollingHashMessageNumber
      /\ pi.lastRollingHash = fd.lastFinalizedL1RollingHash
  BY <1>1 DEF PublicInput
<1>3. /\ pi.endBlock \in 1 .. Len(l2Chain)
      /\ IsPrefix(pi.parentShnarf, pi.finalShnarf)
      /\ Tiles(SubSeq(pi.finalShnarf, Len(pi.parentShnarf) + 1, Len(pi.finalShnarf)),
               pi.lastBlock + 1, pi.endBlock)
      /\ pi.finalTimestamp = l2Chain[pi.endBlock].timestamp
      /\ [number |-> pi.number, hash |-> pi.rollingHash]
            = RollingHashAfter(pi.lastBlock + 1, pi.endBlock, pi.lastNumber, pi.lastRollingHash)
  BY <1>1, Zenon DEF Circuit
<1> QED
  BY <1>2, <1>3, Zenon

\* finalizeBlocks extends the finalized prefix, whatever data it is called with.
LEMMA FinalizationExtendsPrefix ==
    ASSUME PrefixInv, NEW op, NEW proofType, NEW fd,
           finalizeBlocks(op, proofType, fd), UNCHANGED l2Chain
    PROVE  PrefixInv'
<1> DEFINE cur == currentL2BlockNumber
           end == fd.endBlockNumber
<1>1. /\ Circuit(PublicInput(fd))
      /\ _finalizeBlocks(fd)
      /\ UNCHANGED blobShnarfExists
  BY DEF finalizeBlocks
<1>c. /\ end \in 1 .. Len(l2Chain)
      /\ IsPrefix(currentFinalizedShnarf, fd.shnarf)
      /\ Tiles(SubSeq(fd.shnarf, Len(currentFinalizedShnarf) + 1, Len(fd.shnarf)), cur + 1, end)
      /\ fd.finalTimestamp = l2Chain[end].timestamp
      /\ [number |-> fd.l1RollingHashMessageNumber, hash |-> fd.l1RollingHash]
            = RollingHashAfter(cur + 1, end, fd.lastFinalizedL1RollingHashMessageNumber,
                               fd.lastFinalizedL1RollingHash)
  BY <1>1, CircuitOfFinalization, Zenon
<1>2. /\ end \in Nat /\ end <= Len(l2Chain) /\ end > cur
      /\ cur \in Nat
      /\ fd.shnarf \in Seq(Blob)
      /\ currentFinalizedShnarf \in Seq(Blob)
  <2>1. cur \in Nat /\ currentFinalizedShnarf \in Seq(Blob) /\ Len(l2Chain) \in Nat
    BY DEF PrefixInv, Shape
  <2>2. fd.shnarf \in Seq(Blob)
    BY <1>1 DEF _finalizeBlocks, PrefixInv, Shape
  <2>3. end > cur
    BY <1>1 DEF _finalizeBlocks
  <2> QED
    BY <1>c, <2>1, <2>2, <2>3
<1>3. Tiles(fd.shnarf, 1, end)
  <2>1. IF cur = 0 THEN currentFinalizedShnarf = <<>> ELSE Tiles(currentFinalizedShnarf, 1, cur)
    BY DEF PrefixInv, FinalizedIsL2Prefix, GenesisShnarf
  <2> QED
    BY <1>c, <1>2, <2>1, TilesConcatenate
<1>4. Last(fd.shnarf).root = StateRoot(end)
  <2>1. fd.shnarf # <<>> /\ Len(fd.shnarf) \in DOMAIN fd.shnarf
    BY <1>2, <1>3 DEF Tiles
  <2> QED
    BY <1>3, <2>1 DEF Tiles, Last
<1>5. /\ fd.lastFinalizedL1RollingHashMessageNumber = AnchoredAt(cur).number
      /\ fd.lastFinalizedL1RollingHash = AnchoredAt(cur).hash
  <2>1. currentFinalizedState = FinalizedState(AnchoredAt(cur).number, AnchoredAt(cur).hash,
                                               L2Timestamp(cur))
    BY DEF PrefixInv, FinalizedIsL2Prefix
  <2>2. currentFinalizedState = FinalizedState(fd.lastFinalizedL1RollingHashMessageNumber,
                                   fd.lastFinalizedL1RollingHash, fd.lastFinalizedTimestamp)
    BY <1>1 DEF _finalizeBlocks, LastFinalizedStateIs
  <2>3. /\ currentFinalizedState.number = AnchoredAt(cur).number
        /\ currentFinalizedState.rollingHash = AnchoredAt(cur).hash
    BY <2>1 DEF FinalizedState
  <2>4. /\ currentFinalizedState.number = fd.lastFinalizedL1RollingHashMessageNumber
        /\ currentFinalizedState.rollingHash = fd.lastFinalizedL1RollingHash
    BY <2>2 DEF FinalizedState
  <2> QED
    BY <2>3, <2>4
<1>6. [number |-> fd.l1RollingHashMessageNumber, hash |-> fd.l1RollingHash]
        = RollingHashAfter(cur + 1, end, AnchoredAt(cur).number, AnchoredAt(cur).hash)
  BY <1>c, <1>5
<1>7. /\ fd.l1RollingHashMessageNumber = AnchoredAt(end).number
      /\ fd.l1RollingHash = AnchoredAt(end).hash
  <2>1. AnchoredAt(end) = RollingHashAfter(cur + 1, end, AnchoredAt(cur).number,
                                           AnchoredAt(cur).hash)
    BY <1>2, RollingHashComposes, SMTT(30)
  <2>2. AnchoredAt(end) = [number |-> fd.l1RollingHashMessageNumber, hash |-> fd.l1RollingHash]
    BY <1>6, <2>1
  <2> QED
    BY <2>2
<1>8. fd.finalTimestamp = L2Timestamp(end)
  BY <1>c, <1>2 DEF L2Timestamp
<1>9. /\ currentL2BlockNumber' = end
      /\ currentFinalizedShnarf' = fd.shnarf
      /\ stateRootHashes'[end] = StateRoot(end)
      /\ currentFinalizedState' = FinalizedState(AnchoredAt(end).number, AnchoredAt(end).hash,
                                                 L2Timestamp(end))
  <2>1. /\ currentL2BlockNumber' = end
        /\ currentFinalizedShnarf' = fd.shnarf
    BY <1>1 DEF _finalizeBlocks
  <2>2. stateRootHashes'[end] = StateRoot(end)
    <3>1. stateRootHashes' = [n \in DOMAIN stateRootHashes \cup {end} |->
             IF n = end THEN Last(fd.shnarf).root ELSE stateRootHashes[n]]
      BY <1>1 DEF _finalizeBlocks
    <3> QED
      BY <1>4, <3>1
  <2>3. currentFinalizedState' = FinalizedState(fd.l1RollingHashMessageNumber,
                                                fd.l1RollingHash, fd.finalTimestamp)
    BY <1>1 DEF _finalizeBlocks
  <2> QED
    BY <1>7, <1>8, <2>1, <2>2, <2>3
<1>10. AnchoredAt(end)' = AnchoredAt(end) /\ L2Timestamp(end)' = L2Timestamp(end)
  BY DEF AnchoredAt, RollingHashAfter, UpdatesIn, L2Timestamp
<1> QED
  BY <1>1, <1>2, <1>3, <1>9, <1>10, SMTT(30) DEF PrefixInv, Shape, FinalizedIsL2Prefix

\* Submitted blobs extend shnarfs that are sequences of blobs.
LEMMA SubmissionKeepsShnarfs ==
    ASSUME PrefixInv, NEW op \in Operators, NEW parent \in blobShnarfExists,
           NEW blobs \in Submissions,
           \/ submitBlobs(op, blobs, parent)
           \/ Len(blobs) = 1 /\ submitDataAsCalldata(op, blobs[1], parent)
    PROVE  blobShnarfExists' \subseteq Seq(Blob) /\ UNCHANGED finalVars
<1>1. blobShnarfExists \subseteq Seq(Blob) /\ parent \in Seq(Blob) /\ blobs \in Seq(Blob)
  BY LineaRollupAssumption DEF PrefixInv, Shape
<1>2. CASE submitBlobs(op, blobs, parent)
  <2>1. parent \o blobs \in Seq(Blob)
    BY <1>1
  <2> QED
    BY <1>1, <1>2, <2>1 DEF submitBlobs
<1>3. CASE Len(blobs) = 1 /\ submitDataAsCalldata(op, blobs[1], parent)
  <2>0. Len(blobs) = 1
    BY <1>3
  <2>1. blobs[1] \in Blob
    BY <1>1, <2>0
  <2>2. Append(parent, blobs[1]) \in Seq(Blob)
    BY <1>1, <2>1
  <2> QED
    BY <1>1, <1>3, <2>2 DEF submitDataAsCalldata
<1> QED
  BY <1>2, <1>3

LEMMA PrefixInvInit == Init => PrefixInv
<1> SUFFICES ASSUME Init
             PROVE  PrefixInv
  OBVIOUS
<1>1. UpdatesIn(1, 0) = {}
  BY DEF UpdatesIn
<1>2. AnchoredAt(0) = [number |-> 0, hash |-> EmptyRollingHash]
  BY <1>1 DEF AnchoredAt, RollingHashAfter
<1>3. l2Chain \in Seq({}) /\ Len(l2Chain) = 0
  BY DEF Init
<1>4. Shape
  BY <1>3 DEF Init, RollupInit, Shape, GenesisShnarf
<1>5. FinalizedIsL2Prefix
  BY <1>2, <1>3 DEF Init, RollupInit, FinalizedIsL2Prefix
<1> QED
  BY <1>4, <1>5 DEF PrefixInv

LEMMA PrefixInvStep == PrefixInv /\ [Next]_vars => PrefixInv'
<1> SUFFICES ASSUME PrefixInv, [Next]_vars
             PROVE  PrefixInv'
  OBVIOUS
<1> USE DEF rollupVars, vars
<1>0. blobShnarfExists \subseteq Seq(Blob)
  BY DEF PrefixInv, Shape
<1>1. CASE Tick
  BY <1>0, <1>1, PrefixKept DEF Tick
<1>2. ASSUME NEW t, NEW rollingHash, NEW sent, SealBlock(t, rollingHash, sent)
      PROVE  PrefixInv'
  <2>1. PICK S : l2Chain \in Seq(S)
    BY DEF PrefixInv, Shape
  <2>2. PICK block : l2Chain' = Append(l2Chain, block)
    BY <1>2 DEF SealBlock
  <2>3. UNCHANGED <<finalVars, blobShnarfExists>>
    BY <1>2 DEF SealBlock
  <2>4. /\ currentL2BlockNumber \in Nat /\ currentL2BlockNumber <= Len(l2Chain)
        /\ Len(l2Chain) \in Nat
    BY <2>1 DEF PrefixInv, Shape, FinalizedIsL2Prefix
  <2>5. /\ AnchoredAt(currentL2BlockNumber)' = AnchoredAt(currentL2BlockNumber)
        /\ L2Timestamp(currentL2BlockNumber)' = L2Timestamp(currentL2BlockNumber)
    <3>1. ASSUME NEW n \in Nat, n = currentL2BlockNumber
          PROVE  AnchoredAt(n)' = AnchoredAt(n) /\ L2Timestamp(n)' = L2Timestamp(n)
      BY <2>1, <2>2, <2>4, <3>1, SealKeepsPast
    <3> QED
      BY <2>3, <2>4, <3>1 DEF finalVars
  <2>6. l2Chain' \in Seq(S \cup {block}) /\ Len(l2Chain') = Len(l2Chain) + 1
    BY <2>1, <2>2
  <2>7. Shape'
    BY <1>0, <2>3, <2>4, <2>6 DEF PrefixInv, Shape, finalVars
  <2>8. FinalizedIsL2Prefix'
    BY <2>3, <2>4, <2>5, <2>6 DEF PrefixInv, FinalizedIsL2Prefix, finalVars
  <2> QED
    BY <2>7, <2>8 DEF PrefixInv
<1>3. CASE Anybody /\ UNCHANGED <<now, l2Chain>>
  <2>1. UNCHANGED <<finalVars, blobShnarfExists>>
    BY <1>3 DEF Anybody, sendMessage, claimMessageWithProof, claimMessage, setFallbackOperator
  <2> QED
    BY <1>0, <1>3, <2>1, PrefixKept
<1>4. ASSUME NEW op \in Operators, Operator(op), UNCHANGED <<now, l2Chain>>
      PROVE  PrefixInv'
  <2>1. ASSUME NEW parent \in blobShnarfExists, NEW blobs \in Submissions,
               \/ submitBlobs(op, blobs, parent)
               \/ Len(blobs) = 1 /\ submitDataAsCalldata(op, blobs[1], parent)
        PROVE  PrefixInv'
    BY <1>4, <2>1, SubmissionKeepsShnarfs, PrefixKept
  <2>2. ASSUME NEW proofType, NEW fd, finalizeBlocks(op, proofType, fd)
        PROVE  PrefixInv'
    BY <1>4, <2>2, FinalizationExtendsPrefix
  <2> QED
    BY <1>4, <2>1, <2>2 DEF Operator
<1>5. CASE Roles /\ UNCHANGED <<now, l2Chain>>
  <2>1. UNCHANGED <<finalVars, blobShnarfExists>>
    BY <1>5 DEF Roles, renounceRole, setVerifierAddress, unsetVerifierAddress, pauseByType,
                unPauseByType, resetRateLimit
  <2> QED
    BY <1>0, <1>5, <2>1, PrefixKept
<1>6. CASE UNCHANGED vars
  BY <1>0, <1>6, PrefixKept
<1> QED
  BY <1>1, <1>2, <1>3, <1>4, <1>5, <1>6 DEF Next, Traffic

\* Whatever forks of blobs the operators submit and whatever data they finalize
\* with, what finalizeBlocks has accepted is a prefix of the L2 chain: its blobs
\* cover each block once, and its state root, rolling hash, message number and
\* timestamp are those of its last block.
THEOREM FinalizedPrefix == Spec => []FinalizedIsL2Prefix
<1>1. PrefixInv => FinalizedIsL2Prefix
  BY DEF PrefixInv
<1> QED
  BY <1>1, PrefixInvInit, PrefixInvStep, PTL DEF Spec

-----------------------------------------------------------------------------
\* The feedback loop.

LEMMA PrefixReflexive ==
    ASSUME NEW S, NEW s \in Seq(S)
    PROVE  IsPrefix(s, s)
BY DEF IsPrefix

LEMMA PrefixPointwise ==
    ASSUME NEW S, NEW s \in Seq(S), NEW t \in Seq(S)
    PROVE  IsPrefix(s, t) <=> Len(s) <= Len(t) /\ \A i \in 1 .. Len(s) : s[i] = t[i]
<1>1. ASSUME IsPrefix(s, t), NEW i \in 1 .. Len(s)
      PROVE  s[i] = t[i]
  <2>1. SubSeq(s, 1, Len(s))[i] = SubSeq(t, 1, Len(s))[i] /\ Len(s) <= Len(t)
    BY <1>1 DEF IsPrefix
  <2> QED
    BY <2>1
<1>2. ASSUME Len(s) <= Len(t), \A i \in 1 .. Len(s) : s[i] = t[i]
      PROVE  IsPrefix(s, t)
  BY <1>2 DEF IsPrefix
<1>3. IsPrefix(s, t) => Len(s) <= Len(t)
  BY DEF IsPrefix
<1> QED
  BY <1>1, <1>2, <1>3

LEMMA PrefixTransitive ==
    ASSUME NEW S, NEW s \in Seq(S), NEW t \in Seq(S), NEW u \in Seq(S),
           IsPrefix(s, t), IsPrefix(t, u)
    PROVE  IsPrefix(s, u)
<1>1. Len(s) <= Len(t) /\ \A i \in 1 .. Len(s) : s[i] = t[i]
  BY PrefixPointwise
<1>2. Len(t) <= Len(u) /\ \A i \in 1 .. Len(t) : t[i] = u[i]
  BY PrefixPointwise
<1>3. Len(s) \in Nat /\ Len(t) \in Nat /\ Len(u) \in Nat
  OBVIOUS
<1>4. Len(s) <= Len(u) /\ \A i \in 1 .. Len(s) : s[i] = u[i]
  BY <1>1, <1>2, <1>3
<1> QED
  BY <1>4, PrefixPointwise

LEMMA PrefixAppend ==
    ASSUME NEW S, NEW s \in Seq(S), NEW e \in S
    PROVE  IsPrefix(s, Append(s, e)) /\ Append(s, e) \in Seq(S)
BY DEF IsPrefix

\* The rolling hashes of L1 grow by appending, and those to come are empty.
L1Hashes ==
    /\ rollingHashes \in [0 .. MaxL1Messages -> RollingHash]
    /\ nextMessageNumber \in 1 .. MaxL1Messages + 1
    /\ rollingHashes[0] = EmptyRollingHash
    /\ \A i, j \in 0 .. nextMessageNumber - 1 :
          i <= j => IsPrefix(rollingHashes[i], rollingHashes[j])
    /\ \A n \in 0 .. MaxL1Messages : n >= nextMessageNumber => rollingHashes[n] = EmptyRollingHash

\* So do those of the L2 chain.
L2Hashes ==
    /\ \A b \in 0 .. Len(l2Chain) :
          AnchoredAt(b).hash \in RollingHash /\ AnchoredAt(b).number \in Nat
    /\ \A b, c \in 0 .. Len(l2Chain) :
          b <= c => IsPrefix(AnchoredAt(b).hash, AnchoredAt(c).hash)

\* The finalized rolling hash is one of L1.
FinalizedHashIsL1s ==
    \E n \in 0 .. nextMessageNumber - 1 : currentFinalizedState.rollingHash = rollingHashes[n]

LoopInv == PrefixInv /\ L1Hashes /\ L2Hashes /\ FinalizedHashIsL1s

LEMMA LoopInvSuffices == LoopInv => FinalizedAnchoringIsL1Prefix
<1> SUFFICES ASSUME LoopInv, NEW b \in 1 .. currentL2BlockNumber
             PROVE  IsPrefix(AnchoredAt(b).hash, rollingHashes[nextMessageNumber - 1])
  BY DEF FinalizedAnchoringIsL1Prefix
<1> DEFINE cur == currentL2BlockNumber
           top == rollingHashes[nextMessageNumber - 1]
<1>1. PICK n \in 0 .. nextMessageNumber - 1 : currentFinalizedState.rollingHash = rollingHashes[n]
  BY DEF LoopInv, FinalizedHashIsL1s
<1>2. cur \in Nat /\ cur <= Len(l2Chain) /\ Len(l2Chain) \in Nat
  BY DEF LoopInv, PrefixInv, Shape, FinalizedIsL2Prefix
<1>3. currentFinalizedState.rollingHash = AnchoredAt(cur).hash
  BY DEF LoopInv, PrefixInv, FinalizedIsL2Prefix, FinalizedState
<1>4. /\ AnchoredAt(b).hash \in RollingHash
      /\ AnchoredAt(cur).hash \in RollingHash
      /\ IsPrefix(AnchoredAt(b).hash, AnchoredAt(cur).hash)
  BY <1>2 DEF LoopInv, L2Hashes
<1>5. top \in RollingHash /\ IsPrefix(AnchoredAt(cur).hash, top)
  <2>1. nextMessageNumber - 1 \in 0 .. nextMessageNumber - 1 /\ n <= nextMessageNumber - 1
    BY <1>1 DEF LoopInv, L1Hashes
  <2>2. IsPrefix(rollingHashes[n], top)
    BY <1>1, <2>1 DEF LoopInv, L1Hashes
  <2>3. nextMessageNumber - 1 \in 0 .. MaxL1Messages
    BY LineaRollupAssumption DEF LoopInv, L1Hashes
  <2> QED
    BY <1>1, <1>3, <2>2, <2>3 DEF LoopInv, L1Hashes
<1> QED
  BY <1>4, <1>5, PrefixTransitive DEF RollingHash

\* A message sent from L1 extends the last rolling hash and disturbs no other.
LEMMA SendKeepsL1Hashes ==
    ASSUME L1Hashes, FinalizedHashIsL1s, NEW d \in Deposits, sendMessage(d)
    PROVE  L1Hashes' /\ FinalizedHashIsL1s'
<1> DEFINE next == nextMessageNumber
           message == [number |-> next, value |-> d.value, fee |-> d.fee]
           extended == Append(rollingHashes[next - 1], message)
<1>1. /\ next \in Nat /\ next >= 1 /\ next <= MaxL1Messages /\ MaxL1Messages \in Nat
      /\ next' = next + 1
      /\ rollingHashes' = [rollingHashes EXCEPT ![next] = extended]
  BY LineaRollupAssumption DEF L1Hashes, sendMessage, AddRollingHash
<1>2. message \in Message
  BY <1>1, LineaRollupAssumption DEF Message
<1>3. rollingHashes[next - 1] \in RollingHash
  BY <1>1 DEF L1Hashes
<1>4. extended \in RollingHash /\ IsPrefix(rollingHashes[next - 1], extended)
  BY <1>2, <1>3, PrefixAppend DEF RollingHash
<1>5. \A n \in 0 .. MaxL1Messages :
         rollingHashes'[n] = IF n = next THEN extended ELSE rollingHashes[n]
  BY <1>1 DEF L1Hashes
<1>6. rollingHashes' \in [0 .. MaxL1Messages -> RollingHash]
  BY <1>1, <1>4 DEF L1Hashes
<1> HIDE DEF extended, message
<1>7. ASSUME NEW i \in 0 .. next, NEW j \in 0 .. next, i <= j
      PROVE  IsPrefix(rollingHashes'[i], rollingHashes'[j])
  <2>1. CASE j < next
    BY <1>1, <1>5, <1>7, <2>1 DEF L1Hashes
  <2>2. CASE i = next
    <3>1. rollingHashes'[i] = extended /\ rollingHashes'[j] = extended
      BY <1>1, <1>5, <1>7, <2>2
    <3> QED
      BY <1>4, <3>1, PrefixReflexive DEF RollingHash
  <2>3. CASE i < next /\ j = next
    <3>1. rollingHashes'[i] = rollingHashes[i] /\ rollingHashes'[j] = extended
      BY <1>1, <1>5, <1>7, <2>3
    <3>2. /\ rollingHashes[i] \in RollingHash
          /\ IsPrefix(rollingHashes[i], rollingHashes[next - 1])
      BY <1>1, <1>7, <2>3 DEF L1Hashes
    <3>3. IsPrefix(rollingHashes[i], extended)
      BY <1>3, <1>4, <3>2, PrefixTransitive DEF RollingHash
    <3> QED
      BY <3>1, <3>3
  <2> QED
    BY <1>1, <1>7, <2>1, <2>2, <2>3
<1>8. L1Hashes'
  <2>1. rollingHashes'[0] = EmptyRollingHash
    BY <1>1, <1>5 DEF L1Hashes
  <2>2. \A n \in 0 .. MaxL1Messages : n >= next + 1 => rollingHashes'[n] = EmptyRollingHash
    BY <1>1, <1>5 DEF L1Hashes
  <2> QED
    BY <1>1, <1>6, <1>7, <2>1, <2>2, SMTT(30) DEF L1Hashes
<1>9. FinalizedHashIsL1s'
  <2>1. PICK n \in 0 .. next - 1 : currentFinalizedState.rollingHash = rollingHashes[n]
    BY DEF FinalizedHashIsL1s
  <2>2. n \in 0 .. next'- 1 /\ rollingHashes'[n] = rollingHashes[n]
    BY <1>1, <1>5, <2>1
  <2>3. UNCHANGED currentFinalizedState
    BY DEF sendMessage, finalVars
  <2> QED
    BY <2>1, <2>2, <2>3 DEF FinalizedHashIsL1s
<1> QED
  BY <1>8, <1>9

\* _validateL2ComputedRollingHash accepts rolling hashes of L1 only.
LEMMA FinalizationMeetsL1 ==
    ASSUME LoopInv, NEW op, NEW proofType, NEW fd, finalizeBlocks(op, proofType, fd),
           UNCHANGED l2Chain, PrefixInv'
    PROVE  FinalizedHashIsL1s'
<1> DEFINE number == fd.l1RollingHashMessageNumber
<1>1. /\ ValidateL2ComputedRollingHash(number, fd.l1RollingHash)
      /\ currentFinalizedState' = FinalizedState(number, fd.l1RollingHash, fd.finalTimestamp)
      /\ UNCHANGED sendVars
      /\ currentL2BlockNumber' = fd.endBlockNumber
  BY DEF finalizeBlocks, _finalizeBlocks
<1>2. number \in Nat
  <2>1. AnchoredAt(fd.endBlockNumber)' = AnchoredAt(fd.endBlockNumber)
    BY DEF AnchoredAt, RollingHashAfter, UpdatesIn
  <2>2. number = AnchoredAt(fd.endBlockNumber).number
    BY <1>1, <2>1, SMTT(60) DEF PrefixInv, FinalizedIsL2Prefix, FinalizedState
  <2>3. fd.endBlockNumber \in 0 .. Len(l2Chain)
    BY <1>1, SMTT(60) DEF PrefixInv, Shape, FinalizedIsL2Prefix
  <2> QED
    BY <2>2, <2>3 DEF LoopInv, L2Hashes
<1>3. currentFinalizedState'.rollingHash = fd.l1RollingHash
  BY <1>1 DEF FinalizedState
<1>4. \E n \in 0 .. nextMessageNumber - 1 : fd.l1RollingHash = rollingHashes[n]
  <2>1. CASE number = 0
    BY <1>1, <2>1 DEF ValidateL2ComputedRollingHash, LoopInv, L1Hashes
  <2>2. CASE number # 0
    <3>1. /\ fd.l1RollingHash # EmptyRollingHash
          /\ number <= MaxL1Messages
          /\ rollingHashes[number] = fd.l1RollingHash
      BY <1>1, <2>2 DEF ValidateL2ComputedRollingHash
    <3>2. number < nextMessageNumber
      BY <1>2, <3>1, LineaRollupAssumption DEF LoopInv, L1Hashes
    <3> QED
      BY <1>2, <3>1, <3>2, LineaRollupAssumption DEF LoopInv, L1Hashes
  <2> QED
    BY <2>1, <2>2
<1> QED
  BY <1>1, <1>3, <1>4 DEF FinalizedHashIsL1s, sendVars

\* The L2 message service only ever extends what it has anchored.
LEMMA SealKeepsL2Hashes ==
    ASSUME LoopInv, NEW t, NEW sent,
           NEW rollingHash \in NextRollingHashes \cup {EmptyRollingHash},
           SealBlock(t, rollingHash, sent)
    PROVE  L2Hashes'
<1> DEFINE Greatest(T) == CHOOSE b \in T : \A c \in T : c <= b
<1>1. PICK S : l2Chain \in Seq(S)
  BY DEF LoopInv, PrefixInv, Shape
<1>l. PICK len \in Nat : len = Len(l2Chain)
  BY <1>1
<1>2. PICK block : /\ l2Chain' = Append(l2Chain, block)
                   /\ block.lastUpdate = Len(rollingHash)
                   /\ block.rollingHash = rollingHash
  BY DEF SealBlock
<1>3. /\ len \in Nat /\ Len(l2Chain') = len + 1 /\ l2Chain'[len + 1] = block
      /\ \A b \in 1 .. len : l2Chain'[b] = l2Chain[b]
  BY <1>1, <1>l, <1>2, SMTT(30)
<1>4. \A b \in 0 .. len : AnchoredAt(b)' = AnchoredAt(b)
  BY <1>1, <1>2, <1>3, <1>l, SealKeepsPast, SMTT(60)
<1>5. AnchoredAt(len).hash \in RollingHash /\ AnchoredAt(len).number \in Nat
  BY <1>3, <1>l, SMTT(60) DEF LoopInv, L2Hashes
<1>6. /\ AnchoredAt(len + 1)'.hash \in RollingHash
      /\ AnchoredAt(len + 1)'.number \in Nat
      /\ IsPrefix(AnchoredAt(len).hash, AnchoredAt(len + 1)'.hash)
  <2>1. CASE rollingHash = EmptyRollingHash
    <3>1. block.lastUpdate = 0
      BY <1>2, <2>1 DEF EmptyRollingHash
    <3>2. UpdatesIn(1, len + 1)' = UpdatesIn(1, len) /\ UpdatesIn(1, len)' = UpdatesIn(1, len)
      BY <1>3, <3>1 DEF UpdatesIn
    <3>3. AnchoredAt(len + 1)' = AnchoredAt(len)'
      BY <3>2 DEF AnchoredAt, RollingHashAfter
    <3>4. AnchoredAt(len + 1)' = AnchoredAt(len)
      BY <1>3, <1>4, <3>3
    <3> QED
      BY <1>5, <3>4, PrefixReflexive DEF RollingHash
  <2>2. CASE rollingHash # EmptyRollingHash
    <3>1. rollingHash \in RollingHash /\ IsPrefix(AnchoredAt(len).hash, rollingHash)
      <4>1. rollingHash \in NextRollingHashes
        BY <2>2
      <4>2. /\ IsStrictPrefix(AnchoredAt(len).hash, rollingHash)
            /\ \/ rollingHash \in ToSet(rollingHashes)
               \/ rollingHash = Append(AnchoredAt(len).hash, Stray)
        BY <1>l, <4>1 DEF NextRollingHashes
      <4>3. ToSet(rollingHashes) \subseteq RollingHash
        BY DEF ToSet, LoopInv, L1Hashes
      <4>4. Append(AnchoredAt(len).hash, Stray) \in RollingHash
        BY <1>5 DEF RollingHash, Stray, Message
      <4> QED
        BY <4>2, <4>3, <4>4 DEF IsStrictPrefix
    <3>2. block.lastUpdate # 0 /\ block.lastUpdate \in Nat
      BY <1>2, <2>2, <3>1, SMTT(60) DEF RollingHash, EmptyRollingHash
    <3>3. /\ len + 1 \in UpdatesIn(1, len + 1)'
          /\ UpdatesIn(1, len + 1)' \subseteq 1 .. len + 1
      BY <1>3, <3>2, SMTT(60) DEF UpdatesIn
    <3>4. Greatest(UpdatesIn(1, len + 1)') = len + 1
      BY <1>3, <3>3, SMTT(60)
    <3>5. AnchoredAt(len + 1)'
             = [number |-> l2Chain'[len + 1].lastUpdate, hash |-> l2Chain'[len + 1].rollingHash]
      BY <3>3, <3>4 DEF AnchoredAt, RollingHashAfter
    <3> QED
      BY <1>2, <1>3, <3>1, <3>2, <3>5, SMTT(60)
  <2> QED
    BY <2>1, <2>2
<1>7. ASSUME NEW b \in 0 .. len + 1
      PROVE  AnchoredAt(b)'.hash \in RollingHash /\ AnchoredAt(b)'.number \in Nat
  BY <1>3, <1>l, <1>4, <1>6, <1>7, SMTT(60) DEF LoopInv, L2Hashes
<1>8. ASSUME NEW b \in 0 .. len + 1, NEW c \in 0 .. len + 1, b <= c
      PROVE  IsPrefix(AnchoredAt(b)'.hash, AnchoredAt(c)'.hash)
  <2>1. CASE c <= len
    BY <1>3, <1>4, <1>8, <2>1, <1>l, SMTT(60) DEF LoopInv, L2Hashes
  <2>2. CASE b = len + 1
    <3>1. c = len + 1
      BY <1>3, <1>8, <2>2
    <3> QED
      BY <1>6, <2>2, <3>1, PrefixReflexive DEF RollingHash
  <2>3. CASE b <= len /\ c = len + 1
    <3>1. AnchoredAt(b)' = AnchoredAt(b) /\ AnchoredAt(b).hash \in RollingHash
      BY <1>3, <1>4, <1>8, <2>3, <1>l, SMTT(60) DEF LoopInv, L2Hashes
    <3>2. IsPrefix(AnchoredAt(b).hash, AnchoredAt(len).hash)
      BY <1>3, <1>8, <2>3, <1>l, SMTT(60) DEF LoopInv, L2Hashes
    <3>3. IsPrefix(AnchoredAt(b).hash, AnchoredAt(len + 1)'.hash)
      BY <1>5, <1>6, <3>1, <3>2, PrefixTransitive DEF RollingHash
    <3> QED
      BY <2>3, <3>1, <3>3
  <2> QED
    BY <1>3, <1>8, <2>1, <2>2, <2>3, SMTT(30)
<1> QED
  BY <1>3, <1>7, <1>8 DEF L2Hashes

\* The feedback loop closes: for every L2 chain that anchored anything at all, the
\* messages received in the blocks finalizeBlocks accepted are the first messages
\* sent from L1, in their order.
THEOREM FeedbackLoop == Spec => []FinalizedAnchoringIsL1Prefix
<1>1. Init => LoopInv
  <2> SUFFICES ASSUME Init
               PROVE  LoopInv
    OBVIOUS
  <2>1. PrefixInv
    BY PrefixInvInit
  <2>2. /\ rollingHashes = [n \in 0 .. MaxL1Messages |-> <<>>]
        /\ nextMessageNumber = 1 /\ MaxL1Messages \in Nat
        /\ currentFinalizedState.rollingHash = <<>>
        /\ l2Chain = <<>>
    BY LineaRollupAssumption DEF Init, RollupInit, FinalizedState, EmptyRollingHash
  <2>3. <<>> \in RollingHash /\ IsPrefix(<<>>, <<>>)
    <3>1. <<>> \in Seq(Message)
      OBVIOUS
    <3> QED
      BY <3>1, PrefixReflexive DEF RollingHash
  <2>4. L1Hashes
    BY <2>2, <2>3 DEF L1Hashes, EmptyRollingHash
  <2>5. AnchoredAt(0) = [number |-> 0, hash |-> <<>>]
    BY DEF AnchoredAt, RollingHashAfter, UpdatesIn, EmptyRollingHash
  <2>6. L2Hashes
    BY <2>2, <2>3, <2>5 DEF L2Hashes
  <2>7. FinalizedHashIsL1s
    BY <2>2 DEF FinalizedHashIsL1s
  <2> QED
    BY <2>1, <2>4, <2>6, <2>7 DEF LoopInv
<1>2. LoopInv /\ [Next]_vars => LoopInv'
  <2> SUFFICES ASSUME LoopInv, [Next]_vars
               PROVE  LoopInv'
    OBVIOUS
  <2>0. PrefixInv'
    BY PrefixInvStep DEF LoopInv
  <2>1. UNCHANGED l2Chain => L2Hashes'
    <3> SUFFICES ASSUME UNCHANGED l2Chain
                 PROVE  L2Hashes'
      OBVIOUS
    <3>1. \A b : AnchoredAt(b)' = AnchoredAt(b)
      BY DEF AnchoredAt, RollingHashAfter, UpdatesIn
    <3> QED
      BY <3>1 DEF LoopInv, L2Hashes
  <2>2. UNCHANGED sendVars => L1Hashes'
    BY DEF LoopInv, L1Hashes, sendVars
  <2>3. UNCHANGED <<sendVars, finalVars>> => FinalizedHashIsL1s'
    BY DEF LoopInv, FinalizedHashIsL1s, sendVars, finalVars
  <2>4. CASE UNCHANGED <<l2Chain, sendVars, finalVars>>
    BY <2>0, <2>1, <2>2, <2>3, <2>4 DEF LoopInv
  <2>5. CASE Tick
    BY <2>4, <2>5 DEF Tick, rollupVars
  <2>6. ASSUME NEW t, NEW sent, NEW rollingHash \in NextRollingHashes \cup {EmptyRollingHash},
               SealBlock(t, rollingHash, sent)
        PROVE  LoopInv'
    <3>1. UNCHANGED <<sendVars, finalVars>>
      BY <2>6 DEF SealBlock, rollupVars
    <3> QED
      BY <2>0, <2>2, <2>3, <2>6, <3>1, SealKeepsL2Hashes DEF LoopInv
  <2>7. CASE Anybody /\ UNCHANGED <<now, l2Chain>>
    <3>1. ASSUME NEW d \in Deposits, sendMessage(d)
          PROVE  LoopInv'
      BY <2>0, <2>1, <2>7, <3>1, SendKeepsL1Hashes DEF LoopInv
    <3>2. CASE UNCHANGED <<sendVars, finalVars>>
      BY <2>4, <2>7, <3>2
    <3> QED
      BY <2>7, <3>1, <3>2 DEF Anybody, claimMessageWithProof, claimMessage, setFallbackOperator
  <2>8. ASSUME NEW op \in Operators, Operator(op), UNCHANGED <<now, l2Chain>>
        PROVE  LoopInv'
    <3>1. ASSUME NEW proofType, NEW fd, finalizeBlocks(op, proofType, fd)
          PROVE  LoopInv'
      <4>1. UNCHANGED sendVars
        BY <3>1 DEF finalizeBlocks
      <4> QED
        BY <2>0, <2>1, <2>2, <2>8, <3>1, <4>1, FinalizationMeetsL1 DEF LoopInv
    <3>2. CASE UNCHANGED <<sendVars, finalVars>>
      BY <2>4, <2>8, <3>2
    <3> QED
      BY <2>8, <3>1, <3>2 DEF Operator, submitBlobs, submitDataAsCalldata
  <2>9. CASE Roles /\ UNCHANGED <<now, l2Chain>>
    <3>1. UNCHANGED <<sendVars, finalVars>>
      BY <2>9 DEF Roles, renounceRole, setVerifierAddress, unsetVerifierAddress, pauseByType,
                  unPauseByType, resetRateLimit
    <3> QED
      BY <2>4, <2>9, <3>1
  <2>10. CASE UNCHANGED vars
    BY <2>4, <2>10 DEF vars, rollupVars
  <2> QED
    BY <2>5, <2>6, <2>7, <2>8, <2>9, <2>10 DEF Next, Traffic
<1> QED
  BY <1>1, <1>2, LoopInvSuffices, PTL DEF Spec
=============================================================================
