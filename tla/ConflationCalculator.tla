------------------------ MODULE ConflationCalculator ------------------------
(***************************************************************************)
(* The coordinator's decision of how L2 blocks are cut into batches and    *)
(* batches into blobs: GlobalBlockConflationCalculator with its            *)
(* calculators (traces, compressed data, block count, target blocks, time  *)
(* deadline), GlobalBlobAwareConflationCalculator around it, and           *)
(* ConflationServiceImpl.handleConflation, which they call back.           *)
(*                                                                         *)
(* All of it works on one record s:                                        *)
(*   startBlockNumber, lastBlockNumber  the conflation in progress         *)
(*                          (startBlockNumber 0 when it is empty)          *)
(*   traces, blockCount     counters of the traces and block calculators   *)
(*   compressor, dataDrained  the data calculator                          *)
(*   startBlockTimestamp    the deadline calculator: is a start time set   *)
(*   blobBatches, blobBlockCounters  the blob under construction           *)
(*   blocksInProgress       the blocks the service holds                   *)
(*   conflations, blobs     what the handlers have been given              *)
(* The deadline calculator's own lastBlockNumber is written by the same    *)
(* call as the global one and is not kept apart.                           *)
(***************************************************************************)
EXTENDS Naturals, Sequences, SequencesExt, FiniteSetsExt

CONSTANTS TracesLimit,    \* ConflationCalculatorByExecutionTraces
          DataLimit,      \* the blob size limit given to the compressor
          BatchBytes,     \* header bytes of one batch in a blob
          BlocksLimit,    \* ConflationCalculatorByBlockLimit
          BatchesLimit,   \* GlobalBlobAwareConflationCalculator
          Targets         \* ConflationCalculatorByTargetBlockNumbers

Compressor == INSTANCE BlobMaker WITH Limit <- DataLimit

NoBlock == 0

InitialConflation ==
  [startBlockNumber |-> NoBlock, lastBlockNumber |-> 0,
   traces |-> 0, blockCount |-> 0,
   compressor |-> Compressor!EmptyBlob, dataDrained |-> FALSE,
   startBlockTimestamp |-> FALSE,
   blobBatches |-> <<>>, blobBlockCounters |-> {},
   blocksInProgress |-> {}, conflations |-> <<>>, blobs |-> <<>>]

isCurrentConflationEmpty(s) == s.startBlockNumber = NoBlock

triggerPriority ==
  [TARGET_BLOCK_NUMBER |-> 1, DATA_LIMIT |-> 2, TRACES_LIMIT |-> 3,
   TIME_LIMIT |-> 4, BLOCKS_LIMIT |-> 5]

BlockLimitOverflow(s) == s.blockCount >= BlocksLimit

(***************************************************************************)
(* checkOverflow of every calculator, for block b with t traces.           *)
(* size[b] is the compressed size of block b.                              *)
(***************************************************************************)
Triggers(s, b, t, size) ==
  { trigger \in DOMAIN triggerPriority :
      \/ trigger = "TRACES_LIMIT" /\ s.traces + t > TracesLimit
      \/ trigger = "DATA_LIMIT"
           /\ ~Compressor!CanWrite(s.compressor, b, size)
      \/ trigger = "BLOCKS_LIMIT" /\ BlockLimitOverflow(s)
      \/ trigger = "TARGET_BLOCK_NUMBER" /\ b - 1 \in Targets }

FirstTrigger(triggers) ==
  CHOOSE t \in triggers :
    \A u \in triggers : triggerPriority[t] <= triggerPriority[u]

(***************************************************************************)
(* ConflationCalculatorByDataCompressed.reset only clears the compressor   *)
(* once its data has been drained into a blob.                             *)
(***************************************************************************)
ResetDataAlways(s) == [s EXCEPT !.compressor = Compressor!EmptyBlob]
ResetData(s) ==
  IF s.dataDrained
  THEN [s EXCEPT !.compressor = Compressor!EmptyBlob]
  ELSE s

BatchBlocks(batch) == batch.startBlockNumber .. batch.endBlockNumber

(***************************************************************************)
(* ConflationServiceImpl.handleConflation: the batch leaves with those of  *)
(* its blocks that the service holds.                                      *)
(***************************************************************************)
handleConflation(s, batch) ==
  LET blocks == s.blocksInProgress \cap BatchBlocks(batch)
  IN  [s EXCEPT
         !.blocksInProgress = @ \ blocks,
         !.conflations = Append(@, [batch |-> batch, blocks |-> blocks])]

(***************************************************************************)
(* fireBlobTriggerAndResetState.  The blob is given to the handler with    *)
(* its batches and the compressed data; TimesKnown records whether the     *)
(* counters of its first and last block were found (a null assertion in    *)
(* the code).                                                              *)
(***************************************************************************)
fireBlobTriggerAndResetState(s) ==
  LET batches == s.blobBatches
      blob == [conflations |-> batches,
               compressedData |-> Compressor!Bytes(s.compressor),
               timesKnown |-> {batches[1].startBlockNumber,
                               Last(batches).endBlockNumber}
                                 \subseteq s.blobBlockCounters]
  IN  ResetData([s EXCEPT
        !.blobs = Append(@, blob),
        !.dataDrained = TRUE,
        !.blobBatches = <<>>,
        !.blobBlockCounters =
           @ \ UNION {BatchBlocks(batches[i]) : i \in DOMAIN batches}])

(***************************************************************************)
(* GlobalBlobAwareConflationCalculator.handleBatchTrigger: after           *)
(* startNewBatch the last known block, the one about to be appended, is    *)
(* checked again because the new batch costs header bytes.                 *)
(***************************************************************************)
ClosesBlobNotAtTarget(s, trigger) ==
  \/ trigger \in {"DATA_LIMIT", "TIME_LIMIT"}
  \/ Len(s.blobBatches) >= BatchesLimit

ClosesBlob(s, trigger) ==
  \/ trigger \in {"DATA_LIMIT", "TIME_LIMIT", "TARGET_BLOCK_NUMBER"}
  \/ Len(s.blobBatches) >= BatchesLimit

startNewBatchBlindly(s, size) ==
  [s EXCEPT !.compressor = Compressor!sealBatch(@)]

startNewBatch(s, size) ==
  LET sealed == [s EXCEPT !.compressor = Compressor!sealBatch(@)]
  IN  IF Compressor!CanWrite(sealed.compressor, Max(s.blobBlockCounters), size)
      THEN sealed
      ELSE fireBlobTriggerAndResetState(sealed)

handleBatchTrigger(s, batch, size) ==
  LET handled == handleConflation(
                   [s EXCEPT !.blobBatches = Append(@, batch)], batch)
  IN  IF ClosesBlob(handled, batch.trigger)
      THEN fireBlobTriggerAndResetState(handled)
      ELSE startNewBatch(handled, size)

(***************************************************************************)
(* GlobalBlockConflationCalculator.reset and the reset of each calculator. *)
(***************************************************************************)
resetKeepsStart(s) ==
  [ResetData(s) EXCEPT
     !.traces = 0,
     !.blockCount = 0,
     !.startBlockTimestamp = FALSE]

reset(s) ==
  [ResetData(s) EXCEPT
     !.startBlockNumber = NoBlock,
     !.traces = 0,
     !.blockCount = 0,
     !.startBlockTimestamp = FALSE]

fireConflationAndResetState(s, trigger, size) ==
  reset(handleBatchTrigger(
    s,
    [startBlockNumber |-> s.startBlockNumber,
     endBlockNumber |-> s.lastBlockNumber,
     trigger |-> trigger],
    size))

(***************************************************************************)
(* The first half of conflateBlock: flush the conflation in progress when  *)
(* a calculator overflows.                                                 *)
(***************************************************************************)
FlushOnOverflow(s, b, t, size) ==
  LET triggers == Triggers(s, b, t, size)
  IN  IF triggers # {} /\ ~isCurrentConflationEmpty(s)
      THEN fireConflationAndResetState(s, FirstTrigger(triggers), size)
      ELSE s

(***************************************************************************)
(* The second half: appendBlock of every calculator.                       *)
(***************************************************************************)
appendBlockKeepsLast(s, b, t) ==
  [s EXCEPT
     !.startBlockNumber = IF isCurrentConflationEmpty(s) THEN b ELSE @,
     !.traces = @ + t,
     !.blockCount = @ + 1,
     !.compressor = Compressor!Write(@, b),
     !.dataDrained = FALSE,
     !.startBlockTimestamp = TRUE]

appendBlock(s, b, t) ==
  [s EXCEPT
     !.startBlockNumber = IF isCurrentConflationEmpty(s) THEN b ELSE @,
     !.traces = @ + t,
     !.blockCount = @ + 1,
     !.compressor = Compressor!Write(@, b),
     !.dataDrained = FALSE,
     !.startBlockTimestamp = TRUE,
     !.lastBlockNumber = b]

conflateBlock(s, b, t, size) == appendBlock(FlushOnOverflow(s, b, t, size), b, t)

(***************************************************************************)
(* What ensureBlockIsInOrder and each calculator's appendBlock require, or *)
(* throw.  ConflationCalculatorByDataCompressed also throws for a block it *)
(* has not validated: conflateBlock checks for overflow and appends in one *)
(* hold of the global monitor, so that the block appended is always the    *)
(* one validated last.                                                     *)
(***************************************************************************)
AppendIsAccepted(s, b, t, size) ==
  /\ b = s.lastBlockNumber + 1
  /\ s.traces + t <= TracesLimit \/ s.traces = 0
  /\ Compressor!CanWrite(s.compressor, b, size)
  /\ s.blockCount + 1 <= BlocksLimit
=============================================================================
