----------------------------- MODULE Conflation -----------------------------
(***************************************************************************)
(* The threads that drive the conflation calculators, and the monitors     *)
(* they hold while they do.                                                *)
(*                                                                         *)
(*   - for every L2 block, the thread on which its traces counters arrive  *)
(*     runs ConflationServiceImpl.newBlock: it takes the monitor of the    *)
(*     service, then of the blob calculator, then of the global one;       *)
(*   - checkConflationDeadline, on a timer, asks for the latest safe block *)
(*     header, and the callback of that request runs                       *)
(*     handleConflationTrigger: it takes the monitor of the global         *)
(*     calculator, then of the blob calculator, then of the service.       *)
(*                                                                         *)
(* A step is what a thread does up to the next monitor it has to wait for. *)
(* The deadline calculator's methods are part of the steps that call them: *)
(* its monitor is not modelled.  The code holds it across a wait in one    *)
(* case.  If the header is there before thenPeek registers the callback,   *)
(* the callback runs on the timer thread, inside checkConflationDeadline,  *)
(* and waits for the global monitor with the deadline calculator's held,   *)
(* while newBlock takes them the other way round.  The model always runs   *)
(* the callback on a thread of its own.                                    *)
(*                                                                         *)
(* Time is abstracted: a tick that finds the deadline not reached, or a    *)
(* safe block that is too young, changes nothing.  The callback compares   *)
(* the header with the clock read at the tick, so a header that passes is  *)
(* of a block that existed at the tick: header[c] is the chain's head then.*)
(***************************************************************************)
EXTENDS ConflationCalculator, FiniteSets, TLC

CONSTANTS MaxBlock,            \* bound: L2 blocks produced
          Callbacks,           \* deadline checks that can be in flight
          TraceCounts,         \* traces of a block
          DataSizes,           \* compressed size of a block
          CountersCanFail,     \* may rollupGetTracesCounters fail for good
          NoThread

Blocks == 1 .. MaxBlock

Threads == Blocks \cup Callbacks

Monitors == {"service", "blob", "global"}

VARIABLES head,      \* the last L2 block
          tracesOf,  \* input: the traces of each block
          sizeOf,    \* input: the compressed size of each block
          pc,        \* where each thread is
          monitor,   \* the thread that holds each monitor
          queue,     \* ConflationServiceImpl.blocksToConflate
          sending,   \* the block the holder of the service is sending
          header,    \* the safe block a deadline check was answered
          conf       \* the calculators, see ConflationCalculator

vars == <<head, tracesOf, sizeOf, pc, monitor, queue, sending, header, conf>>

inputs == <<tracesOf, sizeOf>>

Init ==
  /\ head = 0
  /\ tracesOf \in [Blocks -> TraceCounts]
  /\ sizeOf \in [Blocks -> DataSizes]
  /\ pc = [t \in Threads |-> "idle"]
  /\ monitor = [m \in Monitors |-> NoThread]
  /\ queue = {}
  /\ sending = NoBlock
  /\ header = [c \in Callbacks |-> 0]
  /\ conf = InitialConflation

Free(m) == monitor[m] = NoThread

Goto(t, label) == pc' = [pc EXCEPT ![t] = label]

Release(ms) == [m \in Monitors |-> IF m \in ms THEN NoThread ELSE monitor[m]]

-----------------------------------------------------------------------------
(* Blocks: BlockToBatchSubmissionCoordinator and ConflationServiceImpl     *)

(***************************************************************************)
(* A block is produced and accepted; its traces counters are requested, in *)
(* parallel for all blocks.                                                *)
(***************************************************************************)
acceptBlock ==
  /\ head < MaxBlock
  /\ head' = head + 1
  /\ Goto(head + 1, "counting")
  /\ UNCHANGED <<inputs, monitor, queue, sending, header, conf>>

(***************************************************************************)
(* getTracesCounters ended in an error: it is logged, and the block is     *)
(* never given to the conflation service.                                  *)
(***************************************************************************)
countersFailed(b) ==
  /\ CountersCanFail
  /\ pc[b] = "counting"
  /\ Goto(b, "failed")
  /\ UNCHANGED <<head, inputs, monitor, queue, sending, header, conf>>

(***************************************************************************)
(* The loop test of sendBlocksInOrderToTracesCounter, for a queue q and    *)
(* the number of the last block sent: poll the head of the queue and go on *)
(* to send it, or leave newBlock.                                          *)
(***************************************************************************)
SendNextAnyOrder(b, q, last, held) ==
  IF q # {}
  THEN /\ queue' = q \ {Min(q)}
       /\ sending' = Min(q)
       /\ Goto(b, "send")
       /\ monitor' = [held EXCEPT !["service"] = b]
  ELSE /\ queue' = q
       /\ sending' = NoBlock
       /\ Goto(b, "done")
       /\ monitor' = [held EXCEPT !["service"] = NoThread]

SendNext(b, q, last, held) ==
  IF q # {} /\ Min(q) = last + 1
  THEN /\ queue' = q \ {Min(q)}
       /\ sending' = Min(q)
       /\ Goto(b, "send")
       /\ monitor' = [held EXCEPT !["service"] = b]
  ELSE /\ queue' = q
       /\ sending' = NoBlock
       /\ Goto(b, "done")
       /\ monitor' = [held EXCEPT !["service"] = NoThread]

(***************************************************************************)
(* newBlock of the service, up to the call of the blob calculator.         *)
(***************************************************************************)
newBlock(b) ==
  /\ pc[b] = "counting"
  /\ Free("service")
  /\ conf' = [conf EXCEPT !.blocksInProgress = @ \cup {b}]
  /\ SendNext(b, queue \cup {b}, conf.lastBlockNumber, monitor)
  /\ UNCHANGED <<head, inputs, header>>

(***************************************************************************)
(* newBlock of the blob calculator, up to the call of the global one.      *)
(***************************************************************************)
newBlobBlock(b) ==
  /\ pc[b] = "send"
  /\ Free("blob")
  /\ monitor' = [monitor EXCEPT !["blob"] = b]
  /\ conf' = [conf EXCEPT !.blobBlockCounters = @ \cup {sending}]
  /\ Goto(b, "conflate")
  /\ UNCHANGED <<head, inputs, queue, sending, header>>

(***************************************************************************)
(* newBlock of the global calculator; the batch and blob handlers it calls *)
(* back need the two monitors this thread already holds.                   *)
(***************************************************************************)
newGlobalBlock(b) ==
  /\ pc[b] = "conflate"
  /\ Free("global")
  /\ conf' = conflateBlock(conf, sending, tracesOf[sending], sizeOf)
  /\ SendNext(b, queue, sending, Release({"blob"}))
  /\ UNCHANGED <<head, inputs, header>>

-----------------------------------------------------------------------------
(* The deadline: ConflationCalculatorByTimeDeadline                        *)

(***************************************************************************)
(* checkConflationDeadline finds a start time and the deadline reached.    *)
(***************************************************************************)
checkConflationDeadline(c) ==
  /\ pc[c] = "idle"
  /\ conf.startBlockTimestamp
  /\ header' = [header EXCEPT ![c] = head]
  /\ Goto(c, "asked")
  /\ UNCHANGED <<head, inputs, monitor, queue, sending, conf>>

(***************************************************************************)
(* The request failed, or there are more blocks to conflate, or the safe   *)
(* block is too young.                                                     *)
(***************************************************************************)
deadlineMissed(c) ==
  /\ pc[c] = "asked"
  /\ header' = [header EXCEPT ![c] = 0]
  /\ Goto(c, "idle")
  /\ UNCHANGED <<head, inputs, monitor, queue, sending, conf>>

noMoreBlocksInL2ChainToConflate(c) ==
  /\ pc[c] = "asked"
  /\ header[c] = conf.lastBlockNumber
  /\ header' = [header EXCEPT ![c] = 0]
  /\ Goto(c, "trigger")
  /\ UNCHANGED <<head, inputs, monitor, queue, sending, conf>>

(***************************************************************************)
(* handleConflationTrigger: toConflationResult fails on a conflation with  *)
(* no start block, and the failure is caught and logged.                   *)
(***************************************************************************)
handleConflationTrigger(c) ==
  /\ pc[c] = "trigger"
  /\ Free("global")
  /\ IF isCurrentConflationEmpty(conf)
     THEN /\ Goto(c, "reset")
          /\ UNCHANGED monitor
     ELSE /\ Goto(c, "blob")
          /\ monitor' = [monitor EXCEPT !["global"] = c]
  /\ UNCHANGED <<head, inputs, queue, sending, header, conf>>

enterHandleBatchTrigger(c) ==
  /\ pc[c] = "blob"
  /\ Free("blob")
  /\ monitor' = [monitor EXCEPT !["blob"] = c]
  /\ Goto(c, "service")
  /\ UNCHANGED <<head, inputs, queue, sending, header, conf>>

(***************************************************************************)
(* handleConflation, the rest of handleBatchTrigger and the global reset.  *)
(***************************************************************************)
fireTimeLimit(c) ==
  /\ pc[c] = "service"
  /\ Free("service")
  /\ conf' = fireConflationAndResetState(conf, "TIME_LIMIT", sizeOf)
  /\ monitor' = Release({"global", "blob"})
  /\ Goto(c, "reset")
  /\ UNCHANGED <<head, inputs, queue, sending, header>>

(***************************************************************************)
(* The deadline calculator's own reset(), after the trigger has returned.  *)
(***************************************************************************)
resetDeadline(c) ==
  /\ pc[c] = "reset"
  /\ conf' = [conf EXCEPT !.startBlockTimestamp = FALSE]
  /\ Goto(c, "idle")
  /\ UNCHANGED <<head, inputs, monitor, queue, sending, header>>

-----------------------------------------------------------------------------

NewBlockStep(b) == newBlock(b) \/ newBlobBlock(b) \/ newGlobalBlock(b)

HeaderAnswered(c) == deadlineMissed(c) \/ noMoreBlocksInL2ChainToConflate(c)

TriggerStep(c) ==
  \/ handleConflationTrigger(c)
  \/ enterHandleBatchTrigger(c)
  \/ fireTimeLimit(c)
  \/ resetDeadline(c)

Next ==
  \/ acceptBlock
  \/ \E b \in Blocks : countersFailed(b) \/ NewBlockStep(b)
  \/ \E c \in Callbacks :
       \/ checkConflationDeadline(c)
       \/ HeaderAnswered(c)
       \/ TriggerStep(c)

Spec == Init /\ [][Next]_vars

(***************************************************************************)
(* Threads keep running while they can take their next monitor, and the    *)
(* timer keeps ticking; a request for the safe block ends.  On a chain     *)
(* without new blocks the clock passes the deadline and the confirmation   *)
(* delay, so a check that could succeed again and again does (strong       *)
(* fairness).  Nothing makes the sequencer produce blocks.                 *)
(***************************************************************************)
FairSpec ==
  /\ Spec
  /\ \A b \in Blocks : WF_vars(NewBlockStep(b))
  /\ \A c \in Callbacks : /\ WF_vars(checkConflationDeadline(c))
                          /\ WF_vars(HeaderAnswered(c))
                          /\ SF_vars(noMoreBlocksInL2ChainToConflate(c))
                          /\ SF_vars(TriggerStep(c))

-----------------------------------------------------------------------------
(* Properties                                                              *)

Conflated == [i \in DOMAIN conf.conflations |-> conf.conflations[i].batch]

TypeOK ==
  /\ head \in 0 .. MaxBlock
  /\ pc \in [Threads -> {"idle", "counting", "failed", "send", "conflate",
                         "done", "asked", "trigger", "blob", "service",
                         "reset"}]
  /\ monitor \in [Monitors -> Threads \cup {NoThread}]
  /\ queue \subseteq Blocks
  /\ sending \in Blocks \cup {NoBlock}
  /\ header \in [Callbacks -> 0 .. MaxBlock]
  /\ conf.startBlockNumber \in 0 .. conf.lastBlockNumber
  /\ conf.lastBlockNumber \in 0 .. MaxBlock
  /\ conf.blobBlockCounters \subseteq Blocks
  /\ conf.blocksInProgress \subseteq Blocks

(***************************************************************************)
(* Batches cut the chain: each starts right after the one before, whatever *)
(* the order in which traces counters arrive and deadlines fire, and it    *)
(* leaves ConflationServiceImpl.handleConflation with all its blocks.      *)
(***************************************************************************)
BatchesCutTheChain ==
  /\ \A i \in DOMAIN Conflated :
       /\ Conflated[i].startBlockNumber =
            IF i = 1 THEN 1 ELSE Conflated[i - 1].endBlockNumber + 1
       /\ Conflated[i].startBlockNumber <= Conflated[i].endBlockNumber
       /\ conf.conflations[i].blocks = BatchBlocks(Conflated[i])
  /\ LET conflated == IF Conflated = <<>> THEN 0
                      ELSE Last(Conflated).endBlockNumber
     IN  IF isCurrentConflationEmpty(conf)
         THEN conf.lastBlockNumber = conflated
         ELSE conf.startBlockNumber = conflated + 1

(***************************************************************************)
(* Blobs cut the sequence of batches, and the compressed data of a blob    *)
(* holds exactly the blocks of its batches, batch by batch: the compressor *)
(* is cleared when a blob has been drained from it and never otherwise.    *)
(***************************************************************************)
BlobsHoldTheirBatches ==
  /\ FlattenSeq([i \in DOMAIN conf.blobs |-> conf.blobs[i].conflations])
       \o conf.blobBatches = Conflated
  /\ \A i \in DOMAIN conf.blobs :
       LET blob == conf.blobs[i] IN
         /\ blob.timesKnown
         /\ blob.compressedData =
              [j \in DOMAIN blob.conflations |->
                 BatchBlocks(blob.conflations[j])]

(***************************************************************************)
(* A batch of more than one block is within the traces limit, so that it   *)
(* can be proven, and within the block limit; a blob is within the data    *)
(* limit and the number of batches an aggregation can take.                *)
(***************************************************************************)
LimitsAreRespected ==
  /\ \A i \in DOMAIN Conflated :
       LET blocks == BatchBlocks(Conflated[i]) IN
         /\ \/ MapThenSumSet(LAMBDA b : tracesOf[b], blocks) <= TracesLimit
            \/ Cardinality(blocks) = 1
         /\ Cardinality(blocks) <= BlocksLimit
  /\ \A i \in DOMAIN conf.blobs :
       LET data == conf.blobs[i].compressedData IN
         /\ Len(data) <= BatchesLimit
         /\ BatchBytes * Len(data)
              + MapThenSumSet(LAMBDA b : sizeOf[b], UNION Range(data))
            <= DataLimit

(***************************************************************************)
(* No block reaches a calculator that cannot take it: the exceptions of    *)
(* ensureBlockIsInOrder and of the appendBlock methods, which would lose   *)
(* the block, are not thrown (for blocks that fit in an empty blob, which  *)
(* the sequencer guarantees).                                              *)
(***************************************************************************)
AppendsAreAccepted ==
  \A b \in Blocks :
    pc[b] = "conflate" /\ Free("global") =>
      AppendIsAccepted(
        FlushOnOverflow(conf, sending, tracesOf[sending], sizeOf),
        sending, tracesOf[sending], sizeOf)

(***************************************************************************)
(* A target block is a boundary of batches and of blobs: none has it       *)
(* before its last block ("used as conflation, blob and aggregation        *)
(* boundary", ConflationTrigger).                                          *)
(***************************************************************************)
TargetsAreBoundaries ==
  \A i \in DOMAIN conf.blobs :
    LET blob == conf.blobs[i].conflations IN
      \A n \in Targets :
        ~(blob[1].startBlockNumber <= n /\ n < Last(blob).endBlockNumber)

(***************************************************************************)
(* "For every new block, the coordinator checks if it can be added to the  *)
(* candidate list" (docs/architecture-description.md): a block whose       *)
(* traces counters arrived, as those of all blocks before it, eventually   *)
(* reaches the calculators.                                                *)
(***************************************************************************)
EveryBlockIsChecked ==
  \A b \in Blocks : pc[b] = "counting" ~> conf.lastBlockNumber >= b

(***************************************************************************)
(* "In case of low activity, the coordinator triggers batch creation after *)
(* some time out" (docs/architecture-description.md): it is not possible   *)
(* that the chain stays quiet for ever, every block handed over, and the   *)
(* conflation in progress is never made a batch.                           *)
(***************************************************************************)
Quiet == \A b \in 1 .. head : pc[b] = "done"

TimeoutFires == ~<>[](Quiet /\ ~isCurrentConflationEmpty(conf))
=============================================================================
