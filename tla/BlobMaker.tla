----------------------------- MODULE BlobMaker -----------------------------
(***************************************************************************)
(* The blob compressor the coordinator calls through JNA                   *)
(* (prover/lib/compressor/blob/v1).  What the conflation relies on is      *)
(* which blocks are in which batch of the blob and whether one more block  *)
(* fits; the compressed size is abstracted to a size per block plus the    *)
(* bytes the header spends on every batch (Header.WriteTo counts the batch *)
(* under construction as sealed).                                          *)
(***************************************************************************)
EXTENDS Naturals, Sequences, FiniteSetsExt

CONSTANTS Limit,       \* BlobMaker.Limit, the size of a blob
          BatchBytes   \* the header bytes of one batch

(***************************************************************************)
(* Header: the blocks of the sealed batches, and of the current one.       *)
(***************************************************************************)
EmptyBlob == [BatchSizes |-> <<>>, CurrBatchBlocks |-> {}]

sealBatch(h) ==
  IF h.CurrBatchBlocks = {}
  THEN h
  ELSE [BatchSizes |-> Append(h.BatchSizes, h.CurrBatchBlocks),
        CurrBatchBlocks |-> {}]

(***************************************************************************)
(* The batches of the blob as Bytes returns them.                          *)
(***************************************************************************)
Bytes(h) == sealBatch(h).BatchSizes

BlobLength(h, size) ==
  LET batches == Bytes(h)
  IN  BatchBytes * Len(batches)
        + MapThenSumSet(LAMBDA b : size[b], UNION Range(batches))

(***************************************************************************)
(* Write appends the block; with forceReset (CanWrite) it only answers     *)
(* whether the block fits.  Its two limits, on the uncompressed bytes      *)
(* (MaxUncompressedBytes) and on the packed blob, are one limit here: a    *)
(* block has a single size, and exceeding either is the same answer.       *)
(***************************************************************************)
Write(h, b) == [h EXCEPT !.CurrBatchBlocks = @ \cup {b}]

CanWrite(h, b, size) == BlobLength(Write(h, b), size) <= Limit
=============================================================================
