---------------------------- MODULE RequestFiles ----------------------------
(***************************************************************************)
(* The directories the coordinator and the prover controllers share: the   *)
(* requests, the finished requests and the responses.  A file name is a    *)
(* record: the request it was made from, the number of `.large' suffixes,  *)
(* the exit code of a `.failure.code_N' suffix (0: none) and the           *)
(* controller of an `.inprogress.LocalID' suffix.  Renames are atomic and  *)
(* replace the file of that name.  An operation on the files may fail.     *)
(***************************************************************************)
EXTENDS Integers, FiniteSets

CONSTANTS
    Controllers,    \* the LocalIDs, all different
    Jobs,           \* the proofs the coordinator needs
    KindOf,         \* "execution", "compression" or "aggregation"
    EndOf,          \* the last block of a job
    Codes,          \* exit codes of the prover, 0 for success
    MaxIncidents    \* bound on failures and interruptions together

ASSUME RequestFilesAssumption ==
    /\ KindOf \in [Jobs -> {"execution", "compression", "aggregation"}]
    /\ EndOf \in [Jobs -> Nat]
    /\ Codes \subseteq Nat /\ 0 \in Codes
    /\ MaxIncidents \in Nat

VARIABLES
    requestFiles,   \* the files of the request directories
    doneFiles,      \* the files of the requests-done directories
    responses,      \* the response files: what is in the file of each name
    failures,       \* crashes of controllers, operations on files that failed
    interruptions   \* stops of the coordinator, timeouts of requests in the queue

incidents == <<failures, interruptions>>
files == <<requestFiles, doneFiles, responses, incidents>>

Nobody == "nobody"

RequestFile(j) == [job |-> j, large |-> 0, code |-> 0, by |-> Nobody]
File == [job : Jobs, large : 0 .. 2, code : Codes, by : Controllers \cup {Nobody}]

\* A proof, possibly cut short.
Proof == [of : Jobs, whole : BOOLEAN]

FilesInit ==
    /\ requestFiles = {}
    /\ doneFiles = {}
    /\ responses = [j \in {} |-> [of |-> j, whole |-> FALSE]]
    /\ failures = 0
    /\ interruptions = 0

Fail ==
    /\ failures + interruptions < MaxIncidents
    /\ failures' = failures + 1
    /\ UNCHANGED interruptions

Interrupt ==
    /\ failures + interruptions < MaxIncidents
    /\ interruptions' = interruptions + 1
    /\ UNCHANGED failures

FilesTypeOK ==
    /\ requestFiles \subseteq File
    /\ doneFiles \subseteq [job : Jobs, large : 0 .. 1, code : Codes]
    /\ DOMAIN responses \subseteq Jobs
    /\ \A j \in DOMAIN responses : responses[j] \in Proof
    /\ failures \in 0 .. MaxIncidents
    /\ interruptions \in 0 .. MaxIncidents - failures
=============================================================================
