---------------------------- MODULE ProverClient ----------------------------
(***************************************************************************)
(* The coordinator's side of the request directories:                      *)
(* GenericFileBasedProverClient.kt, one call of requestProof per job, the  *)
(* retries around it and the clean-up of the directories at start.  The    *)
(* file FileWriter writes to before the rename matches no pattern and is   *)
(* left out.                                                               *)
(***************************************************************************)
EXTENDS RequestFiles

CONSTANT Patterns   \* the settings of anyMiddle that are considered

ASSUME ProverClientAssumption == Patterns \subseteq BOOLEAN

VARIABLES
    coordinator,    \* "up" or "down"
    toDelete,       \* the deletions cleanDirectory has asked for
    client,         \* where requestProof is, for each job
    anyMiddle       \* whether inprogressProvingSuffixPattern begins with `.*'

clientVars == <<coordinator, toDelete, client, anyMiddle>>

ClientInit ==
    /\ coordinator = "up"
    /\ toDelete = {}
    /\ client = [j \in Jobs |-> "start"]
    /\ anyMiddle \in Patterns

Goto(j, place) == client' = [client EXCEPT ![j] = place]

\* requestProof: a response that is there already is used.
fileExists(j) ==
    /\ coordinator = "up"
    /\ client[j] = "start"
    /\ Goto(j, IF j \in DOMAIN responses THEN "proven" ELSE "searching")
    /\ UNCHANGED <<files, coordinator, toDelete, anyMiddle>>

\* Mutant: any file is taken for the request.
FoundAlways(j) == TRUE

\* inProgressFilePattern: the request as it was written, or locked.  A deferred
\* request has suffixes before that of the lock: the default pattern
\* `\.inprogress\.prover.*' does not match it even when it is locked,
\* `.*\.inprogress\.prover.*' of the shipped configuration does.
Found(j) ==
    \E f \in requestFiles :
       /\ f.job = j
       /\ \/ f.large = 0 /\ f.code = 0
          \/ anyMiddle /\ f.by # Nobody

\* findRequestFileIfAlreadyInFileSystem
findRequest(j) ==
    /\ coordinator = "up"
    /\ client[j] = "searching"
    /\ Goto(j, IF Found(j) THEN "waiting" ELSE "writing")
    /\ UNCHANGED <<files, coordinator, toDelete, anyMiddle>>

\* FileWriter.write: the request appears under its name once it is whole.  The
\* result of the rename is ignored: the client waits even if there is no request.
writeRequest(j) ==
    /\ coordinator = "up"
    /\ client[j] = "writing"
    /\ \/ requestFiles' = requestFiles \cup {RequestFile(j)} /\ UNCHANGED incidents
       \/ Fail /\ UNCHANGED requestFiles
    /\ Goto(j, "waiting")
    /\ UNCHANGED <<doneFiles, responses, coordinator, toDelete, anyMiddle>>

waitForResponse(j) ==
    /\ coordinator = "up"
    /\ client[j] = "waiting"
    /\ j \in DOMAIN responses
    /\ Goto(j, "proven")
    /\ UNCHANGED <<files, coordinator, toDelete, anyMiddle>>

\* Mutant: nobody asks a second time.
RetriedNever(j) == FALSE

\* ProofGeneratingConflationHandlerImpl retries; the coordinators of compression
\* and aggregation proofs do not.
Retried(j) == KindOf[j] = "execution"

\* The future of requestProof fails.
EndAttempt(j) == Goto(j, IF Retried(j) THEN "start" ELSE "failed")

\* FileMonitor.monitor gives up.  The bound is on the timeouts of requests that are
\* in the queue: a wait for a request that has left it always ends.
timeOut(j) ==
    /\ coordinator = "up"
    /\ client[j] = "waiting"
    /\ EndAttempt(j)
    /\ IF \E f \in requestFiles : f.job = j THEN Interrupt ELSE UNCHANGED incidents
    /\ UNCHANGED <<requestFiles, doneFiles, responses, coordinator, toDelete, anyMiddle>>

\* Reading the response or the directory, the mapper of the request or writing
\* it fails: nobody waits.
requestFails(j) ==
    /\ Fail
    /\ coordinator = "up"
    /\ client[j] \in {"start", "searching", "writing"}
    /\ EndAttempt(j)
    /\ UNCHANGED <<requestFiles, doneFiles, responses, coordinator, toDelete, anyMiddle>>

-----------------------------------------------------------------------------
\* CoordinatorApp.start and stop

\* Mutant: the filter also takes files a controller has locked.
DeletableLocked == {f \in requestFiles : f.large = 0 /\ f.code = 0}

\* JSON_FILE_FILTER: requests nobody has locked end in `.json'.
Deletable == {f \in requestFiles : f.large = 0 /\ f.code = 0 /\ f.by = Nobody}

\* The process is killed, or it is stopped and cleans up.
Stop ==
    /\ Interrupt
    /\ coordinator = "up"
    /\ coordinator' = "down"
    /\ toDelete' \in {{}, toDelete \cup Deletable}
    /\ UNCHANGED <<requestFiles, doneFiles, responses, client, anyMiddle>>

\* cleanup() is done when every directory is listed and the deletions are under
\* way: cleanDirectory returns their futures without waiting for them.
start ==
    /\ coordinator = "down"
    /\ coordinator' = "up"
    /\ toDelete' = Deletable
    /\ client' = [j \in Jobs |-> IF client[j] = "proven" THEN "proven" ELSE "start"]
    /\ UNCHANGED <<files, anyMiddle>>

\* A file that is gone is not an error.
delete(f) ==
    /\ f \in toDelete
    /\ requestFiles' = requestFiles \ {f}
    /\ toDelete' = toDelete \ {f}
    /\ UNCHANGED <<doneFiles, responses, incidents, coordinator, client, anyMiddle>>

requestProof(j) == fileExists(j) \/ findRequest(j) \/ writeRequest(j) \/ waitForResponse(j)

ClientTypeOK ==
    /\ coordinator \in {"up", "down"}
    /\ toDelete \subseteq File
    /\ client \in [Jobs -> {"start", "searching", "writing", "waiting", "proven", "failed"}]
    /\ anyMiddle \in Patterns
=============================================================================
