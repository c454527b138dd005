----------------------------- MODULE ProofQueue -----------------------------
(***************************************************************************)
(* The coordinator and the prover controllers, meeting in the directories. *)
(***************************************************************************)
EXTENDS ProverController, ProverClient

vars == <<files, controllerVars, clientVars>>

Init == FilesInit /\ ControllerInit /\ ClientInit

Provers == \E c \in Controllers : runController(c) \/ Crash(c)

Coordinator ==
    \/ \E j \in Jobs : requestProof(j) \/ timeOut(j) \/ requestFails(j)
    \/ Stop
    \/ start
    \/ \E f \in toDelete : delete(f)

Next ==
    \/ Provers /\ UNCHANGED clientVars
    \/ Coordinator /\ UNCHANGED controllerVars

Spec == Init /\ [][Next]_vars

\* Every process goes on: the loop of a controller (its delay ends, the prover
\* ends, a machine that went down is started again), the polling of the
\* coordinator, the timeout of a wait and the coordinator's start.  Nothing obliges
\* anybody to crash, to stop, to fail or to delete.
Fairness ==
    /\ \A c \in Controllers : WF_vars(runController(c) /\ UNCHANGED clientVars)
    /\ \A j \in Jobs : WF_vars(requestProof(j) /\ UNCHANGED controllerVars)
    /\ \A j \in Jobs : WF_vars(timeOut(j) /\ UNCHANGED controllerVars)
    /\ WF_vars(start /\ UNCHANGED controllerVars)

FairSpec == Spec /\ Fairness

-----------------------------------------------------------------------------

TypeOK == FilesTypeOK /\ ControllerTypeOK /\ ClientTypeOK

Unlocked(f) == [f EXCEPT !.by = Nobody]

\* tryLockFile: the rename is a lock.  The file a controller works on stays where
\* it put it, whoever crashes, cleans up or asks again, and no two controllers
\* work on the same request file.
LocksAreExclusive ==
    \A c \in Controllers : Holding(c) =>
       /\ held[c] \in requestFiles
       /\ \A d \in Controllers \ {c} : Holding(d) => Unlocked(held[c]) # Unlocked(held[d])

\* runController: what the coordinator reads under the name of a response is the
\* whole proof of that job, although provers crash while they write and each
\* controller uses one temporary file for all its jobs.
ResponsesAreWhole ==
    \A j \in DOMAIN responses : responses[j] = Whole(j)

\* A request in the done directory with the success suffix has its response,
\* except where the response could not be moved.
SuccessHasResponse ==
    \A f \in doneFiles : f.code = 0 => f.job \in DOMAIN responses \cup unpublished

\* Locked by a controller that does not hold it (any more).
Stranded(f) == f.by # Nobody /\ held[f.by] # f

\* runController releases what it locked on every path: a lock nobody will release
\* is the trace of a crash or of a rename that failed, and each of those leaves
\* at most one.
EachIncidentStrandsOne ==
    Cardinality({f \in requestFiles : Stranded(f)}) <= failures

\* A file no controller will ever touch again.
Abandoned(f) == f.large = 2 \/ Stranded(f)

Decided(j) ==
    \/ j \in DOMAIN responses
    \/ \E f \in doneFiles : f.job = j
    \/ \E f \in requestFiles : f.job = j /\ Abandoned(f)

\* No request waits for ever in the queue, and none is retried for ever: it gets a
\* response, a place in the done directory, or is left behind by a crash or by
\* the large prover (DeferToLargeFile), which takes a human to repair.
RequestsAreDecided ==
    \A j \in Jobs : (\E f \in requestFiles : f.job = j) ~>
                       (Decided(j) \/ ~ \E f \in requestFiles : f.job = j)

\* The proof of an execution reaches the coordinator whatever timed out and
\* restarted in between.
ExecutionProofsArrive ==
    \A j \in Jobs : KindOf[j] = "execution" =>
       (j \in DOMAIN responses ~> client[j] = "proven")

\* The proof of an execution is delivered although the rename of its request or of
\* its response failed unnoticed (FileWriter.kt:30, controller.go:105), a request was
\* deleted by the clean-up or deferred: the wait times out and the proof is asked for
\* again.  Otherwise a file shows what stopped it: a prover that failed, or a file
\* left behind.
ExecutionsAreServed ==
    \A j \in Jobs : KindOf[j] = "execution" =>
       <>(\/ client[j] = "proven"
          \/ \E f \in doneFiles : f.job = j /\ f.code # 0
          \/ \E f \in requestFiles : f.job = j /\ Abandoned(f))

\* CoordinatorApp.start cleans the request directories before anything asks for a
\* proof (`File cleanup complete in', DirectoryCleaner.kt:30; after cleanup().get()
\* only files in progress are left, DirectoryCleanerTest.kt): a request found in the
\* directory is not one the clean-up is about to delete.
CleanupPrecedesRequests ==
    [][\A j \in Jobs : client[j] = "searching" /\ client'[j] = "waiting" =>
          RequestFile(j) \notin toDelete]_vars
=============================================================================
