-------------------------- MODULE ProverController --------------------------
(***************************************************************************)
(* prover/cmd/controller/controller: each controller lists the requests,   *)
(* locks the best one by renaming it, runs the prover on it and moves the  *)
(* files according to the exit code.  Controllers share nothing but the    *)
(* directories.                                                            *)
(***************************************************************************)
EXTENDS RequestFiles

CONSTANTS
    LargeControllers,   \* those with CanRunFullLarge
    DeferCodes,         \* DeferToOtherLargeCodes
    RetryCodes,         \* RetryLocallyWithLargeCodes
    NoFile              \* the value of held when nothing is locked

ASSUME ProverControllerAssumption ==
    /\ LargeControllers \subseteq Controllers
    /\ DeferCodes \subseteq Codes \ {0}
    /\ RetryCodes \subseteq Codes \ {0}
    /\ Nobody \notin Controllers
    /\ NoFile \notin File

VARIABLES
    pc,             \* where the loop of runController is
    listed,         \* the jobs GetBest has found and not yet tried
    held,           \* the locked file
    tmp,            \* TmpResponseFile, one per controller: no proof or one
    status,         \* the exit code of the prover
    unpublished     \* history: jobs whose response could not be moved

controllerVars == <<pc, listed, held, tmp, status, unpublished>>

Partial(j) == [of |-> j, whole |-> FALSE]
Whole(j) == [of |-> j, whole |-> TRUE]

ControllerInit ==
    /\ pc = [c \in Controllers |-> "idle"]
    /\ listed = [c \in Controllers |-> {}]
    /\ held = [c \in Controllers |-> NoFile]
    /\ tmp = [c \in Controllers |-> {}]
    /\ status = [c \in Controllers |-> 0]
    /\ unpublished = {}

Holding(c) == pc[c] \in {"running", "retrying", "finishing", "closing"}

-----------------------------------------------------------------------------
\* The queue.

\* Mutant: `(\.large)+' instead of one suffix.
MatchesAnyLarge(c, f) ==
    /\ f.by = Nobody
    /\ IF KindOf[f.job] = "execution" /\ c \in LargeControllers THEN f.large >= 1 ELSE f.large = 0

\* InputFileRegexp: an execution request needs exactly one `.large' suffix for a
\* large controller and none for another; no in-progress file matches.
Matches(c, f) ==
    /\ f.by = Nobody
    /\ f.large = IF KindOf[f.job] = "execution" /\ c \in LargeControllers THEN 1 ELSE 0

Priority(kind) == IF kind = "execution" THEN 0 ELSE 1

Score(f) == 100 * EndOf[f.job] + Priority(KindOf[f.job])

\* The order of JobToWatch, which the stable sort keeps among equal scores.
WatchOrder(kind) == IF kind = "execution" THEN 1 ELSE IF kind = "compression" THEN 2 ELSE 3

Before(f, g) ==
    \/ Score(f) < Score(g)
    \/ Score(f) = Score(g) /\ WatchOrder(KindOf[f.job]) <= WatchOrder(KindOf[g.job])

\* GetBest, the listing of the directories.
List(c) ==
    /\ pc[c] = "idle"
    /\ listed' = [listed EXCEPT ![c] = {f \in requestFiles : Matches(c, f)}]
    /\ listed'[c] # {}
    /\ pc' = [pc EXCEPT ![c] = "locking"]
    /\ UNCHANGED <<files, held, tmp, status, unpublished>>

\* Mutant: the file is taken for locked although another controller renamed it.
CanRenameBlindly(f) == TRUE

\* os.Rename(old, new) succeeds if the old file is still there.
CanRename(f) == f \in requestFiles

\* GetBest, lockBest and tryLockFile: the best job still listed is tried.
tryLockFile(c, f) ==
    /\ pc[c] = "locking"
    /\ f \in listed[c]
    /\ \A g \in listed[c] : Before(f, g)
    /\ IF CanRename(f)
       THEN /\ requestFiles' = (requestFiles \ {f}) \cup {[f EXCEPT !.by = c]}
            /\ held' = [held EXCEPT ![c] = [f EXCEPT !.by = c]]
            /\ listed' = [listed EXCEPT ![c] = {}]
            /\ pc' = [pc EXCEPT ![c] = "running"]
       ELSE /\ listed' = [listed EXCEPT ![c] = @ \ {f}]
            /\ pc' = [pc EXCEPT ![c] = IF listed[c] = {f} THEN "idle" ELSE @]
            /\ UNCHANGED <<requestFiles, held>>
    /\ UNCHANGED <<doneFiles, responses, incidents, tmp, status, unpublished>>

-----------------------------------------------------------------------------
\* The prover.

\* The output of a prover that ends with this exit code.  One that fails may have
\* written none of it or some of it.
Output(c, code) ==
    IF code = 0 THEN {{Whole(held[c].job)}} ELSE {tmp[c], {Partial(held[c].job)}}

\* Run: execution jobs are tried again with the large command, unless the first
\* command was the large one.
RetriesLocally(c, code) ==
    /\ KindOf[held[c].job] = "execution"
    /\ c \notin LargeControllers
    /\ code \in RetryCodes

runCmd(c, code) ==
    /\ pc[c] \in {"running", "retrying"}
    /\ \E output \in Output(c, code) : tmp' = [tmp EXCEPT ![c] = output]
    /\ status' = [status EXCEPT ![c] = code]
    /\ pc' = [pc EXCEPT ![c] =
                IF @ = "running" /\ RetriesLocally(c, code) THEN "retrying" ELSE "finishing"]
    /\ UNCHANGED <<files, listed, held, unpublished>>

-----------------------------------------------------------------------------
\* The files after the run.

\* Mutant: a response is moved into place whatever the prover returned.
SucceededAlways(c) == TRUE

Succeeded(c) == status[c] = 0

\* The temporary response becomes the response; if that fails it is removed.
Publish(c) ==
    /\ pc[c] = "finishing"
    /\ Succeeded(c)
    /\ LET j == held[c].job
       IN  \/ /\ \E proof \in tmp[c] :
                    responses' = [k \in DOMAIN responses \cup {j} |->
                                     IF k = j THEN proof ELSE responses[k]]
              /\ UNCHANGED <<unpublished, incidents>>
           \/ /\ Fail
              /\ unpublished' = unpublished \cup {j}
              /\ UNCHANGED responses
    /\ tmp' = [tmp EXCEPT ![c] = {}]
    /\ pc' = [pc EXCEPT ![c] = "closing"]
    /\ UNCHANGED <<requestFiles, doneFiles, listed, held, status>>

\* Mutant: the name the request had before it was locked.
InProgressPathOriginal(c) == [held[c] EXCEPT !.by = Nobody]

\* InProgressPath: the name under which the request is locked.
InProgressPath(c) == held[c]

\* Mutant: the request goes back under a name its own controller picks up.
DeferToLargeFileSame(f, code) == [f EXCEPT !.code = code, !.by = Nobody]

\* DeferToLargeFile
DeferToLargeFile(f, code) ==
    [job |-> f.job, large |-> f.large + 1, code |-> code, by |-> Nobody]

\* Mutant: a failure goes to the done directory under the name of a success.
DoneFileForgetsCode(f, code) == [job |-> f.job, large |-> f.large, code |-> 0]

\* DoneFile
DoneFile(f, code) == [job |-> f.job, large |-> f.large, code |-> code]

Defers(c) == KindOf[held[c].job] = "execution" /\ status[c] \in DeferCodes

\* The locked file leaves the queue, or goes back to it for the large prover; a
\* failed rename leaves it locked.
Close(c) ==
    /\ pc[c] = "closing" \/ (pc[c] = "finishing" /\ status[c] # 0)
    /\ \/ /\ Defers(c)
          /\ requestFiles' = (requestFiles \ {InProgressPath(c)})
                                \cup {DeferToLargeFile(held[c], status[c])}
          /\ UNCHANGED <<doneFiles, incidents>>
       \/ /\ ~Defers(c)
          /\ requestFiles' = requestFiles \ {InProgressPath(c)}
          /\ doneFiles' = doneFiles \cup {DoneFile(held[c], status[c])}
          /\ UNCHANGED incidents
       \/ /\ Fail
          /\ UNCHANGED <<requestFiles, doneFiles>>
    /\ pc' = [pc EXCEPT ![c] = "idle"]
    /\ held' = [held EXCEPT ![c] = NoFile]
    /\ status' = [status EXCEPT ![c] = 0]
    /\ UNCHANGED <<responses, listed, tmp, unpublished>>

-----------------------------------------------------------------------------

\* The machine goes down: the locked file and the temporary response stay.
Crash(c) ==
    /\ Fail
    /\ pc[c] # "down"
    /\ pc' = [pc EXCEPT ![c] = "down"]
    /\ \/ UNCHANGED tmp
       \/ /\ pc[c] \in {"running", "retrying"}
          /\ tmp' = [tmp EXCEPT ![c] = {Partial(held[c].job)}]
    /\ listed' = [listed EXCEPT ![c] = {}]
    /\ held' = [held EXCEPT ![c] = NoFile]
    /\ status' = [status EXCEPT ![c] = 0]
    /\ UNCHANGED <<requestFiles, doneFiles, responses, unpublished>>

\* runController starts: nothing is recovered.
Restart(c) ==
    /\ pc[c] = "down"
    /\ pc' = [pc EXCEPT ![c] = "idle"]
    /\ UNCHANGED <<files, listed, held, tmp, status, unpublished>>

runController(c) ==
    \/ List(c)
    \/ \E f \in listed[c] : tryLockFile(c, f)
    \/ \E code \in Codes : runCmd(c, code)
    \/ Publish(c)
    \/ Close(c)
    \/ Restart(c)

ControllerTypeOK ==
    /\ pc \in [Controllers -> {"idle", "locking", "running", "retrying", "finishing",
                               "closing", "down"}]
    /\ listed \in [Controllers -> SUBSET File]
    /\ held \in [Controllers -> File \cup {NoFile}]
    /\ \A c \in Controllers : Holding(c) => held[c] \in File /\ held[c].by = c
    /\ tmp \in [Controllers -> SUBSET Proof]
    /\ status \in [Controllers -> Codes]
    /\ unpublished \subseteq Jobs
=============================================================================
