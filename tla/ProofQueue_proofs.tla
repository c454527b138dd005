-------------------------- MODULE ProofQueue_proofs --------------------------
(***************************************************************************)
(* Locks, responses and finished requests of ProofQueue, for any number of *)
(* jobs, controllers, crashes, failures, timeouts and restarts.            *)
(***************************************************************************)
EXTENDS ProofQueue, FiniteSetTheorems, TLAPS

\* The deployment has one large prover (docs/architecture-description.md).
OneLargeController == \A c, d \in LargeControllers : c = d

QueueShape ==
    /\ requestFiles \subseteq File
    /\ pc \in [Controllers -> {"idle", "locking", "running", "retrying", "finishing",
                               "closing", "down"}]
    /\ listed \in [Controllers -> SUBSET File]
    /\ held \in [Controllers -> File \cup {NoFile}]
    /\ tmp \in [Controllers -> SUBSET Proof]
    /\ status \in [Controllers -> Codes]
    /\ client \in [Jobs -> {"start", "searching", "writing", "waiting", "proven", "failed"}]

\* A request is under its first name at most once, locked or not.
OneRequestFile ==
    \A f, g \in requestFiles : f.job = g.job /\ f.large = 0 /\ g.large = 0 => f = g

\* The coordinator writes only where it has found nothing.
WriterIsAlone ==
    \A j \in Jobs : client[j] = "writing" => \A f \in requestFiles : f.job = j => f.large # 0

FirstNameHasNoCode == \A f \in requestFiles : f.large = 0 => f.code = 0

\* What is listed, held or about to be deleted.
ListedMatch == \A c \in Controllers : \A f \in listed[c] : Matches(c, f)
DeletedUnlocked == \A f \in toDelete : f.by = Nobody
HeldIsLocked ==
    \A c \in Controllers : Holding(c) =>
       /\ held[c] \in File
       /\ held[c] \in requestFiles
       /\ held[c].by = c
       /\ Matches(c, Unlocked(held[c]))

LockInv ==
    /\ QueueShape
    /\ OneRequestFile
    /\ WriterIsAlone
    /\ FirstNameHasNoCode
    /\ ListedMatch
    /\ DeletedUnlocked
    /\ HeldIsLocked

-----------------------------------------------------------------------------
LEMMA LockInvInit == Init => LockInv
<1> SUFFICES ASSUME Init PROVE LockInv
  OBVIOUS
<1> USE DEF Init, FilesInit, ControllerInit, ClientInit
<1>1. QueueShape
  BY RequestFilesAssumption DEF QueueShape
<1> QED
  BY <1>1 DEF LockInv, OneRequestFile, WriterIsAlone, FirstNameHasNoCode, ListedMatch,
              DeletedUnlocked, HeldIsLocked, Holding

\* A step that leaves files, locks and the writers alone.
LEMMA LockInvFrame ==
    ASSUME LockInv, UNCHANGED <<requestFiles, held, listed, toDelete>>, QueueShape',
           \A c \in Controllers : Holding(c)' => Holding(c),
           \A j \in Jobs : client'[j] = "writing" => client[j] = "writing"
    PROVE  LockInv'
BY DEF LockInv, OneRequestFile, WriterIsAlone, FirstNameHasNoCode, ListedMatch,
       DeletedUnlocked, HeldIsLocked

LEMMA UnlockedFields ==
    ASSUME NEW f \in File
    PROVE  /\ Unlocked(f) \in File
           /\ Unlocked(f).job = f.job /\ Unlocked(f).large = f.large
           /\ Unlocked(f).code = f.code /\ Unlocked(f).by = Nobody
BY DEF Unlocked, File

LEMMA DeferredFields ==
    ASSUME NEW f \in File, f.large \in 0 .. 1, NEW code \in Codes
    PROVE  DeferToLargeFile(f, code) \in File /\ DeferToLargeFile(f, code).large # 0
<1>1. f.job \in Jobs /\ f.large + 1 \in 0 .. 2 /\ f.large + 1 # 0
  BY DEF File
<1> QED
  BY <1>1 DEF File, DeferToLargeFile

LEMMA ListKeepsLocks ==
    ASSUME LockInv, NEW c \in Controllers, List(c), UNCHANGED clientVars
    PROVE  LockInv'
<1> USE DEF List, clientVars, files
<1>1. QueueShape'
  BY DEF LockInv, QueueShape
<1>2. ListedMatch'
  BY DEF LockInv, QueueShape, ListedMatch, Matches
<1>3. HeldIsLocked'
  BY DEF LockInv, QueueShape, HeldIsLocked, Holding, Matches
<1> QED
  BY <1>1, <1>2, <1>3 DEF LockInv, OneRequestFile, WriterIsAlone, FirstNameHasNoCode,
                          DeletedUnlocked

LEMMA tryLockFileKeepsLocks ==
    ASSUME LockInv, NEW c \in Controllers, NEW f \in listed[c], tryLockFile(c, f),
           UNCHANGED clientVars
    PROVE  LockInv'
<1>0. /\ f \in File /\ f.by = Nobody /\ Matches(c, f)
  BY DEF LockInv, QueueShape, ListedMatch, Matches
<1>1. CASE ~CanRename(f)
  <2>1. /\ UNCHANGED <<requestFiles, held, tmp, status, client, toDelete>>
        /\ listed' = [listed EXCEPT ![c] = @ \ {f}]
        /\ pc' = [pc EXCEPT ![c] = IF listed[c] = {f} THEN "idle" ELSE @]
        /\ pc[c] = "locking"
    BY <1>1 DEF tryLockFile, clientVars
  <2>2. QueueShape'
    BY <2>1 DEF LockInv, QueueShape
  <2>3. ListedMatch'
    BY <2>1 DEF LockInv, QueueShape, ListedMatch, Matches
  <2>4. HeldIsLocked'
    BY <2>1 DEF LockInv, QueueShape, HeldIsLocked, Holding, Matches
  <2> QED
    BY <2>1, <2>2, <2>3, <2>4 DEF LockInv, OneRequestFile, WriterIsAlone,
                                  FirstNameHasNoCode, DeletedUnlocked
<1>2. CASE CanRename(f)
  <2> DEFINE g == [f EXCEPT !.by = c]
  <2>1. /\ requestFiles' = (requestFiles \ {f}) \cup {g}
        /\ held' = [held EXCEPT ![c] = g]
        /\ listed' = [listed EXCEPT ![c] = {}]
        /\ pc' = [pc EXCEPT ![c] = "running"]
        /\ UNCHANGED <<tmp, status, client, toDelete>>
        /\ f \in requestFiles
    BY <1>2 DEF tryLockFile, clientVars, CanRename
  <2>2. /\ g \in File /\ g.job = f.job /\ g.large = f.large /\ g.code = f.code /\ g.by = c
        /\ Unlocked(g) = f
    BY <1>0 DEF File, Unlocked
  <2> HIDE DEF g
  <2>3. QueueShape'
    BY <2>1, <2>2 DEF LockInv, QueueShape
  <2>4. OneRequestFile' /\ WriterIsAlone' /\ FirstNameHasNoCode'
    BY <2>1, <2>2 DEF LockInv, OneRequestFile, WriterIsAlone, FirstNameHasNoCode
  <2>5. ListedMatch' /\ DeletedUnlocked'
    BY <2>1 DEF LockInv, QueueShape, ListedMatch, Matches, DeletedUnlocked
  <2>6. HeldIsLocked'
    <3> SUFFICES ASSUME NEW d \in Controllers, Holding(d)'
                 PROVE  /\ held'[d] \in File
                        /\ held'[d] \in requestFiles'
                        /\ held'[d].by = d
                        /\ Matches(d, Unlocked(held'[d]))
      BY DEF HeldIsLocked, Matches
    <3>1. CASE d = c
      BY <1>0, <2>1, <2>2, <3>1 DEF LockInv, QueueShape
    <3>2. CASE d # c
      <4>1. held'[d] = held[d] /\ Holding(d)
        BY <2>1, <3>2 DEF LockInv, QueueShape, Holding
      <4>2. /\ held[d] \in File /\ held[d] \in requestFiles /\ held[d].by = d
            /\ Matches(d, Unlocked(held[d]))
        BY <4>1 DEF LockInv, HeldIsLocked
      <4>3. held[d] # f
        BY <1>0, <4>2, ProverControllerAssumption
      <4> QED
        BY <2>1, <4>1, <4>2, <4>3
    <3> QED
      BY <3>1, <3>2
  <2> QED
    BY <2>3, <2>4, <2>5, <2>6 DEF LockInv
<1> QED
  BY <1>1, <1>2

LEMMA runCmdKeepsLocks ==
    ASSUME LockInv, NEW c \in Controllers, NEW code \in Codes, runCmd(c, code),
           UNCHANGED clientVars
    PROVE  LockInv'
<1>1. /\ UNCHANGED <<requestFiles, held, listed, toDelete, client>>
      /\ pc[c] \in {"running", "retrying"}
      /\ status' = [status EXCEPT ![c] = code]
      /\ pc' = [pc EXCEPT ![c] =
                  IF @ = "running" /\ RetriesLocally(c, code) THEN "retrying" ELSE "finishing"]
  BY DEF runCmd, files, clientVars
<1>2. PICK output \in Output(c, code) : tmp' = [tmp EXCEPT ![c] = output]
  BY DEF runCmd
<1>3. held[c] \in File /\ held[c].job \in Jobs
  BY <1>1 DEF LockInv, HeldIsLocked, Holding, File
<1>4. output \subseteq Proof
  <2>1. Whole(held[c].job) \in Proof /\ Partial(held[c].job) \in Proof
    BY <1>3 DEF Whole, Partial, Proof
  <2>2. tmp[c] \subseteq Proof
    BY DEF LockInv, QueueShape
  <2> QED
    BY <1>2, <2>1, <2>2 DEF Output
<1>5. QueueShape'
  BY <1>1, <1>2, <1>4 DEF LockInv, QueueShape
<1>6. \A d \in Controllers : Holding(d)' => Holding(d)
  BY <1>1 DEF LockInv, QueueShape, Holding
<1> QED
  BY <1>1, <1>5, <1>6, LockInvFrame

LEMMA PublishKeepsLocks ==
    ASSUME LockInv, NEW c \in Controllers, Publish(c), UNCHANGED clientVars
    PROVE  LockInv'
<1>1. /\ UNCHANGED <<requestFiles, held, listed, toDelete, client, status>>
      /\ pc[c] = "finishing"
      /\ pc' = [pc EXCEPT ![c] = "closing"]
      /\ tmp' = [tmp EXCEPT ![c] = {}]
  BY DEF Publish, clientVars
<1>2. QueueShape'
  BY <1>1 DEF LockInv, QueueShape
<1>3. \A d \in Controllers : Holding(d)' => Holding(d)
  BY <1>1 DEF LockInv, QueueShape, Holding
<1> QED
  BY <1>1, <1>2, <1>3, LockInvFrame

LEMMA CloseKeepsLocks ==
    ASSUME LockInv, NEW c \in Controllers, Close(c), UNCHANGED clientVars
    PROVE  LockInv'
<1>1. /\ UNCHANGED <<listed, toDelete, client, tmp>>
      /\ pc' = [pc EXCEPT ![c] = "idle"]
      /\ held' = [held EXCEPT ![c] = NoFile]
      /\ status' = [status EXCEPT ![c] = 0]
      /\ Holding(c)
  BY DEF Close, clientVars, Holding
<1>2. /\ held[c] \in File /\ held[c].by = c /\ held[c].large \in 0 .. 1
  <2>1. /\ held[c] \in File /\ held[c].by = c /\ Matches(c, Unlocked(held[c]))
    BY <1>1 DEF LockInv, HeldIsLocked
  <2> QED
    BY <2>1, UnlockedFields DEF Matches
<1>3. PICK S \in SUBSET File :
        /\ requestFiles' = S
        /\ \A f \in S : f \in requestFiles \/ f.large # 0
        /\ \A f \in requestFiles : f # held[c] => f \in S
  <2>1. requestFiles \subseteq File
    BY DEF LockInv, QueueShape
  <2>2. CASE UNCHANGED requestFiles \/ requestFiles' = requestFiles \ {held[c]}
    BY <2>1, <2>2
  <2>3. CASE requestFiles' = (requestFiles \ {held[c]})
                               \cup {DeferToLargeFile(held[c], status[c])}
    <3>1. status[c] \in Codes
      BY DEF LockInv, QueueShape
    <3>2. /\ DeferToLargeFile(held[c], status[c]) \in File
          /\ DeferToLargeFile(held[c], status[c]).large # 0
      BY <1>2, <3>1, DeferredFields
    <3> QED
      BY <2>1, <2>3, <3>2
  <2> QED
    BY <2>2, <2>3 DEF Close, InProgressPath
<1>4. QueueShape'
  BY <1>1, <1>3, RequestFilesAssumption DEF LockInv, QueueShape
<1>5. OneRequestFile' /\ WriterIsAlone' /\ FirstNameHasNoCode'
  BY <1>1, <1>3 DEF LockInv, OneRequestFile, WriterIsAlone, FirstNameHasNoCode
<1>6. ListedMatch' /\ DeletedUnlocked'
  BY <1>1 DEF LockInv, ListedMatch, Matches, DeletedUnlocked
<1>7. HeldIsLocked'
  <2> SUFFICES ASSUME NEW d \in Controllers, Holding(d)'
               PROVE  /\ held'[d] \in File
                      /\ held'[d] \in requestFiles'
                      /\ held'[d].by = d
                      /\ Matches(d, Unlocked(held'[d]))
    BY DEF HeldIsLocked, Matches
  <2>1. d # c /\ Holding(d) /\ held'[d] = held[d]
    BY <1>1 DEF LockInv, QueueShape, Holding
  <2>2. /\ held[d] \in File /\ held[d] \in requestFiles /\ held[d].by = d
        /\ Matches(d, Unlocked(held[d]))
    BY <2>1 DEF LockInv, HeldIsLocked
  <2>3. held[d] # held[c]
    BY <1>2, <2>1, <2>2
  <2> QED
    BY <1>3, <2>1, <2>2, <2>3
<1> QED
  BY <1>4, <1>5, <1>6, <1>7 DEF LockInv

LEMMA CrashKeepsLocks ==
    ASSUME LockInv, NEW c \in Controllers, Crash(c), UNCHANGED clientVars
    PROVE  LockInv'
<1>1. /\ UNCHANGED <<requestFiles, toDelete, client>>
      /\ pc' = [pc EXCEPT ![c] = "down"]
      /\ listed' = [listed EXCEPT ![c] = {}]
      /\ held' = [held EXCEPT ![c] = NoFile]
      /\ status' = [status EXCEPT ![c] = 0]
  BY DEF Crash, clientVars
<1>2. tmp' \in [Controllers -> SUBSET Proof]
  <2>1. tmp \in [Controllers -> SUBSET Proof]
    BY DEF LockInv, QueueShape
  <2>2. CASE UNCHANGED tmp
    BY <2>1, <2>2
  <2>3. CASE /\ pc[c] \in {"running", "retrying"}
             /\ tmp' = [tmp EXCEPT ![c] = {Partial(held[c].job)}]
    <3>1. held[c] \in File /\ held[c].job \in Jobs
      BY <2>3 DEF LockInv, HeldIsLocked, Holding, File
    <3>2. Partial(held[c].job) \in Proof
      BY <3>1 DEF Partial, Proof
    <3> QED
      BY <2>1, <2>3, <3>2
  <2> QED
    BY <2>2, <2>3 DEF Crash
<1>3. QueueShape'
  BY <1>1, <1>2, RequestFilesAssumption DEF LockInv, QueueShape
<1>4. ListedMatch' /\ DeletedUnlocked'
  BY <1>1 DEF LockInv, QueueShape, ListedMatch, Matches, DeletedUnlocked
<1>5. HeldIsLocked'
  BY <1>1 DEF LockInv, QueueShape, HeldIsLocked, Holding, Matches
<1> QED
  BY <1>1, <1>3, <1>4, <1>5 DEF LockInv, OneRequestFile, WriterIsAlone, FirstNameHasNoCode

LEMMA RestartKeepsLocks ==
    ASSUME LockInv, NEW c \in Controllers, Restart(c), UNCHANGED clientVars
    PROVE  LockInv'
<1>1. /\ UNCHANGED <<requestFiles, held, listed, toDelete, client, tmp, status>>
      /\ pc' = [pc EXCEPT ![c] = "idle"]
  BY DEF Restart, files, clientVars
<1>2. QueueShape'
  BY <1>1 DEF LockInv, QueueShape
<1>3. \A d \in Controllers : Holding(d)' => Holding(d)
  BY <1>1 DEF LockInv, QueueShape, Holding
<1> QED
  BY <1>1, <1>2, <1>3, LockInvFrame

\* requestProof: only writeRequest adds a file, and it is alone.
LEMMA requestProofKeepsLocks ==
    ASSUME LockInv, NEW j \in Jobs, requestProof(j) \/ timeOut(j) \/ requestFails(j),
           UNCHANGED controllerVars
    PROVE  LockInv'
<1> USE DEF controllerVars, Goto, Holding
<1>1. CASE writeRequest(j)
  <2>1. /\ requestFiles' = requestFiles \cup {RequestFile(j)} \/ UNCHANGED requestFiles
        /\ client' = [client EXCEPT ![j] = "waiting"]
        /\ client[j] = "writing"
        /\ UNCHANGED <<pc, listed, held, tmp, status, toDelete>>
    BY <1>1 DEF writeRequest
  <2>2. /\ RequestFile(j) \in File
        /\ RequestFile(j).job = j /\ RequestFile(j).large = 0 /\ RequestFile(j).code = 0
    BY RequestFilesAssumption DEF RequestFile, File
  <2>3. QueueShape'
    BY <2>1, <2>2 DEF LockInv, QueueShape
  <2>4. OneRequestFile' /\ WriterIsAlone' /\ FirstNameHasNoCode'
    BY <2>1, <2>2 DEF LockInv, QueueShape, OneRequestFile, WriterIsAlone, FirstNameHasNoCode
  <2> QED
    BY <2>1, <2>3, <2>4 DEF LockInv, ListedMatch, DeletedUnlocked, HeldIsLocked, Matches
<1>2. CASE findRequest(j)
  <2>1. /\ UNCHANGED <<requestFiles, pc, listed, held, tmp, status, toDelete>>
        /\ client' = [client EXCEPT ![j] = IF Found(j) THEN "waiting" ELSE "writing"]
    BY <1>2 DEF findRequest, files
  <2>2. QueueShape'
    BY <2>1 DEF LockInv, QueueShape
  <2>3. WriterIsAlone'
    BY <2>1 DEF LockInv, QueueShape, WriterIsAlone, FirstNameHasNoCode, Found
  <2> QED
    BY <2>1, <2>2, <2>3 DEF LockInv, OneRequestFile, FirstNameHasNoCode, ListedMatch,
                            DeletedUnlocked, HeldIsLocked, Matches
<1>3. CASE fileExists(j) \/ waitForResponse(j) \/ timeOut(j) \/ requestFails(j)
  <2>1. PICK place \in {"start", "searching", "proven", "failed"} :
          client' = [client EXCEPT ![j] = place]
    BY <1>3 DEF fileExists, waitForResponse, timeOut, requestFails, EndAttempt
  <2>2. UNCHANGED <<requestFiles, pc, listed, held, tmp, status, toDelete>>
    BY <1>3 DEF fileExists, waitForResponse, timeOut, requestFails, files
  <2>3. QueueShape'
    BY <2>1, <2>2 DEF LockInv, QueueShape
  <2>4. \A k \in Jobs : client'[k] = "writing" => client[k] = "writing"
    BY <2>1 DEF LockInv, QueueShape
  <2> QED
    BY <2>2, <2>3, <2>4, LockInvFrame
<1> QED
  BY <1>1, <1>2, <1>3 DEF requestProof

\* Stopping and starting the coordinator deletes no locked file.
LEMMA startKeepsLocks ==
    ASSUME LockInv, Stop \/ start, UNCHANGED controllerVars
    PROVE  LockInv'
<1> USE DEF controllerVars, Holding
<1>1. UNCHANGED <<requestFiles, pc, listed, held, tmp, status>>
  BY DEF Stop, start, files
<1>2. \/ UNCHANGED client
      \/ client' = [j \in Jobs |-> IF client[j] = "proven" THEN "proven" ELSE "start"]
  BY DEF Stop, start
<1>3. QueueShape'
  BY <1>1, <1>2 DEF LockInv, QueueShape
<1>4. WriterIsAlone'
  BY <1>1, <1>2 DEF LockInv, WriterIsAlone
<1>5. DeletedUnlocked'
  BY DEF LockInv, DeletedUnlocked, Stop, start, Deletable
<1> QED
  BY <1>1, <1>3, <1>4, <1>5 DEF LockInv, OneRequestFile, FirstNameHasNoCode, ListedMatch,
                                HeldIsLocked, Matches

LEMMA deleteKeepsLocks ==
    ASSUME LockInv, NEW f \in toDelete, delete(f), UNCHANGED controllerVars
    PROVE  LockInv'
<1> USE DEF controllerVars, Holding
<1>1. /\ UNCHANGED <<pc, listed, held, tmp, status, client>>
      /\ requestFiles' = requestFiles \ {f}
      /\ toDelete' = toDelete \ {f}
  BY DEF delete
<1>2. QueueShape'
  BY <1>1 DEF LockInv, QueueShape
<1>3. OneRequestFile' /\ WriterIsAlone' /\ FirstNameHasNoCode'
  BY <1>1 DEF LockInv, OneRequestFile, WriterIsAlone, FirstNameHasNoCode
<1>4. ListedMatch' /\ DeletedUnlocked'
  BY <1>1 DEF LockInv, ListedMatch, Matches, DeletedUnlocked
<1>5. HeldIsLocked'
  <2> SUFFICES ASSUME NEW c \in Controllers, Holding(c)
               PROVE  held[c] \in requestFiles'
    BY <1>1 DEF LockInv, HeldIsLocked, Matches
  <2>1. held[c] \in requestFiles /\ held[c].by = c
    BY DEF LockInv, HeldIsLocked
  <2>2. held[c] # f
    BY <2>1, ProverControllerAssumption DEF LockInv, DeletedUnlocked
  <2> QED
    BY <1>1, <2>1, <2>2
<1> QED
  BY <1>2, <1>3, <1>4, <1>5 DEF LockInv

LEMMA LockInvNext == LockInv /\ [Next]_vars => LockInv'
<1> SUFFICES ASSUME LockInv, [Next]_vars PROVE LockInv'
  OBVIOUS
<1>1. CASE UNCHANGED vars
  BY <1>1 DEF vars, files, controllerVars, clientVars, LockInv, QueueShape, OneRequestFile,
              WriterIsAlone, FirstNameHasNoCode, ListedMatch, DeletedUnlocked, HeldIsLocked,
              Holding, Matches
<1>2. CASE Provers /\ UNCHANGED clientVars
  <2>1. PICK c \in Controllers : runController(c) \/ Crash(c)
    BY <1>2 DEF Provers
  <2> QED
    BY <1>2, <2>1, ListKeepsLocks, tryLockFileKeepsLocks, runCmdKeepsLocks, PublishKeepsLocks,
       CloseKeepsLocks, CrashKeepsLocks, RestartKeepsLocks DEF runController
<1>3. CASE Coordinator /\ UNCHANGED controllerVars
  BY <1>3, requestProofKeepsLocks, startKeepsLocks, deleteKeepsLocks DEF Coordinator
<1> QED
  BY <1>1, <1>2, <1>3 DEF Next

LEMMA LockInvExcludes == OneLargeController /\ LockInv => LocksAreExclusive
<1> SUFFICES ASSUME OneLargeController, LockInv,
                    NEW c \in Controllers, Holding(c),
                    NEW d \in Controllers \ {c}, Holding(d),
                    Unlocked(held[c]) = Unlocked(held[d])
             PROVE  FALSE
  BY DEF LocksAreExclusive, LockInv, HeldIsLocked
<1>1. /\ held[c] \in File /\ held[c] \in requestFiles /\ held[c].by = c
      /\ held[d] \in File /\ held[d] \in requestFiles /\ held[d].by = d
      /\ Matches(c, Unlocked(held[c])) /\ Matches(d, Unlocked(held[d]))
  BY DEF LockInv, HeldIsLocked
<1>2. held[c].job = held[d].job /\ held[c].large = held[d].large
  BY <1>1, UnlockedFields
<1>3. CASE held[c].large = 0
  BY <1>1, <1>2, <1>3 DEF LockInv, OneRequestFile
<1>4. CASE held[c].large # 0
  BY <1>1, <1>2, <1>4, UnlockedFields DEF Matches, OneLargeController
<1> QED
  BY <1>3, <1>4

\* tryLockFile: with one large prover the rename of the request file is a lock.  The
\* file a controller works on stays where it put it and no two controllers work on
\* the same request, for any number of jobs, controllers, crashes, timeouts and
\* restarts.
THEOREM LockExclusion == OneLargeController => (Spec => []LocksAreExclusive)
<1>1. Spec => []LockInv
  BY LockInvInit, LockInvNext, PTL DEF Spec
<1>2. OneLargeController => (LockInv => LocksAreExclusive)
  BY LockInvExcludes
<1>3. SUFFICES ASSUME OneLargeController PROVE Spec => []LocksAreExclusive
  OBVIOUS
<1>4. LockInv => LocksAreExclusive
  BY <1>2, <1>3
<1> QED
  BY <1>1, <1>4, PTL

-----------------------------------------------------------------------------
\* Until it is published the temporary response of a prover that succeeded is the
\* whole proof of the file the controller holds, and once the controller closes the
\* job the response is in its place, or could not be moved.
ResponseInv ==
    /\ LockInv
    /\ \A c \in Controllers : pc[c] = "finishing" /\ status[c] = 0 =>
          tmp[c] = {Whole(held[c].job)}
    /\ \A c \in Controllers : pc[c] = "closing" =>
          /\ status[c] = 0
          /\ held[c].job \in DOMAIN responses \cup unpublished
    /\ ResponsesAreWhole
    /\ SuccessHasResponse

LEMMA ResponseInvInit == Init => ResponseInv
BY LockInvInit DEF ResponseInv, ResponsesAreWhole, SuccessHasResponse, Init, FilesInit,
                   ControllerInit

LEMMA ResponseInvNext == ResponseInv /\ [Next]_vars => ResponseInv'
<1> SUFFICES ASSUME ResponseInv, [Next]_vars PROVE ResponseInv'
  OBVIOUS
<1>0. LockInv' /\ QueueShape
  BY LockInvNext DEF ResponseInv, LockInv
<1> USE DEF ResponseInv, ResponsesAreWhole, SuccessHasResponse
<1>1. CASE UNCHANGED <<doneFiles, responses, unpublished, pc, status, tmp, held>>
  BY <1>0, <1>1
<1>2. ASSUME NEW c \in Controllers, runController(c) \/ Crash(c)
      PROVE  ResponseInv'
  <2>1. CASE List(c)
    BY <1>0, <2>1 DEF List, files, QueueShape
  <2>2. ASSUME NEW f \in listed[c], tryLockFile(c, f)
        PROVE  ResponseInv'
    <3>1. /\ UNCHANGED <<doneFiles, responses, unpublished, tmp, status>>
          /\ pc[c] = "locking"
      BY <2>2 DEF tryLockFile
    <3>2. \E place \in {"running", "idle", "locking"} : pc' = [pc EXCEPT ![c] = place]
      BY <2>2, <3>1 DEF tryLockFile
    <3>3. \A d \in Controllers : d # c => held'[d] = held[d]
      BY <1>0, <2>2 DEF tryLockFile, QueueShape
    <3> QED
      BY <1>0, <3>1, <3>2, <3>3 DEF QueueShape
  <2>3. ASSUME NEW code \in Codes, runCmd(c, code)
        PROVE  ResponseInv'
    <3>1. /\ UNCHANGED <<doneFiles, responses, unpublished, held>>
          /\ status' = [status EXCEPT ![c] = code]
      BY <2>3 DEF runCmd, files
    <3>2. \E place \in {"retrying", "finishing"} : pc' = [pc EXCEPT ![c] = place]
      BY <2>3 DEF runCmd
    <3>3. PICK output \in Output(c, code) : tmp' = [tmp EXCEPT ![c] = output]
      BY <2>3 DEF runCmd
    <3>4. code = 0 => output = {Whole(held[c].job)}
      BY <3>3 DEF Output
    <3> HIDE DEF ResponsesAreWhole, SuccessHasResponse
    <3>5. ResponsesAreWhole' /\ SuccessHasResponse'
      BY <3>1 DEF ResponsesAreWhole, SuccessHasResponse
    <3>6. \A d \in Controllers : pc'[d] = "finishing" /\ status'[d] = 0 =>
             tmp'[d] = {Whole(held[d].job)}
      BY <1>0, <3>1, <3>2, <3>3, <3>4 DEF QueueShape
    <3>7. \A d \in Controllers : pc'[d] = "closing" =>
             status'[d] = 0 /\ held[d].job \in DOMAIN responses \cup unpublished
      BY <1>0, <3>1, <3>2 DEF QueueShape
    <3> QED
      BY <1>0, <3>1, <3>5, <3>6, <3>7
  <2>4. CASE Publish(c)
    <3>1. /\ pc[c] = "finishing" /\ status[c] = 0
          /\ pc' = [pc EXCEPT ![c] = "closing"]
          /\ tmp' = [tmp EXCEPT ![c] = {}]
          /\ UNCHANGED <<doneFiles, held, status>>
      BY <2>4 DEF Publish, Succeeded
    <3>2. tmp[c] = {Whole(held[c].job)}
      BY <3>1
    <3>3. /\ held[c].job \in DOMAIN responses' \cup unpublished'
          /\ DOMAIN responses \cup unpublished \subseteq DOMAIN responses' \cup unpublished'
          /\ ResponsesAreWhole'
      <4> DEFINE j == held[c].job
      <4>1. CASE UNCHANGED responses /\ unpublished' = unpublished \cup {j}
        BY <4>1
      <4>2. CASE /\ responses' = [k \in DOMAIN responses \cup {j} |->
                                   IF k = j THEN Whole(j) ELSE responses[k]]
                 /\ UNCHANGED unpublished
        BY <4>2
      <4> QED
        BY <2>4, <3>2, <4>1, <4>2 DEF Publish
    <3> QED
      BY <1>0, <3>1, <3>3 DEF QueueShape
  <2>5. CASE Close(c)
    <3>1. /\ pc' = [pc EXCEPT ![c] = "idle"]
          /\ held' = [held EXCEPT ![c] = NoFile]
          /\ status' = [status EXCEPT ![c] = 0]
          /\ UNCHANGED <<responses, tmp, unpublished>>
          /\ pc[c] = "closing" \/ status[c] # 0
      BY <2>5 DEF Close
    <3>2. \/ UNCHANGED doneFiles
          \/ doneFiles' = doneFiles \cup {DoneFile(held[c], status[c])}
      BY <2>5 DEF Close
    <3>3. SuccessHasResponse'
      BY <3>1, <3>2 DEF DoneFile
    <3> QED
      BY <1>0, <3>1, <3>3 DEF QueueShape
  <2>6. CASE Crash(c)
    <3>1. /\ pc' = [pc EXCEPT ![c] = "down"]
          /\ held' = [held EXCEPT ![c] = NoFile]
          /\ status' = [status EXCEPT ![c] = 0]
          /\ UNCHANGED <<doneFiles, responses, unpublished>>
      BY <2>6 DEF Crash
    <3>2. \A d \in Controllers : d # c => tmp'[d] = tmp[d]
      BY <1>0, <2>6 DEF Crash, QueueShape
    <3> QED
      BY <1>0, <3>1, <3>2 DEF QueueShape
  <2>7. CASE Restart(c)
    BY <1>0, <2>7 DEF Restart, files, QueueShape
  <2> QED
    BY <1>2, <2>1, <2>2, <2>3, <2>4, <2>5, <2>6, <2>7 DEF runController
<1>3. CASE Coordinator /\ UNCHANGED controllerVars
  <2>1. UNCHANGED <<doneFiles, responses>>
    BY <1>3 DEF Coordinator, requestProof, fileExists, findRequest, writeRequest,
                waitForResponse, timeOut, requestFails, Stop, start, delete, files
  <2> QED
    BY <1>1, <1>3, <2>1 DEF controllerVars
<1>4. CASE UNCHANGED vars
  BY <1>1, <1>4 DEF vars, files, controllerVars
<1> QED
  BY <1>2, <1>3, <1>4 DEF Next, Provers

\* runController: a response file is the whole proof of its job, although provers
\* crash while they write and a controller has one temporary file for all its jobs.
THEOREM WholeResponses == Spec => []ResponsesAreWhole
<1>1. ResponseInv => ResponsesAreWhole
  BY DEF ResponseInv
<1> QED
  BY <1>1, ResponseInvInit, ResponseInvNext, PTL DEF Spec

\* DoneFile: a request finished with success has its response, unless the response
\* could not be moved.
THEOREM SuccessMeansResponse == Spec => []SuccessHasResponse
<1>1. ResponseInv => SuccessHasResponse
  BY DEF ResponseInv
<1> QED
  BY <1>1, ResponseInvInit, ResponseInvNext, PTL DEF Spec

-----------------------------------------------------------------------------
StrandedFiles == {f \in requestFiles : Stranded(f)}

\* A controller that holds nothing remembers no file; stranded files are finitely
\* many and no more than the failures.
StrandedInv ==
    /\ LockInv
    /\ \A c \in Controllers : ~Holding(c) => held[c] = NoFile
    /\ failures \in Nat
    /\ IsFiniteSet(StrandedFiles)
    /\ Cardinality(StrandedFiles) <= failures

LEMMA StrandedInvInit == Init => StrandedInv
<1> SUFFICES ASSUME Init PROVE StrandedInv
  OBVIOUS
<1>1. StrandedFiles = {} /\ failures = 0
  BY DEF Init, FilesInit, StrandedFiles
<1>2. \A c \in Controllers : held[c] = NoFile
  BY DEF Init, ControllerInit
<1> QED
  BY <1>1, <1>2, LockInvInit, FS_EmptySet DEF StrandedInv

\* A step that strands nothing.
LEMMA StrandsNothing ==
    ASSUME StrandedInv, LockInv', \A c \in Controllers : ~Holding(c)' => held'[c] = NoFile,
           failures' = failures \/ failures' = failures + 1,
           StrandedFiles' \subseteq StrandedFiles
    PROVE  StrandedInv'
<1>1. IsFiniteSet(StrandedFiles') /\ Cardinality(StrandedFiles') <= Cardinality(StrandedFiles)
  BY FS_Subset DEF StrandedInv
<1>2. Cardinality(StrandedFiles') \in Nat /\ Cardinality(StrandedFiles) \in Nat
  BY <1>1, FS_CardinalityType DEF StrandedInv
<1> QED
  BY <1>1, <1>2 DEF StrandedInv

\* A failure strands one file.
LEMMA StrandsOne ==
    ASSUME StrandedInv, LockInv', \A c \in Controllers : ~Holding(c)' => held'[c] = NoFile,
           failures' = failures + 1,
           NEW f, StrandedFiles' \subseteq StrandedFiles \cup {f}
    PROVE  StrandedInv'
<1> DEFINE T == StrandedFiles \cup {f}
<1>1. /\ IsFiniteSet(StrandedFiles)
      /\ Cardinality(StrandedFiles) \in Nat
      /\ Cardinality(StrandedFiles) <= failures /\ failures \in Nat
  BY FS_CardinalityType DEF StrandedInv
<1>2. /\ IsFiniteSet(T)
      /\ Cardinality(T) = Cardinality(StrandedFiles) \/ Cardinality(T) = Cardinality(StrandedFiles) + 1
  BY <1>1, FS_AddElement
<1>3. IsFiniteSet(StrandedFiles') /\ Cardinality(StrandedFiles') <= Cardinality(T)
  BY <1>2, FS_Subset
<1>4. Cardinality(StrandedFiles') \in Nat
  BY <1>3, FS_CardinalityType
<1> HIDE DEF T
<1>5. Cardinality(StrandedFiles') <= failures'
  BY <1>1, <1>2, <1>3, <1>4
<1> QED
  BY <1>1, <1>3, <1>5 DEF StrandedInv

LEMMA ProversStrand ==
    ASSUME StrandedInv, LockInv', NEW c \in Controllers, runController(c) \/ Crash(c)
    PROVE  StrandedInv'
<1>0. /\ pc \in [Controllers -> {"idle", "locking", "running", "retrying", "finishing",
                                 "closing", "down"}]
      /\ held \in [Controllers -> File \cup {NoFile}]
      /\ requestFiles \subseteq File
  BY DEF StrandedInv, LockInv, QueueShape
<1>1. ASSUME UNCHANGED <<requestFiles, held>>,
             failures' = failures \/ failures' = failures + 1,
             NEW place \in {"idle", "locking", "running", "retrying", "finishing", "closing",
                            "down"},
             pc' = [pc EXCEPT ![c] = place],
             place \in {"idle", "locking"} => ~Holding(c),
             place # "down"
      PROVE  StrandedInv'
  <2>1. StrandedFiles' = StrandedFiles
    BY <1>1 DEF StrandedFiles, Stranded
  <2>2. \A d \in Controllers : ~Holding(d)' => held'[d] = NoFile
    BY <1>0, <1>1 DEF StrandedInv, Holding
  <2> QED
    BY <1>1, <2>1, <2>2, StrandsNothing
<1>2. CASE List(c)
  BY <1>1, <1>2 DEF List, files, incidents, Holding
<1>3. ASSUME NEW code \in Codes, runCmd(c, code)
      PROVE  StrandedInv'
  BY <1>1, <1>3 DEF runCmd, files, incidents
<1>4. CASE Publish(c)
  BY <1>1, <1>4 DEF Publish, Fail, incidents
<1>5. CASE Restart(c)
  BY <1>1, <1>5 DEF Restart, files, incidents, Holding
<1>6. ASSUME NEW f \in listed[c], tryLockFile(c, f)
      PROVE  StrandedInv'
  <2>1. pc[c] = "locking" /\ failures' = failures
    BY <1>6 DEF tryLockFile, incidents
  <2>2. CASE ~CanRename(f)
    BY <1>1, <1>6, <2>1, <2>2 DEF tryLockFile, Holding
  <2>3. CASE CanRename(f)
    <3> DEFINE g == [f EXCEPT !.by = c]
    <3>1. /\ requestFiles' = (requestFiles \ {f}) \cup {g}
          /\ held' = [held EXCEPT ![c] = g]
          /\ pc' = [pc EXCEPT ![c] = "running"]
      BY <1>6, <2>3 DEF tryLockFile
    <3>2. held[c] = NoFile
      BY <2>1 DEF StrandedInv, Holding
    <3>3. f \in File /\ g.by = c
      BY <1>6 DEF StrandedInv, LockInv, QueueShape, File
    <3> HIDE DEF g
    <3>4. StrandedFiles' \subseteq StrandedFiles
      <4> SUFFICES ASSUME NEW h \in requestFiles', h.by # Nobody, held'[h.by] # h
                   PROVE  h \in requestFiles /\ held[h.by] # h
        BY DEF StrandedFiles, Stranded
      <4>1. h # g /\ h \in requestFiles /\ h \in File
        BY <1>0, <3>1, <3>3
      <4>2. h.by \in Controllers
        BY <4>1 DEF File
      <4>3. h # NoFile
        BY <4>1, ProverControllerAssumption
      <4> QED
        BY <1>0, <3>1, <3>2, <4>1, <4>2, <4>3
    <3>5. \A d \in Controllers : ~Holding(d)' => held'[d] = NoFile
      BY <1>0, <3>1 DEF StrandedInv, Holding
    <3> QED
      BY <2>1, <3>4, <3>5, StrandsNothing
  <2> QED
    BY <2>2, <2>3
<1>7. CASE Close(c) \/ Crash(c)
  <2>1. /\ held' = [held EXCEPT ![c] = NoFile]
        /\ \E place \in {"idle", "down"} : pc' = [pc EXCEPT ![c] = place]
    BY <1>7 DEF Close, Crash
  <2>2. \A d \in Controllers : ~Holding(d)' => held'[d] = NoFile
    BY <1>0, <2>1 DEF StrandedInv, Holding
  <2>3. \A h \in File : h.by # Nobody /\ held'[h.by] # h => held[h.by] # h \/ h = held[c]
    <3> SUFFICES ASSUME NEW h \in File, h.by # Nobody, held'[h.by] # h, held[h.by] = h
                 PROVE  h = held[c]
      OBVIOUS
    <3>1. h.by \in Controllers
      BY DEF File
    <3> QED
      BY <1>0, <2>1, <3>1
  <2>4. CASE Fail /\ UNCHANGED requestFiles
    <3>1. StrandedFiles' \subseteq StrandedFiles \cup {held[c]}
      BY <1>0, <2>3, <2>4 DEF StrandedFiles, Stranded
    <3> QED
      BY <2>2, <2>4, <3>1, StrandsOne DEF Fail
  <2>5. CASE /\ UNCHANGED incidents
             /\ \/ requestFiles' = requestFiles \ {held[c]}
                \/ requestFiles' = (requestFiles \ {held[c]})
                                      \cup {DeferToLargeFile(held[c], status[c])}
    <3>1. DeferToLargeFile(held[c], status[c]).by = Nobody
      BY DEF DeferToLargeFile
    <3>2. StrandedFiles' \subseteq StrandedFiles
      BY <1>0, <2>3, <2>5, <3>1 DEF StrandedFiles, Stranded
    <3> QED
      BY <2>2, <2>5, <3>2, StrandsNothing DEF incidents
  <2> QED
    BY <1>7, <2>4, <2>5 DEF Close, Crash, InProgressPath
<1> QED
  BY <1>2, <1>3, <1>4, <1>5, <1>6, <1>7 DEF runController

LEMMA CoordinatorStrands ==
    ASSUME StrandedInv, LockInv', Coordinator, UNCHANGED controllerVars
    PROVE  StrandedInv'
<1>1. UNCHANGED <<pc, held>>
  BY DEF controllerVars
<1>2. failures' = failures \/ failures' = failures + 1
  BY DEF Coordinator, requestProof, fileExists, findRequest, writeRequest, waitForResponse,
         timeOut, requestFails, Stop, start, delete, files, incidents, Fail, Interrupt
<1>3. \A f \in requestFiles' : f \in requestFiles \/ f.by = Nobody
  <2>1. \A j \in Jobs : RequestFile(j).by = Nobody
    BY DEF RequestFile
  <2> QED
    BY <2>1 DEF Coordinator, requestProof, fileExists, findRequest, writeRequest,
                waitForResponse, timeOut, requestFails, Stop, start, delete, files
<1>4. StrandedFiles' \subseteq StrandedFiles
  BY <1>1, <1>3 DEF StrandedFiles, Stranded
<1>5. \A c \in Controllers : ~Holding(c)' => held'[c] = NoFile
  BY <1>1 DEF StrandedInv, Holding
<1> QED
  BY <1>2, <1>4, <1>5, StrandsNothing

LEMMA StrandedInvNext == StrandedInv /\ [Next]_vars => StrandedInv'
<1> SUFFICES ASSUME StrandedInv, [Next]_vars PROVE StrandedInv'
  OBVIOUS
<1>1. LockInv'
  BY LockInvNext DEF StrandedInv
<1>2. CASE UNCHANGED vars
  <2>1. UNCHANGED <<pc, held, requestFiles, failures>>
    BY <1>2 DEF vars, files, incidents, controllerVars
  <2>2. StrandedFiles' = StrandedFiles
    BY <2>1 DEF StrandedFiles, Stranded
  <2>3. \A c \in Controllers : ~Holding(c)' => held'[c] = NoFile
    BY <2>1 DEF StrandedInv, Holding
  <2> QED
    BY <1>1, <2>1, <2>2, <2>3, StrandsNothing
<1> QED
  BY <1>1, <1>2, ProversStrand, CoordinatorStrands DEF Next, Provers

\* runController: a lock that nobody will release is the trace of a crash or of a
\* failed operation, and each of those leaves at most one, for any number of jobs,
\* controllers, crashes, failures, timeouts and restarts.
THEOREM StrandedLocks == Spec => []EachIncidentStrandsOne
<1>1. StrandedInv => EachIncidentStrandsOne
  BY DEF StrandedInv, EachIncidentStrandsOne, StrandedFiles
<1> QED
  BY <1>1, StrandedInvInit, StrandedInvNext, PTL DEF Spec
=============================================================================
