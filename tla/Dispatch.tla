----------------------------- MODULE Dispatch -----------------------------
(***************************************************************************)
(* How a request travels from the named pipes to an Authorization Engine   *)
(* (src/system_manager/sm_lib.c): the Receiver and Sender threads and the  *)
(* main loop of the Authorization Requests Manager (ARM), the              *)
(* AUTH_SERVERS engine processes and the backup engine that the ARM forks  *)
(* when a queue is full and kills when it is half empty again.             *)
(*                                                                         *)
(* Grain of atomicity: a step is at most one access to state that another  *)
(* thread or process writes, or one critical section that nothing can cut  *)
(* short.  Critical sections of shm_sem are two steps (sem_wait,           *)
(* then the body with sem_post), because SIGKILL can strike between them.  *)
(* update_log() is no step of its own, but code that logs waits for logSem *)
(* and an engine killed while it logs takes logSem with it.  Shutdown is   *)
(* another module's subject.                                               *)
(***************************************************************************)
EXTENDS RequestQueue, Integers

CONSTANTS
    AUTH_SERVERS,   (* engines 0 .. AUTH_SERVERS - 1 run from the start    *)
    QUEUE_POS,      (* capacity of each of the two queues                  *)
    Arrivals,       (* bound: the kinds of request that arrive             *)
    MaxRequests     (* bound: messages that ever arrive on the named pipes *)

\* main() of system_manager.c refuses 0 and negative values.
ASSUME ConfigAssumption ==
    /\ AUTH_SERVERS \in Nat \ {0}
    /\ QUEUE_POS \in Nat \ {0}
    /\ Arrivals \subseteq Kinds
    /\ MaxRequests \in Nat

VARIABLES
    \* ---- Receiver thread
    rPc,               \* where it is in its loop
    rRequest,          \* the request it has read and not yet inserted
    received,          \* how many messages it has read
    \* ---- the two queues and the limits their requests have exceeded
    videoQueue, othersQueue, late,
    \* ---- flags shared by the ARM's threads (0 or 1; queue_type -1, 0, 1)
    sentRequest, isQueueFull, isArmNotified, isQueueByHalf, queueType,
    \* ---- Sender thread
    sPc,
    availableEngine,   \* available_engine_id
    request,           \* the request it has taken off a queue
    \* ---- ARM main thread
    aPc,
    backupPid,         \* authorization_engines[AUTH_SERVERS]: 0, or 1 for a pid
    backupPipeOpen,    \* unnamed_pipes[AUTH_SERVERS] is open in the ARM
    \* ---- engines, by engine id
    ePc, eRequest,
    pipe,              \* requests written to unnamed_pipes[id], oldest first
    \* ---- shared memory
    shmSem,            \* value of the semaphore shm_sem
    enginesAvailable,  \* engines_available[]
    logSem,            \* value of the semaphore of update_log(): 0 once its
                       \* holder has been killed
    \* ---- history
    served,            \* requests an engine has carried out
    lost               \* requests that are nowhere any more, unserved

receiverVars == <<rPc, rRequest, received>>
queueVars    == <<videoQueue, othersQueue, late>>
fullFlags    == <<isQueueFull, isArmNotified, isQueueByHalf, queueType>>
senderVars   == <<sPc, availableEngine, request>>
armVars      == <<aPc, backupPid, backupPipeOpen>>
engineVars   == <<ePc, eRequest, pipe>>
shmVars      == <<shmSem, enginesAvailable, logSem>>
historyVars  == <<served, lost>>

vars == <<receiverVars, queueVars, sentRequest, fullFlags, senderVars, armVars,
          engineVars, shmVars, historyVars>>

Backup  == AUTH_SERVERS
Engines == 0 .. AUTH_SERVERS

\* Everything that some process or pipe of the platform holds.
Pending ==
    {rRequest, request} \cup Elements(videoQueue) \cup Elements(othersQueue)
    \cup UNION {Elements(pipe[e]) \cup {eRequest[e]} : e \in Engines}

---------------------------------------------------------------------------
\* The state in which auth_request_manager() enters its main loop: the regular
\* engines run and are marked available, the backup engine does not exist.
Init ==
    /\ rPc = "select" /\ rRequest = NoRequest /\ received = 0
    /\ videoQueue = << >> /\ othersQueue = << >> /\ late = {}
    /\ sentRequest = 0
    /\ isQueueFull = 0 /\ isArmNotified = 0 /\ isQueueByHalf = 0 /\ queueType = -1
    /\ sPc = "await" /\ availableEngine = -1 /\ request = NoRequest
    /\ aPc = "top" /\ backupPid = 0 /\ backupPipeOpen = 0
    /\ ePc = [e \in Engines |-> IF e = Backup THEN "absent" ELSE "idle"]
    /\ eRequest = [e \in Engines |-> NoRequest]
    /\ pipe = [e \in Engines |-> << >>]
    /\ shmSem = 1 /\ logSem = 1
    /\ enginesAvailable = [e \in Engines |-> IF e = Backup THEN 0 ELSE 1]
    /\ served = {} /\ lost = {}

---------------------------------------------------------------------------
\* RECEIVER THREAD

\* One message is read from a named pipe and parsed into a request.
Receive(kind) ==
    /\ rPc = "select"
    /\ received < MaxRequests             \* bound
    /\ received' = received + 1
    /\ rRequest' = [id |-> received + 1, kind |-> kind]
    /\ rPc' = "insert"
    /\ UNCHANGED <<queueVars, sentRequest, fullFlags, senderVars, armVars,
                   engineVars, shmVars, historyVars>>

\* Faulty variant: a REGISTER request is given its priority by being inserted at
\* the head of the video queue.
RegisterInsertedFirst ==
    /\ rPc = "insert"
    /\ IF ~HasRoom(videoQueue, QUEUE_POS)
       THEN lost' = lost \cup {rRequest} /\ UNCHANGED videoQueue
       ELSE /\ videoQueue' = IF rRequest.kind = "REGISTER" THEN <<rRequest>> \o videoQueue
                             ELSE Append(videoQueue, rRequest)
            /\ UNCHANGED lost
    /\ rRequest' = NoRequest
    /\ rPc' = "signal"
    /\ UNCHANGED <<received, othersQueue, late, sentRequest, fullFlags, senderVars,
                   armVars, engineVars, shmVars, served>>

\* REGISTER and VIDEO go to the video queue, the rest to the other one; a full
\* queue drops the request and logs it.  The mutex makes insert() one step.
ReceiverInsert ==
    /\ rPc = "insert"
    /\ LET forVideo == rRequest.kind \in {"REGISTER", "VIDEO"}
           queue    == IF forVideo THEN videoQueue ELSE othersQueue
       IN IF HasRoom(queue, QUEUE_POS)
          THEN /\ videoQueue'  = IF forVideo THEN Append(queue, rRequest) ELSE videoQueue
               /\ othersQueue' = IF forVideo THEN othersQueue ELSE Append(queue, rRequest)
               /\ UNCHANGED lost
          ELSE /\ logSem = 1
               /\ lost' = lost \cup {rRequest}
               /\ UNCHANGED <<videoQueue, othersQueue>>
    /\ rRequest' = NoRequest
    /\ rPc' = "signal"
    /\ UNCHANGED <<received, late, sentRequest, fullFlags, senderVars, armVars,
                   engineVars, shmVars, served>>

\* Faulty variant: sent_request counts requests instead of being a flag.
SignalCounts ==
    /\ rPc = "signal"
    /\ sentRequest' = sentRequest + 1
    /\ rPc' = "select"
    /\ UNCHANGED <<rRequest, received, queueVars, fullFlags, senderVars, armVars,
                   engineVars, shmVars, historyVars>>

\* The Sender is signalled whether or not the request found room.
ReceiverSignal ==
    /\ rPc = "signal"
    /\ sentRequest' = 1
    /\ rPc' = "select"
    /\ UNCHANGED <<rRequest, received, queueVars, fullFlags, senderVars, armVars,
                   engineVars, shmVars, historyVars>>

---------------------------------------------------------------------------
\* SENDER THREAD

\* Faulty variant: the search for an engine starts without sem_wait.
SearchUnlocked ==
    /\ sPc = "await"
    /\ sentRequest = 1
    /\ availableEngine' = -1
    /\ sPc' = "search"
    /\ UNCHANGED <<receiverVars, queueVars, sentRequest, fullFlags, request, armVars,
                   engineVars, shmVars, historyVars>>

\* pthread_cond_wait until sent_request is set, which only the Sender undoes;
\* then sem_wait(shm_sem) before the search for an engine.
SenderAwake ==
    /\ sPc = "await"
    /\ sentRequest = 1
    /\ shmSem > 0
    /\ shmSem' = shmSem - 1
    /\ availableEngine' = -1
    /\ sPc' = "search"
    /\ UNCHANGED <<receiverVars, queueVars, sentRequest, fullFlags, request, armVars,
                   engineVars, enginesAvailable, logSem, historyVars>>

\* The search repeats, with shm_sem held, until a flag of engines_available is
\* set; the lowest one wins.
SenderFindEngine ==
    /\ sPc = "search"
    /\ \E e \in Engines :
          /\ enginesAvailable[e] = 1
          /\ \A lower \in Engines : lower < e => enginesAvailable[lower] # 1
          /\ availableEngine' = e
    /\ shmSem' = shmSem + 1
    /\ sPc' = "checkFull"
    /\ UNCHANGED <<receiverVars, queueVars, sentRequest, fullFlags, request, armVars,
                   engineVars, enginesAvailable, logSem, historyVars>>

\* The queues are looked at without their mutexes.  One step may read both and
\* is_arm_notified: until the Sender itself drops something they only grow.
SenderCheckFull ==
    /\ sPc = "checkFull"
    /\ sPc' = IF /\ IsFull(videoQueue, QUEUE_POS) \/ IsFull(othersQueue, QUEUE_POS)
                 /\ isArmNotified = 0
              THEN "reportFull" ELSE "tryVideo"
    /\ UNCHANGED <<receiverVars, queueVars, sentRequest, fullFlags, availableEngine,
                   request, armVars, engineVars, shmVars, historyVars>>

\* The flag may be stale by the time it is written.  sent_request stays set.
SenderReportFull ==
    /\ sPc = "reportFull"
    /\ isQueueFull' = 1
    /\ queueType' = IF IsFull(videoQueue, QUEUE_POS) THEN 0 ELSE 1
    /\ sPc' = "await"
    /\ UNCHANGED <<receiverVars, queueVars, sentRequest, isArmNotified, isQueueByHalf,
                   availableEngine, request, armVars, engineVars, shmVars, historyVars>>

\* drop() under the queue's mutex: everything behind an overdue head is lost
\* with it, and logged, otherwise the head is taken.  Nothing to send: back to the wait,
\* with sent_request still set.
TakeFrom(queue) ==
    /\ Kept(queue, late) # queue => logSem = 1
    /\ request' = Dropped(queue, late)
    /\ lost' = lost \cup (Elements(queue) \ Elements(Kept(queue, late)))
    /\ sPc' = IF Dropped(queue, late) = NoRequest THEN "await" ELSE "checkHalf"

SenderTryVideo ==
    /\ sPc = "tryVideo"
    /\ IF IsEmpty(videoQueue)
       THEN /\ sPc' = "tryOthers"
            /\ UNCHANGED <<videoQueue, request, lost>>
       ELSE /\ TakeFrom(videoQueue)
            /\ videoQueue' = AfterDrop(videoQueue, late)
    /\ UNCHANGED <<receiverVars, othersQueue, late, sentRequest, fullFlags,
                   availableEngine, armVars, engineVars, shmVars, served>>

SenderTryOthers ==
    /\ sPc = "tryOthers"
    /\ IF IsEmpty(othersQueue)
       THEN /\ sPc' = "await"
            /\ UNCHANGED <<othersQueue, request, lost>>
       ELSE /\ TakeFrom(othersQueue)
            /\ othersQueue' = AfterDrop(othersQueue, late)
    /\ UNCHANGED <<receiverVars, videoQueue, late, sentRequest, fullFlags,
                   availableEngine, armVars, engineVars, shmVars, served>>

\* if(... is_queue_half_full(...) && is_arm_notified) is_queue_by_half = 1, read
\* by read: the queue, then is_arm_notified, then the write.
SenderCheckHalf ==
    /\ sPc = "checkHalf"
    /\ sPc' = IF \/ queueType = 0 /\ IsQueueHalfFull(videoQueue, QUEUE_POS)
                 \/ queueType = 1 /\ IsQueueHalfFull(othersQueue, QUEUE_POS)
              THEN "checkNotified" ELSE "write"
    /\ UNCHANGED <<receiverVars, queueVars, sentRequest, fullFlags, availableEngine,
                   request, armVars, engineVars, shmVars, historyVars>>

SenderCheckNotified ==
    /\ sPc = "checkNotified"
    /\ sPc' = IF isArmNotified = 1 THEN "reportHalf" ELSE "write"
    /\ UNCHANGED <<receiverVars, queueVars, sentRequest, fullFlags, availableEngine,
                   request, armVars, engineVars, shmVars, historyVars>>

SenderReportHalf ==
    /\ sPc = "reportHalf"
    /\ isQueueByHalf' = 1
    /\ sPc' = "write"
    /\ UNCHANGED <<receiverVars, queueVars, sentRequest, isQueueFull, isArmNotified,
                   queueType, availableEngine, request, armVars, engineVars, shmVars,
                   historyVars>>

\* write() to the pipe of the engine found earlier.  The ARM may have closed the
\* backup engine's pipe since: then write() fails and the thread is on its way out.
SenderWrite ==
    /\ sPc = "write"
    /\ IF availableEngine = Backup /\ backupPipeOpen = 0
       THEN /\ lost' = lost \cup {request}
            /\ sPc' = "quit"
            /\ UNCHANGED pipe
       ELSE /\ pipe' = [pipe EXCEPT ![availableEngine] = Append(@, request)]
            /\ sPc' = "reset"
            /\ UNCHANGED lost
    /\ request' = NoRequest
    /\ UNCHANGED <<receiverVars, queueVars, sentRequest, fullFlags, availableEngine,
                   armVars, ePc, eRequest, shmVars, served>>

\* The outcome of write() is logged, then sent_request = 0, whatever the Receiver
\* has inserted since the wait ended; after a failed write the thread returns.
SenderReset ==
    /\ sPc \in {"reset", "quit"}
    /\ logSem = 1
    /\ sentRequest' = 0
    /\ sPc' = IF sPc = "reset" THEN "await" ELSE "ended"
    /\ UNCHANGED <<receiverVars, queueVars, fullFlags, availableEngine, request,
                   armVars, engineVars, shmVars, historyVars>>

---------------------------------------------------------------------------
\* ARM MAIN THREAD

ArmGoto(from, to) == aPc = from /\ aPc' = to

\* Faulty variant: the test of is_arm_notified has lost its negation.
SeeFullOnlyOnceNotified ==
    /\ IF isQueueFull = 1 /\ isArmNotified = 1
       THEN /\ ArmGoto("top", IF backupPid = 0 THEN "fork" ELSE "clearFull")
            /\ isArmNotified' = 1
       ELSE /\ ArmGoto("top", "checkFull")
            /\ UNCHANGED isArmNotified
    /\ UNCHANGED <<receiverVars, queueVars, sentRequest, isQueueFull, isQueueByHalf,
                   queueType, senderVars, backupPid, backupPipeOpen, engineVars,
                   shmVars, historyVars>>

\* A full queue was reported and not acted upon yet.
ArmSeeFull ==
    /\ IF isQueueFull = 1 /\ isArmNotified = 0
       THEN /\ ArmGoto("top", IF backupPid = 0 THEN "fork" ELSE "clearFull")
            /\ isArmNotified' = 1
       ELSE /\ ArmGoto("top", "checkFull")
            /\ UNCHANGED isArmNotified
    /\ UNCHANGED <<receiverVars, queueVars, sentRequest, isQueueFull, isQueueByHalf,
                   queueType, senderVars, backupPid, backupPipeOpen, engineVars,
                   shmVars, historyVars>>

\* pipe() and fork(): a fresh pipe and a fresh engine process.
ArmForkBackup ==
    /\ ArmGoto("fork", "markBackup")
    /\ backupPid' = 1
    /\ backupPipeOpen' = 1
    /\ pipe' = [pipe EXCEPT ![Backup] = << >>]
    /\ ePc' = [ePc EXCEPT ![Backup] = "ready"]
    /\ eRequest' = [eRequest EXCEPT ![Backup] = NoRequest]
    /\ UNCHANGED <<receiverVars, queueVars, sentRequest, fullFlags, senderVars,
                   shmVars, historyVars>>

\* sem_wait ... sem_post around one assignment, by a thread nobody kills.
ArmSetBackupFlag(from, to, flag) ==
    /\ ArmGoto(from, to)
    /\ shmSem > 0
    /\ enginesAvailable' = [enginesAvailable EXCEPT ![Backup] = flag]
    /\ UNCHANGED <<receiverVars, queueVars, sentRequest, fullFlags, senderVars,
                   backupPid, backupPipeOpen, engineVars, shmSem, logSem, historyVars>>

ArmMarkBackup == logSem = 1 /\ ArmSetBackupFlag("markBackup", "clearFull", 1)

ArmClearFull ==
    /\ ArmGoto("clearFull", "checkFull")
    /\ isQueueFull' = 0
    /\ UNCHANGED <<receiverVars, queueVars, sentRequest, isArmNotified, isQueueByHalf,
                   queueType, senderVars, backupPid, backupPipeOpen, engineVars,
                   shmVars, historyVars>>

\* if(!is_queue_full && is_queue_by_half), one flag at a time.
ArmCheckFull ==
    /\ ArmGoto("checkFull", IF isQueueFull = 0 THEN "checkHalf" ELSE "top")
    /\ UNCHANGED <<receiverVars, queueVars, sentRequest, fullFlags, senderVars,
                   backupPid, backupPipeOpen, engineVars, shmVars, historyVars>>

ArmCheckHalf ==
    /\ ArmGoto("checkHalf", IF isQueueByHalf = 1 THEN "close" ELSE "top")
    /\ isQueueByHalf' = 0
    /\ UNCHANGED <<receiverVars, queueVars, sentRequest, isQueueFull, isArmNotified,
                   queueType, senderVars, backupPid, backupPipeOpen, engineVars,
                   shmVars, historyVars>>

\* close() of both ends of unnamed_pipes[AUTH_SERVERS] in the ARM.
ArmClosePipe ==
    /\ ArmGoto("close", "kill")
    /\ backupPipeOpen' = 0
    /\ UNCHANGED <<receiverVars, queueVars, sentRequest, fullFlags, senderVars,
                   backupPid, engineVars, shmVars, historyVars>>

\* Where an engine calls update_log(): when it starts, when it denies a request and
\* when it has served one.
Logging == {"ready", "serving", "free"}

\* Faulty variant: authorization_engines[AUTH_SERVERS] = 0 is forgotten.
KillKeepsPid ==
    /\ backupPid # 0
    /\ ArmGoto("kill", "unmarkBackup")
    /\ ePc' = [ePc EXCEPT ![Backup] = "absent"]
    /\ eRequest' = [eRequest EXCEPT ![Backup] = NoRequest]
    /\ pipe' = [pipe EXCEPT ![Backup] = << >>]
    /\ lost' = lost \cup Elements(pipe[Backup])
                    \cup ({eRequest[Backup]} \ ({NoRequest} \cup served))
    /\ UNCHANGED <<receiverVars, queueVars, sentRequest, fullFlags, senderVars,
                   backupPid, backupPipeOpen, shmVars, served>>

\* kill(authorization_engines[AUTH_SERVERS], SIGKILL) and waitpid(): the backup
\* engine dies wherever it is, with the requests in its pipe and in its hands,
\* with shm_sem if it holds it and with logSem if it is logging.
ArmKillBackup ==
    /\ backupPid # 0
    /\ ArmGoto("kill", "unmarkBackup")
    /\ backupPid' = 0
    /\ ePc' = [ePc EXCEPT ![Backup] = "absent"]
    /\ eRequest' = [eRequest EXCEPT ![Backup] = NoRequest]
    /\ pipe' = [pipe EXCEPT ![Backup] = << >>]
    /\ lost' = lost \cup Elements(pipe[Backup])
                    \cup ({eRequest[Backup]} \ ({NoRequest} \cup served))
    /\ logSem' \in IF ePc[Backup] \in Logging THEN {0, logSem} ELSE {logSem}
    /\ UNCHANGED <<receiverVars, queueVars, sentRequest, fullFlags, senderVars,
                   backupPipeOpen, shmSem, enginesAvailable, served>>

\* With no backup engine the pid is 0, and kill(0, SIGKILL) ends every process of
\* the platform's process group, the ARM with its threads and queues included.
ArmKillGroup ==
    /\ backupPid = 0
    /\ ArmGoto("kill", "groupKilled")
    /\ rPc' = "killed" /\ sPc' = "killed"
    /\ ePc' = [e \in Engines |-> "absent"]
    /\ rRequest' = NoRequest /\ request' = NoRequest
    /\ videoQueue' = << >> /\ othersQueue' = << >>
    /\ eRequest' = [e \in Engines |-> NoRequest]
    /\ pipe' = [e \in Engines |-> << >>]
    /\ lost' = lost \cup (Pending \ (served \cup {NoRequest}))
    /\ UNCHANGED <<received, late, sentRequest, fullFlags, availableEngine, backupPid,
                   backupPipeOpen, shmVars, served>>

ArmUnmarkBackup == ArmSetBackupFlag("unmarkBackup", "resetHalf", 0)

\* The removal is logged; then is_queue_by_half = 0; is_queue_full = 0;
\* is_arm_notified = 0, one at a time.
ArmResetHalf ==
    /\ ArmGoto("resetHalf", "resetFull")
    /\ logSem = 1
    /\ isQueueByHalf' = 0
    /\ UNCHANGED <<receiverVars, queueVars, sentRequest, isQueueFull, isArmNotified,
                   queueType, senderVars, backupPid, backupPipeOpen, engineVars,
                   shmVars, historyVars>>

\* Faulty variant: is_queue_full = 0 is forgotten at the end of a removal.
ResetKeepsFull ==
    /\ ArmGoto("resetFull", "resetNotified")
    /\ UNCHANGED <<receiverVars, queueVars, sentRequest, fullFlags, senderVars, backupPid,
                   backupPipeOpen, engineVars, shmVars, historyVars>>

ArmResetFull ==
    /\ ArmGoto("resetFull", "resetNotified")
    /\ isQueueFull' = 0
    /\ UNCHANGED <<receiverVars, queueVars, sentRequest, isArmNotified, isQueueByHalf,
                   queueType, senderVars, backupPid, backupPipeOpen, engineVars,
                   shmVars, historyVars>>

ArmResetNotified ==
    /\ ArmGoto("resetNotified", "top")
    /\ isArmNotified' = 0
    /\ UNCHANGED <<receiverVars, queueVars, sentRequest, isQueueFull, isQueueByHalf,
                   queueType, senderVars, backupPid, backupPipeOpen, engineVars,
                   shmVars, historyVars>>

---------------------------------------------------------------------------
\* AUTHORIZATION ENGINE e

EngineGoto(e, from, to) == ePc[e] = from /\ ePc' = [ePc EXCEPT ![e] = to]

\* A new engine logs that it is ready before it looks at its pipe.
EngineReady(e) ==
    /\ EngineGoto(e, "ready", "idle")
    /\ logSem = 1
    /\ UNCHANGED <<receiverVars, queueVars, sentRequest, fullFlags, senderVars,
                   armVars, eRequest, pipe, shmVars, historyVars>>

\* select() reports data and read() takes the oldest request of the pipe.
EngineRead(e) ==
    /\ EngineGoto(e, "idle", "mark")
    /\ pipe[e] # << >>
    /\ eRequest' = [eRequest EXCEPT ![e] = Head(pipe[e])]
    /\ pipe' = [pipe EXCEPT ![e] = Tail(@)]
    /\ UNCHANGED <<receiverVars, queueVars, sentRequest, fullFlags, senderVars,
                   armVars, shmVars, historyVars>>

\* The three critical sections of a request: mark the engine busy, serve the
\* request in shared memory, log it and mark the engine available again.
EngineAcquire(e) ==
    /\ \/ EngineGoto(e, "mark", "marking")
       \/ EngineGoto(e, "serve", "serving")
       \/ EngineGoto(e, "free", "freeing") /\ logSem = 1
    /\ shmSem > 0
    /\ shmSem' = shmSem - 1
    /\ UNCHANGED <<receiverVars, queueVars, sentRequest, fullFlags, senderVars,
                   armVars, eRequest, pipe, enginesAvailable, logSem, historyVars>>

EngineMark(e) ==
    /\ EngineGoto(e, "marking", "serve")
    /\ enginesAvailable' = [enginesAvailable EXCEPT ![e] = 0]
    /\ shmSem' = shmSem + 1
    /\ UNCHANGED <<receiverVars, queueVars, sentRequest, fullFlags, senderVars,
                   armVars, eRequest, pipe, logSem, historyVars>>

\* What serving does to the accounts is module Accounts' subject; here it is
\* that the request has been carried out.  The wait for AUTH_PROC_TIME follows.
EngineServe(e) ==
    /\ EngineGoto(e, "serving", "free")
    /\ served' = served \cup {eRequest[e]}
    /\ shmSem' = shmSem + 1
    /\ UNCHANGED <<receiverVars, queueVars, sentRequest, fullFlags, senderVars,
                   armVars, eRequest, pipe, enginesAvailable, logSem, lost>>

\* Faulty variant: the engine does not mark itself available again.
FreeKeepsBusy(e) ==
    /\ EngineGoto(e, "freeing", "idle")
    /\ eRequest' = [eRequest EXCEPT ![e] = NoRequest]
    /\ shmSem' = shmSem + 1
    /\ UNCHANGED <<receiverVars, queueVars, sentRequest, fullFlags, senderVars,
                   armVars, pipe, enginesAvailable, logSem, historyVars>>

\* Faulty variant: break for continue, the engine ends after one request.
FreeThenExit(e) ==
    /\ EngineGoto(e, "freeing", "absent")
    /\ eRequest' = [eRequest EXCEPT ![e] = NoRequest]
    /\ enginesAvailable' = [enginesAvailable EXCEPT ![e] = 1]
    /\ shmSem' = shmSem + 1
    /\ UNCHANGED <<receiverVars, queueVars, sentRequest, fullFlags, senderVars,
                   armVars, pipe, logSem, historyVars>>

EngineFree(e) ==
    /\ EngineGoto(e, "freeing", "idle")
    /\ eRequest' = [eRequest EXCEPT ![e] = NoRequest]
    /\ enginesAvailable' = [enginesAvailable EXCEPT ![e] = 1]
    /\ shmSem' = shmSem + 1
    /\ UNCHANGED <<receiverVars, queueVars, sentRequest, fullFlags, senderVars,
                   armVars, pipe, logSem, historyVars>>

---------------------------------------------------------------------------
\* TIME: in each queue the oldest request that has a limit exceeds it first.
Expire(queue) ==
    \E i \in 1 .. Len(queue) :
       /\ queue[i].kind # "REGISTER" /\ queue[i] \notin late
       /\ \A j \in 1 .. i - 1 : queue[j].kind # "REGISTER" => queue[j] \in late
       /\ late' = late \cup {queue[i]}

Tick ==
    /\ Expire(videoQueue) \/ Expire(othersQueue)
    /\ UNCHANGED <<receiverVars, videoQueue, othersQueue, sentRequest, fullFlags,
                   senderVars, armVars, engineVars, shmVars, historyVars>>

---------------------------------------------------------------------------
Receiver == (\E kind \in Arrivals : Receive(kind)) \/ ReceiverInsert \/ ReceiverSignal

Sender ==
    \/ SenderAwake \/ SenderFindEngine \/ SenderCheckFull \/ SenderReportFull
    \/ SenderTryVideo \/ SenderTryOthers
    \/ SenderCheckHalf \/ SenderCheckNotified \/ SenderReportHalf
    \/ SenderWrite \/ SenderReset

Arm ==
    \/ ArmSeeFull \/ ArmForkBackup \/ ArmMarkBackup \/ ArmClearFull
    \/ ArmCheckFull \/ ArmCheckHalf
    \/ ArmClosePipe \/ ArmKillBackup \/ ArmKillGroup \/ ArmUnmarkBackup
    \/ ArmResetHalf \/ ArmResetFull \/ ArmResetNotified

Engine(e) ==
    \/ EngineReady(e) \/ EngineRead(e) \/ EngineAcquire(e)
    \/ EngineMark(e) \/ EngineServe(e) \/ EngineFree(e)

Next ==
    \/ Receiver \/ Sender \/ Arm
    \/ \E e \in Engines : Engine(e)
    \/ Tick

Spec == Init /\ [][Next]_vars

\* The kernel runs every thread and process that can run.  sem_wait is only
\* asked not to lose for ever against a semaphore that is free again and again.
\* That the message queue has room for what the engines and the Monitor Engine
\* send is taken for granted here; module Accounts has it full.
Fairness ==
    /\ WF_vars(ReceiverInsert) /\ WF_vars(ReceiverSignal)
    /\ SF_vars(SenderAwake) /\ WF_vars(Sender)
    /\ SF_vars(ArmMarkBackup) /\ SF_vars(ArmUnmarkBackup) /\ WF_vars(Arm)
    /\ \A e \in Engines : SF_vars(EngineAcquire(e)) /\ WF_vars(Engine(e))

FairSpec == Spec /\ Fairness

---------------------------------------------------------------------------
\* TYPES

ReceiverPcs == {"select", "insert", "signal", "killed"}
SenderPcs   == {"await", "search", "checkFull", "reportFull", "tryVideo", "tryOthers",
                "checkHalf", "checkNotified", "reportHalf", "write", "reset", "quit",
                "ended", "killed"}
ArmPcs      == {"top", "fork", "markBackup", "clearFull", "checkFull", "checkHalf",
                "close", "kill", "unmarkBackup", "resetHalf", "resetFull",
                "resetNotified", "groupKilled"}
EnginePcs   == {"absent", "ready", "idle", "mark", "marking", "serve", "serving", "free",
                "freeing"}

\* Every variable keeps its type: the flags are 0 or 1, what travels is a
\* request, and a thread that holds no request holds NoRequest.
TypeOK ==
    /\ rPc \in ReceiverPcs /\ rRequest \in Request \cup {NoRequest}
    /\ rPc = "insert" => rRequest \in Request
    /\ received \in 0 .. MaxRequests
    /\ videoQueue \in Seq(Request) /\ othersQueue \in Seq(Request)
    /\ late \subseteq Request
    /\ sentRequest \in {0, 1}
    /\ isQueueFull \in {0, 1} /\ isArmNotified \in {0, 1} /\ isQueueByHalf \in {0, 1}
    /\ queueType \in {-1, 0, 1}
    /\ sPc \in SenderPcs /\ availableEngine \in Engines \cup {-1}
    /\ sPc \notin {"await", "search", "ended", "killed"} => availableEngine \in Engines
    /\ request \in Request \cup {NoRequest}
    /\ sPc \in {"checkHalf", "checkNotified", "reportHalf", "write"} => request \in Request
    /\ aPc \in ArmPcs /\ backupPid \in {0, 1} /\ backupPipeOpen \in {0, 1}
    /\ ePc \in [Engines -> EnginePcs]
    /\ eRequest \in [Engines -> Request \cup {NoRequest}]
    /\ \A e \in Engines : ePc[e] \notin {"absent", "ready", "idle"} => eRequest[e] \in Request
    /\ pipe \in [Engines -> Seq(Request)]
    /\ shmSem \in {0, 1} /\ logSem \in {0, 1}
    /\ enginesAvailable \in [Engines -> {0, 1}]
    /\ served \subseteq Request /\ lost \subseteq Request

---------------------------------------------------------------------------
\* SAFETY

SenderInside    == sPc = "search"
EngineInside(e) == ePc[e] \in {"marking", "serving", "freeing"}

NobodyInside    == ~SenderInside /\ \A e \in Engines : ~EngineInside(e)

\* At most one process is between sem_wait(shm_sem) and sem_post, and while one
\* is, the semaphore is 0.  No path forgets its post: a semaphore that is 0 with
\* nobody inside lost its holder to a SIGKILL of the ARM, after which the ARM
\* waits for it itself or is dead too.
ShmExclusion ==
    /\ SenderInside => shmSem = 0
    /\ \A e \in Engines : EngineInside(e) => shmSem = 0 /\ ~SenderInside
    /\ \A e, f \in Engines : EngineInside(e) /\ EngineInside(f) => e = f
    /\ shmSem = 0 /\ NobodyInside => aPc \in {"unmarkBackup", "groupKilled"}

\* The ARM's own steps during which its view of the backup engine is in flux.
Creating == {"fork", "markBackup"}
Removing == {"close", "kill", "unmarkBackup", "resetHalf", "resetFull",
             "resetNotified", "groupKilled"}
Gone     == {"unmarkBackup", "resetHalf", "resetFull", "resetNotified"}

\* engines_available tells the truth: an engine that runs is flagged 0 exactly
\* from the moment it marked itself busy to the moment it marks itself available,
\* so no engine is lost to the Sender for good, and the flag of a backup engine
\* that does not exist is 0 except while the ARM is removing it.
BusyFlagHonest ==
    /\ \A e \in Engines :
          (IF e = Backup THEN backupPid = 1 /\ aPc \notin Creating
                         ELSE aPc # "groupKilled") =>
             (enginesAvailable[e] = 0 <=> ePc[e] \in {"serve", "serving", "free", "freeing"})
    /\ backupPid = 0 /\ aPc # "unmarkBackup" => enginesAvailable[Backup] = 0

\* is_arm_notified, the pid in authorization_engines[AUTH_SERVERS], the backup's
\* pipe and its process agree whenever the ARM is outside its creation and removal
\* code, and inside it they change in one order: the pid is 0 before fork(), the
\* pipe is closed before the kill, and both are gone before the flags are reset.
BackupConsistent ==
    /\ backupPid = 1 <=> ePc[Backup] # "absent"
    /\ aPc \notin Creating \cup Removing =>
          /\ isArmNotified = 1 <=> backupPid = 1
          /\ backupPipeOpen = 1 <=> backupPid = 1
    /\ aPc \in Creating => isArmNotified = 1
    /\ aPc = "fork" => backupPid = 0
    /\ aPc = "markBackup" => backupPid = 1 /\ backupPipeOpen = 1
    /\ aPc = "kill" => backupPipeOpen = 0
    /\ aPc \in Gone => backupPid = 0 /\ backupPipeOpen = 0

\* The Sender has chosen the backup engine and has not written to it yet.
BackupChosen ==
    /\ sPc \notin {"await", "search", "reset", "quit", "ended", "killed"}
    /\ availableEngine = Backup

\* A choice of the backup engine does not outlive that engine's replacement: while
\* a new one is being created nothing is bound for it, so it starts idle, with an
\* empty pipe and an honest flag.  A Sender that still holds a choice of the old
\* engine cannot have reported a full queue meanwhile, and no one else does.
NoStaleChoice ==
    /\ aPc \in Creating => ~BackupChosen /\ enginesAvailable[Backup] = 0
    /\ aPc = "markBackup" => ePc[Backup] \in {"ready", "idle"} /\ pipe[Backup] = << >>
    /\ BackupChosen /\ backupPid = 0 =>
          isQueueFull = 0 \/ aPc \in {"unmarkBackup", "resetHalf", "resetFull"}

\* What station s holds; an engine's hands hold a request until it is served.
Holds(s) ==
    CASE s[1] = "receiver" -> {rRequest}
      [] s[1] = "video"    -> Elements(videoQueue)
      [] s[1] = "others"   -> Elements(othersQueue)
      [] s[1] = "sender"   -> {request}
      [] s[1] = "pipe"     -> Elements(pipe[s[2]])
      [] s[1] = "hands"    -> IF ePc[s[2]] \in {"mark", "marking", "serve", "serving"}
                              THEN {eRequest[s[2]]} ELSE {}
      [] s[1] = "served"   -> served
      [] s[1] = "lost"     -> lost

Stations == {<<"receiver", 0>>, <<"video", 0>>, <<"others", 0>>, <<"sender", 0>>,
             <<"served", 0>>, <<"lost", 0>>}
            \cup ({"pipe", "hands"} \X Engines)

HasId(s, id) == \E r \in Holds(s) : r.id = id

\* Every message read from the named pipes is at exactly one station: no
\* interleaving of the Receiver, the Sender, the ARM and the engines duplicates
\* a request or lets it vanish from the bookkeeping.
EachRequestOnce ==
    \A id \in 1 .. received :
       \E s \in Stations :
          HasId(s, id) /\ \A t \in Stations : HasId(t, id) => t = s

\* The place of each message, for the abstract life of a request: what an engine has is
\* in its pipe or in its hands.
At == [id \in 1 .. MaxRequests |->
        IF \E s \in Stations : HasId(s, id)
        THEN LET s == CHOOSE s \in Stations : HasId(s, id)
             IN IF s[1] \in {"pipe", "hands"} THEN <<"engine", s[2]>> ELSE s
        ELSE <<"outside", 0>>]

Path == INSTANCE Requests WITH at <- At

\* Every step of the threads, the engines and the ARM is a step of module Requests or
\* none: a request never goes back, changes its engine or overtakes in its queue, and is
\* lost only in the ways named there.
ImplementsRequests == Path!Spec

Increasing(seq) == \A i, j \in 1 .. Len(seq) : i < j => seq[i].id < seq[j].id

ForVideo(r)  == r.kind \in {"REGISTER", "VIDEO"}
Downstream   == {request} \cup served
                \cup UNION {Elements(pipe[e]) \cup {eRequest[e]} : e \in Engines}

\* First come, first sent within each queue: a queue is in arrival order, and
\* whatever has been taken off it to be sent arrived before all that is in it,
\* despite evictions from the tail and several engines.
ArrivalOrder ==
    /\ Increasing(videoQueue) /\ Increasing(othersQueue)
    /\ \A x \in Downstream \ {NoRequest} :
          /\ ForVideo(x)  => \A r \in Elements(videoQueue) : x.id < r.id
          /\ ~ForVideo(x) => \A r \in Elements(othersQueue) : x.id < r.id

---------------------------------------------------------------------------
\* LIVENESS

\* The ways in which the platform comes to a stop: the Sender holds shm_sem while no
\* engine is available, the backup engine was killed inside its critical section or
\* inside update_log(), or the whole group was killed.
SearchStuck == SenderInside /\ \A e \in Engines : enginesAvailable[e] = 0
SemOrphaned == shmSem = 0 /\ NobodyInside
Stuck       == SearchStuck \/ SemOrphaned \/ logSem = 0 \/ aPc = "groupKilled"

\* A request in the pipe of a regular engine is served, unless the platform stops.
SentIsServed ==
    \A id \in 1 .. MaxRequests, e \in Engines \ {Backup} :
       HasId(<<"pipe", e>>, id) ~> (HasId(<<"served", 0>>, id) \/ Stuck)

\* A full queue that the Sender has reported is noticed by the ARM, even when shm_sem
\* or logSem is lost, unless the ARM itself is killed.
FullIsNoticed ==
    (isQueueFull = 1 /\ isArmNotified = 0) ~> (isArmNotified = 1 \/ aPc = "groupKilled")

\* sm_lib.h says the Sender is notified of every request placed in a queue and
\* then submits it: what is in a queue leaves it, unless the platform stops
\* or the Sender has ended.
QueuedIsTaken ==
    \A id \in 1 .. MaxRequests :
       (HasId(<<"video", 0>>, id) \/ HasId(<<"others", 0>>, id))
          ~> \/ ~(HasId(<<"video", 0>>, id) \/ HasId(<<"others", 0>>, id))
             \/ Stuck \/ sPc = "ended"

\* sm_lib.c: the Sender is "waiting for an Authorization Engine to be available",
\* so its search comes to an end.
SearchEnds == SenderInside ~> ~SenderInside

\* sm_lib.c: the ARM's kill() is there to "remove backup engine", nothing else.
OnlyBackupKilled == aPc # "groupKilled"

===========================================================================
