----------------------------- MODULE Shutdown -----------------------------
(***************************************************************************)
(* How the platform ends on SIGINT: sm_sigint_handler() of the System      *)
(* Manager (src/system_manager/system_manager.c), handle_signal() of the   *)
(* Authorization Requests Manager (ARM), the cancellation of its threads,  *)
(* SIGUSR1 at the engines and the death of the Monitor Engine              *)
(* (src/system_manager/sm_lib.c).                                          *)
(*                                                                         *)
(* Module Dispatch has the request path in detail; here there is one       *)
(* queue, the backup engine is created and not removed again, and each     *)
(* lock names its holder, because what matters is who dies with which lock *)
(* in its hands.  A thread is inside update_log() while it is at a         *)
(* location of AfterLog and holds the log, and inside a critical section   *)
(* of shm_sem while it holds shm_sem.  A critical section that nothing can *)
(* cut short is one step: those of the engines and of the System Manager.  *)
(* Left out: the engine's log entry for a denied request, inside shm_sem;  *)
(* and the short section of shm_sem in which the Monitor Engine's child    *)
(* takes its report every 30 seconds: that process is only there or gone.  *)
(***************************************************************************)
EXTENDS Integers, SequencesExt

CONSTANTS
    Regular,      (* the engines that run from the start                    *)
    QUEUE_POS,    (* capacity of the queue                                  *)
    MaxRequests   (* bound: messages that ever arrive on the named pipes    *)

Backup  == "backup"
Engines == Regular \cup {Backup}

\* "arm" is the ARM's main loop, "handler" the same thread inside handle_signal().
Singles == {"sm", "arm", "handler", "receiver", "sender", "monitor", "child"}
Threads == Singles \cup Engines

Nobody    == "nobody"
NoRequest == 0

ASSUME ShutdownAssumption ==
    /\ Regular # {} /\ Regular \cap (Singles \cup {Backup, Nobody}) = {}
    /\ QUEUE_POS \in Nat \ {0} /\ MaxRequests \in Nat

VARIABLES
    pc,                \* where each thread is
    shmHolder,         \* who has shm_sem
    logHolder,         \* who has the semaphore of update_log()
    queueHolder,       \* who has the queue's mutex
    sentHolder,        \* who has died with sent_request_mutex in its hands
    \* ---- request path
    received, rRequest, queue, sentRequest, chosen, sRequest,
    isQueueFull, isArmNotified, backupPid,
    enginesAvailable, pipe, eRequest,
    \* ---- signals and cancellation
    group,             \* SIGINT went to the whole process group, by ^C
    armPending,        \* SIGINT is pending at the ARM
    cancelled,         \* threads with a pending cancellation
    closed,            \* sm_is_closed of each engine
    \* ---- history
    served,            \* requests an engine has carried out
    dropped            \* requests refused by a full queue, or evicted

lockVars    == <<shmHolder, logHolder, queueHolder, sentHolder>>
flagVars    == <<sentRequest, isQueueFull, isArmNotified, backupPid>>
signalVars  == <<group, armPending, cancelled, closed>>
historyVars == <<served, dropped>>
pathVars    == <<received, rRequest, queue, chosen, sRequest, enginesAvailable, pipe,
                 eRequest>>

vars == <<pc, lockVars, flagVars, signalVars, historyVars, pathVars>>

\* The platform has started: the regular engines wait for requests.
Init ==
    /\ pc = [t \in Threads |->
                CASE t = "sm"       -> "pause"
                  [] t = "arm"      -> "loop"
                  [] t = "receiver" -> "select"
                  [] t = "sender"   -> "await"
                  [] t \in {"monitor", "child"} -> "outside"
                  [] t \in Regular  -> "idle"
                  [] t \in {"handler", Backup} -> "absent"]
    /\ shmHolder = Nobody /\ logHolder = Nobody
    /\ queueHolder = Nobody /\ sentHolder = Nobody
    /\ received = 0 /\ rRequest = NoRequest /\ queue = << >>
    /\ sentRequest = 0 /\ chosen = Nobody /\ sRequest = NoRequest
    /\ isQueueFull = 0 /\ isArmNotified = 0 /\ backupPid = 0
    /\ enginesAvailable = [e \in Engines |-> IF e \in Regular THEN 1 ELSE 0]
    /\ pipe = [e \in Engines |-> << >>]
    /\ eRequest = [e \in Engines |-> NoRequest]
    /\ group = FALSE /\ armPending = FALSE /\ cancelled = {}
    /\ closed = [e \in Engines |-> FALSE]
    /\ served = {} /\ dropped = {}

Goto(t, from, to) == pc[t] = from /\ pc' = [pc EXCEPT ![t] = to]

\* The main loop stands still while its thread is in the handler.
Runs(t) == t = "arm" => pc["handler"] = "absent"

---------------------------------------------------------------------------
\* update_log(): from the location where a thread logs to the one after it.
AfterLog == [
    logReceived |-> "kill",       logClosing |-> "ended",            \* sm
    logCreated  |-> "mark",                                          \* arm
    logCanceled |-> "signal",     logWaiting |-> "wait",             \* handler
    report      |-> "ended",
    logDropped  |-> "signal",                                        \* receiver
    logEvicted  |-> "evict",      logSent    |-> "reset",            \* sender
    logAlert    |-> "outside",                                       \* monitor
    ready       |-> "idle",       logDone    |-> "free" ]            \* engines

\* Those that a signal or a cancellation may stop inside update_log().
StoppedInLog(t) ==
    t \in {"arm", "receiver", "sender", "monitor"} \/ pc[t] = "ready"

LogWhole(t) ==
    /\ pc[t] \in DOMAIN AfterLog /\ ~StoppedInLog(t)
    /\ logHolder = Nobody
    /\ pc' = [pc EXCEPT ![t] = AfterLog[@]]
    /\ UNCHANGED <<lockVars, flagVars, signalVars, historyVars, pathVars>>

LogAcquire(t) ==
    /\ pc[t] \in DOMAIN AfterLog /\ StoppedInLog(t) /\ Runs(t)
    /\ logHolder = Nobody
    /\ logHolder' = t
    /\ UNCHANGED <<pc, shmHolder, queueHolder, sentHolder, flagVars, signalVars,
                   historyVars, pathVars>>

\* Faulty variant: the Receiver does not unlock the mutex of a full queue.
ReleaseKeepsMutex(t) ==
    /\ logHolder = t
    /\ pc[t] \in DOMAIN AfterLog /\ Runs(t)
    /\ logHolder' = Nobody
    /\ pc' = [pc EXCEPT ![t] = AfterLog[@]]
    /\ shmHolder' = IF t = "monitor" THEN Nobody ELSE shmHolder
    /\ UNCHANGED <<queueHolder, sentHolder, flagVars, signalVars, historyVars, pathVars>>

\* The Receiver's refusal is logged under the queue's mutex, the Monitor Engine's
\* alert under shm_sem.
LogRelease(t) ==
    /\ logHolder = t
    /\ pc[t] \in DOMAIN AfterLog /\ Runs(t)
    /\ logHolder' = Nobody
    /\ pc' = [pc EXCEPT ![t] = AfterLog[@]]
    /\ queueHolder' = IF t = "receiver" THEN Nobody ELSE queueHolder
    /\ shmHolder'   = IF t = "monitor" THEN Nobody ELSE shmHolder
    /\ UNCHANGED <<sentHolder, flagVars, signalVars, historyVars, pathVars>>

\* sem_wait(shm_sem) where a signal or SIGINT may strike before sem_post().
ShmSections == [arm |-> "mark", sender |-> "semwait", monitor |-> "outside"]

ShmEnter(t) ==
    /\ pc[t] = ShmSections[t] /\ Runs(t)
    /\ shmHolder = Nobody
    /\ shmHolder' = t
    /\ UNCHANGED <<pc, logHolder, queueHolder, sentHolder, flagVars, signalVars,
                   historyVars, pathVars>>

ShmLeave(t, to) ==
    /\ shmHolder = t /\ pc[t] = ShmSections[t] /\ Runs(t)
    /\ shmHolder' = Nobody
    /\ pc' = [pc EXCEPT ![t] = to]
    /\ UNCHANGED <<logHolder, queueHolder, sentHolder>>

---------------------------------------------------------------------------
\* RECEIVER THREAD

Receive ==
    /\ Goto("receiver", "select", "insert")
    /\ received < MaxRequests                            \* bound
    /\ received' = received + 1 /\ rRequest' = received + 1
    /\ UNCHANGED <<lockVars, flagVars, signalVars, historyVars, queue, chosen, sRequest,
                   enginesAvailable, pipe, eRequest>>

\* insert() under the queue's mutex; a refusal is logged before it is unlocked.
ReceiverInsert ==
    /\ pc["receiver"] = "insert"
    /\ queueHolder = Nobody
    /\ rRequest' = NoRequest
    /\ IF Len(queue) < QUEUE_POS
       THEN /\ queue' = Append(queue, rRequest)
            /\ pc' = [pc EXCEPT !["receiver"] = "signal"]
            /\ UNCHANGED <<queueHolder, dropped>>
       ELSE /\ dropped' = dropped \cup {rRequest}
            /\ queueHolder' = "receiver"
            /\ pc' = [pc EXCEPT !["receiver"] = "logDropped"]
            /\ UNCHANGED queue
    /\ UNCHANGED <<shmHolder, logHolder, sentHolder, flagVars, signalVars, served, received,
                   chosen, sRequest, enginesAvailable, pipe, eRequest>>

\* The lock of sent_request_mutex is not a cancellation point.
ReceiverSignal ==
    /\ Goto("receiver", "signal", "select")
    /\ sentHolder = Nobody
    /\ sentRequest' = 1
    /\ UNCHANGED <<lockVars, isQueueFull, isArmNotified, backupPid, signalVars, historyVars,
                   pathVars>>

\* A cancelled Receiver ends in select() or read(), or in update_log() with what it
\* holds there.
ReceiverCancelled ==
    /\ "receiver" \in cancelled
    /\ pc["receiver"] \in {"select", "logDropped"}
    /\ pc' = [pc EXCEPT !["receiver"] = "ended"]
    /\ UNCHANGED <<lockVars, flagVars, signalVars, historyVars, pathVars>>

---------------------------------------------------------------------------
\* SENDER THREAD

SenderAwake ==
    /\ Goto("sender", "await", "semwait")
    /\ sentRequest = 1 /\ sentHolder = Nobody
    /\ UNCHANGED <<lockVars, flagVars, signalVars, historyVars, pathVars>>

\* The search under shm_sem goes on until an engine is available; the backup
\* engine comes last in it.  Then the queue is looked at: when it is full for the first
\* time the ARM is told, and the engine is chosen again later.
SenderFindEngine ==
    /\ LET first == {e \in Engines : enginesAvailable[e] = 1
                        /\ (e = Backup => \A f \in Regular : enginesAvailable[f] = 0)}
           full  == Len(queue) = QUEUE_POS /\ isArmNotified = 0
       IN /\ first # {}
          /\ isQueueFull' = IF full THEN 1 ELSE isQueueFull
          /\ IF full \/ queue = << >>
             THEN ShmLeave("sender", "await") /\ UNCHANGED chosen
             ELSE ShmLeave("sender", "take") /\ chosen' \in first
    /\ UNCHANGED <<sentRequest, isArmNotified, backupPid, signalVars, historyVars, received,
                   rRequest, queue, sRequest, enginesAvailable, pipe, eRequest>>

\* drop() under the queue's mutex: the head is taken, or, when it is late,
\* logged and the last request is removed, until the queue is empty.
SenderTake ==
    /\ pc["sender"] = "take"
    /\ queueHolder = Nobody
    /\ \/ /\ sRequest' = Head(queue) /\ queue' = Tail(queue)
          /\ pc' = [pc EXCEPT !["sender"] = "write"]
          /\ UNCHANGED queueHolder
       \/ /\ queueHolder' = "sender"
          /\ pc' = [pc EXCEPT !["sender"] = "logEvicted"]
          /\ UNCHANGED <<sRequest, queue>>
    /\ UNCHANGED <<shmHolder, logHolder, sentHolder, flagVars, signalVars, historyVars,
                   received, rRequest, chosen, enginesAvailable, pipe, eRequest>>

SenderEvict ==
    /\ pc["sender"] = "evict"
    /\ dropped' = dropped \cup {Last(queue)} /\ queue' = Front(queue)
    /\ IF queue' = << >>
       THEN /\ queueHolder' = Nobody /\ chosen' = Nobody
            /\ pc' = [pc EXCEPT !["sender"] = "await"]
       ELSE /\ pc' = [pc EXCEPT !["sender"] = "logEvicted"]
            /\ UNCHANGED <<queueHolder, chosen>>
    /\ UNCHANGED <<shmHolder, logHolder, sentHolder, flagVars, signalVars, served,
                   received, rRequest, sRequest, enginesAvailable, pipe, eRequest>>

SenderWrite ==
    /\ Goto("sender", "write", "logSent")
    /\ pipe' = [pipe EXCEPT ![chosen] = Append(@, sRequest)]
    /\ sRequest' = NoRequest /\ chosen' = Nobody
    /\ UNCHANGED <<lockVars, flagVars, signalVars, historyVars, received, rRequest, queue,
                   enginesAvailable, eRequest>>

SenderReset ==
    /\ Goto("sender", "reset", "await")
    /\ sentHolder = Nobody
    /\ sentRequest' = 0
    /\ UNCHANGED <<lockVars, isQueueFull, isArmNotified, backupPid, signalVars, historyVars,
                   pathVars>>

\* A cancelled Sender ends in pthread_cond_wait(), with sent_request_mutex locked
\* again, in sem_wait(), in update_log(), or in write() with the request in its
\* hands; in the search for an engine it cannot be cancelled.
SenderCancelled ==
    /\ "sender" \in cancelled
    /\ \/ pc["sender"] = "await" /\ sentHolder = Nobody /\ sentHolder' = "sender"
       \/ /\ \/ pc["sender"] = "semwait" /\ shmHolder # "sender"
             \/ pc["sender"] \in {"write", "logEvicted", "logSent"}
          /\ UNCHANGED sentHolder
    /\ pc' = [pc EXCEPT !["sender"] = "ended"]
    /\ UNCHANGED <<shmHolder, logHolder, queueHolder, flagVars, signalVars, historyVars,
                   pathVars>>

---------------------------------------------------------------------------
\* THE ENGINES

EngineRead(e) ==
    /\ Goto(e, "idle", "busy")
    /\ pipe[e] # << >>
    /\ eRequest' = [eRequest EXCEPT ![e] = Head(pipe[e])]
    /\ pipe' = [pipe EXCEPT ![e] = Tail(@)]
    /\ UNCHANGED <<lockVars, flagVars, signalVars, historyVars, received, rRequest, queue,
                   chosen, sRequest, enginesAvailable>>

EngineMark(e) ==
    /\ Goto(e, "busy", "serve")
    /\ shmHolder = Nobody
    /\ enginesAvailable' = [enginesAvailable EXCEPT ![e] = 0]
    /\ UNCHANGED <<lockVars, flagVars, signalVars, historyVars, received, rRequest, queue, chosen,
                   sRequest, pipe, eRequest>>

EngineServe(e) ==
    /\ Goto(e, "serve", "logDone")
    /\ shmHolder = Nobody
    /\ served' = served \cup {eRequest[e]}
    /\ UNCHANGED <<lockVars, flagVars, signalVars, dropped, pathVars>>

\* The engine is available again, and looks at sm_is_closed before the next request.
EngineFree(e) ==
    /\ Goto(e, "free", IF closed[e] THEN "ended" ELSE "idle")
    /\ shmHolder = Nobody
    /\ enginesAvailable' = [enginesAvailable EXCEPT ![e] = 1]
    /\ eRequest' = [eRequest EXCEPT ![e] = NoRequest]
    /\ UNCHANGED <<lockVars, flagVars, signalVars, historyVars, received, rRequest, queue, chosen,
                   sRequest, pipe>>

\* SIGUSR1 interrupts select(), or is seen after select() timed out.
EngineEnd(e) ==
    /\ Goto(e, "idle", "ended")
    /\ closed[e]
    /\ UNCHANGED <<lockVars, flagVars, signalVars, historyVars, pathVars>>

---------------------------------------------------------------------------
\* THE MONITOR ENGINE: passes under shm_sem

MonitorLeave ==
    /\ ShmLeave("monitor", "outside")
    /\ UNCHANGED <<flagVars, signalVars, historyVars, pathVars>>

\* An alert is sent, and logged with shm_sem held.
MonitorAlert ==
    /\ Goto("monitor", "outside", "logAlert")
    /\ shmHolder = "monitor"
    /\ UNCHANGED <<lockVars, flagVars, signalVars, historyVars, pathVars>>

---------------------------------------------------------------------------
\* THE ARM'S MAIN LOOP: the creation of the backup engine

ArmSeeFull ==
    /\ Goto("arm", "loop", "fork") /\ Runs("arm")
    /\ isQueueFull = 1 /\ isArmNotified = 0
    /\ isArmNotified' = 1
    /\ UNCHANGED <<lockVars, sentRequest, isQueueFull, backupPid, signalVars, historyVars,
                   pathVars>>

\* fork() and the store of its result are two steps: the backup engine runs before
\* the ARM knows its pid.
ArmFork ==
    /\ pc["arm"] = "fork" /\ Runs("arm")
    /\ pc' = [pc EXCEPT !["arm"] = "record", ![Backup] = "ready"]
    /\ UNCHANGED <<lockVars, flagVars, signalVars, historyVars, pathVars>>

ArmRecord ==
    /\ Goto("arm", "record", "logCreated") /\ Runs("arm")
    /\ backupPid' = 1
    /\ UNCHANGED <<lockVars, sentRequest, isQueueFull, isArmNotified, signalVars,
                   historyVars, pathVars>>

ArmMark ==
    /\ ShmLeave("arm", "loop")
    /\ enginesAvailable' = [enginesAvailable EXCEPT ![Backup] = 1]
    /\ isQueueFull' = 0
    /\ UNCHANGED <<sentRequest, isArmNotified, backupPid, signalVars, historyVars, received,
                   rRequest, queue, chosen, sRequest, pipe, eRequest>>

---------------------------------------------------------------------------
\* SIGINT

\* The backup engine is forked with the ARM's handler and ignores SIGINT only once
\* it is ready.  If ^C finds it before that, it runs handle_signal() on threads it
\* does not have: it ends or waits for ever, and may have sent SIGUSR1 to the
\* regular engines.
BackupAfterInterrupt ==
    IF group' /\ pc[Backup] = "ready"
    THEN /\ pc'[Backup] \in {"ended", "hung"}
         /\ closed' \in {closed, [e \in Engines |-> e \in Regular \/ closed[e]]}
    ELSE pc'[Backup] = pc[Backup] /\ UNCHANGED closed

\* ^C in the terminal reaches every process of the group, kill -INT the System
\* Manager alone.  The Monitor Engine and its child die where they are; the System
\* Manager is in pause().
Interrupt ==
    /\ pc["sm"] = "pause"
    /\ group' \in BOOLEAN
    /\ armPending' = group'
    /\ \E b \in {pc[Backup], "ended", "hung"} :
          pc' = [pc EXCEPT !["sm"] = "logReceived",
                           !["monitor"] = IF group' THEN "ended" ELSE @,
                           !["child"]   = IF group' THEN "ended" ELSE @,
                           ![Backup]    = b]
    /\ BackupAfterInterrupt
    /\ UNCHANGED <<lockVars, flagVars, cancelled, historyVars, pathVars>>

\* sm_sigint_handler(): SIGINT to the ARM, and to the Monitor Engine.
SmKill ==
    /\ pc["sm"] = "kill"
    /\ pc' = [pc EXCEPT !["sm"] = "wait", !["monitor"] = "ended"]
    /\ armPending' = TRUE
    /\ UNCHANGED <<lockVars, flagVars, group, cancelled, closed, historyVars, pathVars>>

SmWait ==
    /\ Goto("sm", "wait", "logClosing")
    /\ pc["handler"] = "ended" /\ pc["monitor"] = "ended"
    /\ UNCHANGED <<lockVars, flagVars, signalVars, historyVars, pathVars>>

\* The handler interrupts the ARM's main loop wherever it is, and cancels both threads.
ArmInterrupted ==
    /\ armPending
    /\ Goto("handler", "absent", "join")
    /\ armPending' = FALSE
    /\ cancelled' = {"receiver", "sender"}
    /\ UNCHANGED <<lockVars, flagVars, group, closed, historyVars, pathVars>>

\* While the main thread is in the handler a second SIGINT goes to the Receiver or
\* the Sender.  Its own run of the handler cancels both threads and ends it at the
\* first cancellation point there, with whatever it held where it was.
MayHold(mutex, t, locations) ==
    mutex' \in {mutex} \cup
               (IF mutex = Nobody /\ pc[t] \in locations THEN {t} ELSE {})

ThreadInterrupted(t) ==
    /\ armPending
    /\ pc["handler"] \notin {"absent", "ended"}
    /\ pc[t] # "ended"
    /\ armPending' = FALSE
    /\ pc' = [pc EXCEPT ![t] = "ended"]
    /\ MayHold(queueHolder, t, {"insert", "signal", "take", "write"})
    /\ MayHold(sentHolder, t, {"signal", "await", "reset"})
    /\ UNCHANGED <<shmHolder, logHolder, flagVars, group, cancelled, closed, historyVars,
                   pathVars>>

\* pthread_join() of both threads.
HandlerJoin ==
    /\ Goto("handler", "join", "logCanceled")
    /\ pc["receiver"] = "ended" /\ pc["sender"] = "ended"
    /\ UNCHANGED <<lockVars, flagVars, signalVars, historyVars, pathVars>>

\* The engines whose pid the ARM has.
Recorded == Regular \cup (IF backupPid = 1 THEN {Backup} ELSE {})

\* Faulty variant: SIGKILL for SIGUSR1.
SignalKills ==
    /\ pc["handler"] = "signal"
    /\ pc' = [t \in Threads |-> IF t = "handler" THEN "logWaiting"
                                ELSE IF t \in Recorded THEN "ended" ELSE pc[t]]
    /\ UNCHANGED <<lockVars, flagVars, signalVars, historyVars, pathVars>>

\* Faulty variant: the loop that sends SIGUSR1 ends before the backup engine.
SignalRegular ==
    /\ pc["handler"] = "signal"
    /\ pc' = [pc EXCEPT !["handler"] = "logWaiting"]
    /\ closed' = [e \in Engines |-> closed[e] \/ e \in Regular]
    /\ UNCHANGED <<lockVars, flagVars, group, armPending, cancelled, historyVars, pathVars>>

\* SIGUSR1 sets sm_is_closed, or ends an engine that has no handler for it yet.
HandlerSignal ==
    /\ pc["handler"] = "signal"
    /\ LET unready == {e \in Recorded : pc[e] \in {"ready", "hung"}}
       IN /\ pc' = [t \in Threads |-> IF t = "handler" THEN "logWaiting"
                                      ELSE IF t \in unready THEN "ended" ELSE pc[t]]
          /\ closed' = [e \in Engines |-> closed[e] \/ e \in Recorded]
    /\ UNCHANGED <<lockVars, flagVars, group, armPending, cancelled, historyVars, pathVars>>

\* Faulty variant: the loop over the engines ends before the backup engine.
WaitForRegular ==
    /\ Goto("handler", "wait", "report")
    /\ \A e \in Regular : pc[e] = "ended"
    /\ UNCHANGED <<lockVars, flagVars, signalVars, historyVars, pathVars>>

\* waitpid() of every engine; then the queue is printed and all is cleaned up.
HandlerWait ==
    /\ Goto("handler", "wait", "report")
    /\ \A e \in Recorded : pc[e] = "ended"
    /\ UNCHANGED <<lockVars, flagVars, signalVars, historyVars, pathVars>>

---------------------------------------------------------------------------
Receiver == Receive \/ ReceiverInsert \/ ReceiverSignal \/ ReceiverCancelled

Sender ==
    \/ SenderAwake \/ ShmEnter("sender") \/ SenderFindEngine \/ SenderTake \/ SenderEvict
    \/ SenderWrite \/ SenderReset \/ SenderCancelled

Engine(e) ==
    EngineRead(e) \/ EngineMark(e) \/ EngineServe(e) \/ EngineFree(e) \/ EngineEnd(e)

Monitor == ShmEnter("monitor") \/ MonitorAlert \/ MonitorLeave

Arm == ArmSeeFull \/ ArmFork \/ ArmRecord \/ ShmEnter("arm") \/ ArmMark

Handler ==
    \/ ArmInterrupted \/ HandlerJoin \/ HandlerSignal \/ HandlerWait
    \/ \E t \in {"receiver", "sender"} : ThreadInterrupted(t)

Sm == SmKill \/ SmWait

Next ==
    \/ \E t \in Threads : LogWhole(t) \/ LogAcquire(t) \/ LogRelease(t)
    \/ Receiver \/ Sender \/ Monitor \/ Arm \/ Handler \/ Interrupt \/ Sm
    \/ \E e \in Engines : Engine(e)

Spec == Init /\ [][Next]_vars

\* Every thread that can run does, a cancelled thread is cancelled, and a semaphore
\* that is posted again and again is got.  Nothing makes a message or SIGINT come.
Fairness ==
    /\ SF_vars(LogWhole("sm")) /\ WF_vars(LogWhole("handler"))
    /\ WF_vars(\E t \in Threads : LogRelease(t))
    /\ WF_vars(LogAcquire("receiver") \/ ReceiverInsert \/ ReceiverSignal)
    /\ WF_vars(ReceiverCancelled)
    /\ WF_vars(LogAcquire("sender") \/ Sender) /\ SF_vars(SenderCancelled)
    /\ WF_vars(MonitorLeave) /\ WF_vars(Handler) /\ WF_vars(Sm)
    /\ \A e \in Engines : WF_vars(Engine(e) \/ LogWhole(e) \/ LogAcquire(e))

FairSpec == Spec /\ Fairness

---------------------------------------------------------------------------
\* TYPES

SmPcs       == {"pause", "logReceived", "kill", "wait", "logClosing", "ended"}
ArmPcs      == {"loop", "fork", "record", "logCreated", "mark"}
HandlerPcs  == {"absent", "join", "logCanceled", "signal", "logWaiting", "wait",
                "report", "ended"}
ReceiverPcs == {"select", "insert", "logDropped", "signal", "ended"}
SenderPcs   == {"await", "semwait", "take", "logEvicted", "evict", "write",
                "logSent", "reset", "ended"}
EnginePcs   == {"absent", "ready", "idle", "busy", "serve", "logDone", "free", "hung",
                "ended"}

Request    == 1 .. MaxRequests
MaybeOne   == Request \cup {NoRequest}

\* A thread that is still there and has a lock is at a place of the code where it
\* has it.
LocksInUse ==
    /\ shmHolder # Nobody =>
          pc[shmHolder] \in {ShmSections[shmHolder], "logAlert", "ended"}
    /\ logHolder # Nobody => pc[logHolder] \in DOMAIN AfterLog \cup {"ended", "hung"}
    /\ queueHolder # Nobody =>
          pc[queueHolder] \in {"logDropped", "logEvicted", "evict", "ended"}
    /\ sentHolder # Nobody => pc[sentHolder] = "ended"

\* Every variable keeps its type, a thread holds a request exactly where the code has
\* one in hand, and locks are held only inside their critical sections.
TypeOK ==
    /\ DOMAIN pc = Threads
    /\ pc["sm"] \in SmPcs /\ pc["arm"] \in ArmPcs /\ pc["handler"] \in HandlerPcs
    /\ pc["receiver"] \in ReceiverPcs /\ pc["sender"] \in SenderPcs
    /\ pc["monitor"] \in {"outside", "logAlert", "ended"}
    /\ pc["child"] \in {"outside", "ended"}
    /\ \A e \in Engines : pc[e] \in EnginePcs
    /\ {shmHolder, logHolder, queueHolder, sentHolder} \subseteq Threads \cup {Nobody}
    /\ LocksInUse
    /\ received \in 0 .. MaxRequests /\ queue \in Seq(Request) /\ Len(queue) <= QUEUE_POS
    /\ rRequest \in MaybeOne /\ sRequest \in MaybeOne
    /\ pc["receiver"] # "ended" => (rRequest # NoRequest <=> pc["receiver"] = "insert")
    /\ pc["sender"] # "ended" => (sRequest # NoRequest <=> pc["sender"] = "write")
    /\ chosen \in Engines \cup {Nobody}
    /\ {sentRequest, isQueueFull, isArmNotified, backupPid} \subseteq {0, 1}
    /\ enginesAvailable \in [Engines -> {0, 1}]
    /\ pipe \in [Engines -> Seq(Request)] /\ eRequest \in [Engines -> MaybeOne]
    /\ group \in BOOLEAN /\ armPending \in BOOLEAN
    /\ cancelled \subseteq {"receiver", "sender"}
    /\ closed \in [Engines -> BOOLEAN]
    /\ served \subseteq Request /\ dropped \subseteq Request

---------------------------------------------------------------------------
\* SAFETY

\* When the ARM has ended, every message it had read was carried out, or refused or
\* evicted, or is in the queue it has printed, or is lost in one of two ways: in the
\* hands of a thread that was cancelled, or in the pipe of an engine, which
\* stops between two requests.  No engine that the ARM knows stops in the middle of a
\* request.
AccountedFor ==
    pc["handler"] = "ended" =>
       /\ \A id \in 1 .. received :
             \/ id \in served \cup dropped \cup ToSet(queue) \cup {rRequest, sRequest}
             \/ \E e \in Engines : id \in ToSet(pipe[e])
       /\ \A e \in Recorded : eRequest[e] = NoRequest

\* When the System Manager has ended nothing of the platform is left behind, but the
\* Monitor Engine's child after a SIGINT that was not ^C, and a backup engine whose pid
\* the ARM had not stored yet.
NothingBehind ==
    pc["sm"] = "ended" =>
       /\ pc["handler"] = "ended" /\ pc["monitor"] = "ended"
       /\ pc["receiver"] = "ended" /\ pc["sender"] = "ended"
       /\ group => pc["child"] = "ended"
       /\ \A e \in Recorded : pc[e] = "ended"

---------------------------------------------------------------------------
\* LIVENESS

\* t left the lock it holds locked for ever: it has ended, or it is the main loop that
\* its own signal handler interrupted.
Orphaned(t) ==
    \/ t # Nobody /\ pc[t] \in {"ended", "hung"}
    \/ t = "arm"  /\ pc["handler"] # "absent"

\* The ways in which the shutdown does not end.
\* Somebody died inside update_log(), and the System Manager's last line waits.
LogLost == Orphaned(logHolder)
\* Somebody died inside shm_sem, and an engine needs it for the request it has.
ShmLost == Orphaned(shmHolder) /\ \E e \in Engines : pc[e] \in {"busy", "serve", "free"}
\* The Receiver and the Sender wait for each other's mutex, which is no
\* cancellation point, and the ARM waits for both.
MutexLost ==
    \/ Orphaned(queueHolder) /\ (pc["receiver"] = "insert" \/ pc["sender"] = "take")
    \/ Orphaned(sentHolder) /\ (pc["receiver"] = "signal"
                                 \/ pc["sender"] \in {"await", "reset"})
\* The Sender searches for an engine, which is no cancellation point either, and none
\* will be available.
SearchStuck ==
    /\ shmHolder = "sender" /\ pc["sender"] = "semwait"
    /\ \A e \in Engines : enginesAvailable[e] = 0

\* SIGINT ends the System Manager, and so by NothingBehind the platform, unless
\* the shutdown runs into one of these four.
ShutdownEnds ==
    (pc["sm"] # "pause")
       ~> (pc["sm"] = "ended" \/ LogLost \/ ShmLost \/ MutexLost \/ SearchStuck)

===========================================================================
