-------------------------- MODULE ShutdownProofs --------------------------
(***************************************************************************)
(* Theorems about module Shutdown, for every number of engines, every      *)
(* capacity of the queue and every number of messages: TypeOK,             *)
(* AccountedFor and NothingBehind follow from one inductive invariant.     *)
(***************************************************************************)
EXTENDS Shutdown, SequenceTheorems, TLAPS

---------------------------------------------------------------------------
\* THE INDUCTIVE INVARIANT

\* Where each thread may be.
Places ==
    /\ DOMAIN pc = Threads
    /\ pc["sm"] \in SmPcs /\ pc["arm"] \in ArmPcs /\ pc["handler"] \in HandlerPcs
    /\ pc["receiver"] \in ReceiverPcs /\ pc["sender"] \in SenderPcs
    /\ pc["monitor"] \in {"outside", "logAlert", "ended"}
    /\ pc["child"] \in {"outside", "ended"}
    /\ \A e \in Engines : pc[e] \in EnginePcs

\* Who may hold which lock, and where.
Locks ==
    /\ shmHolder \in {"arm", "sender", "monitor", Nobody}
    /\ logHolder \in Threads \cup {Nobody}
    /\ queueHolder \in {"receiver", "sender", Nobody}
    /\ sentHolder \in {"receiver", "sender", Nobody}
    /\ LocksInUse

Flags ==
    /\ {sentRequest, isQueueFull, isArmNotified, backupPid} \subseteq {0, 1}
    /\ enginesAvailable \in [Engines -> {0, 1}]
    /\ group \in BOOLEAN /\ armPending \in BOOLEAN
    /\ cancelled \subseteq {"receiver", "sender"}
    /\ closed \in [Engines -> BOOLEAN]

\* The requests on their way: the Sender takes only from a queue that is not empty, has
\* chosen an engine by then, and an engine has a request from its pipe on until it is
\* available again.
Carried ==
    /\ received \in 0 .. MaxRequests /\ queue \in Seq(Request) /\ Len(queue) <= QUEUE_POS
    /\ rRequest \in MaybeOne /\ sRequest \in MaybeOne
    /\ pc["receiver"] # "ended" => (rRequest # NoRequest <=> pc["receiver"] = "insert")
    /\ pc["sender"] # "ended" => (sRequest # NoRequest <=> pc["sender"] = "write")
    /\ chosen \in Engines \cup {Nobody}
    /\ pc["sender"] \in {"take", "logEvicted", "evict", "write"} => chosen \in Engines
    /\ pc["sender"] \in {"take", "logEvicted", "evict"} => queue # << >>
    /\ pipe \in [Engines -> Seq(Request)] /\ eRequest \in [Engines -> MaybeOne]
    /\ served \subseteq Request /\ dropped \subseteq Request
    /\ \A e \in Engines :
          /\ eRequest[e] # NoRequest <=> pc[e] \in {"busy", "serve", "logDone", "free"}
          /\ pc[e] \in {"logDone", "free"} => eRequest[e] \in served

\* Nothing is given to the backup engine before the ARM has its pid.
BackupKnown ==
    /\ pc["arm"] \in {"logCreated", "mark"} => backupPid = 1
    /\ pc["arm"] \in {"fork", "record"} => backupPid = 0 /\ isArmNotified = 1
    /\ isArmNotified = 0 => backupPid = 0
    /\ backupPid = 0 => /\ enginesAvailable[Backup] = 0 /\ chosen # Backup
                        /\ pipe[Backup] = << >> /\ eRequest[Backup] = NoRequest

\* Where a request is that has been read from the named pipes.
Somewhere(id) ==
    \/ id \in served \cup dropped \cup {rRequest, sRequest}
    \/ id \in ToSet(queue)
    \/ \E e \in Engines : id = eRequest[e] \/ id \in ToSet(pipe[e])

Ledger == \A id \in 1 .. received : Somewhere(id)

\* What has ended at each step of the shutdown, and does not come back.
Ending ==
    /\ pc["sm"] = "pause" => ~group
    /\ group => pc["child"] = "ended"
    /\ pc["handler"] \notin {"absent", "join"} =>
          pc["receiver"] = "ended" /\ pc["sender"] = "ended"
    /\ pc["handler"] \in {"report", "ended"} => \A e \in Recorded : pc[e] = "ended"
    /\ pc["sm"] \in {"logClosing", "ended"} =>
          pc["handler"] = "ended" /\ pc["monitor"] = "ended"

IInv == Places /\ Locks /\ Flags /\ Carried /\ BackupKnown /\ Ledger /\ Ending

---------------------------------------------------------------------------
\* THREADS

\* The engines are none of the other threads.
LEMMA Apart ==
    /\ Backup \in Engines /\ Engines \subseteq Threads /\ Singles \subseteq Threads
    /\ Threads = Singles \cup Engines
    /\ Nobody \notin Threads
    /\ \A e \in Engines : e \notin Singles /\ e # Nobody
BY ShutdownAssumption DEF Engines, Backup, Threads, Singles, Nobody

Moved(t, v) ==
    /\ DOMAIN pc' = Threads
    /\ pc'[t] = v
    /\ \A u \in Threads \ {t} : pc'[u] = pc[u]

\* One thread goes on, the others stay where they are.
LEMMA OneMoves ==
    ASSUME DOMAIN pc = Threads, NEW t \in Threads, NEW v, pc' = [pc EXCEPT ![t] = v]
    PROVE  Moved(t, v)
BY DEF Moved

LEMMA GotoMoves ==
    ASSUME DOMAIN pc = Threads, NEW t \in Threads, NEW from, NEW to, Goto(t, from, to)
    PROVE  pc[t] = from /\ Moved(t, to)
BY OneMoves DEF Goto

\* From where to where update_log() takes a thread.
Logged(t, from, to) ==
    \/ t = "sm" /\ \/ from = "logReceived" /\ to = "kill"
                   \/ from = "logClosing"  /\ to = "ended"
    \/ t = "arm" /\ from = "logCreated" /\ to = "mark"
    \/ t = "handler" /\ \/ from = "logCanceled" /\ to = "signal"
                        \/ from = "logWaiting"  /\ to = "wait"
                        \/ from = "report"      /\ to = "ended"
    \/ t = "receiver" /\ from = "logDropped" /\ to = "signal"
    \/ t = "sender" /\ \/ from = "logEvicted" /\ to = "evict"
                       \/ from = "logSent"    /\ to = "reset"
    \/ t = "monitor" /\ from = "logAlert" /\ to = "outside"
    \/ t \in Engines /\ \/ from = "ready"   /\ to = "idle"
                        \/ from = "logDone" /\ to = "free"

LEMMA LogMoves ==
    ASSUME Places, NEW t \in Threads, pc[t] \in DOMAIN AfterLog,
           pc' = [pc EXCEPT ![t] = AfterLog[@]]
    PROVE  Logged(t, pc[t], pc'[t]) /\ Moved(t, pc'[t])
<1>1. pc'[t] = AfterLog[pc[t]] /\ Moved(t, pc'[t])
  BY OneMoves DEF Places
<1> SUFFICES Logged(t, pc[t], pc'[t])
  BY <1>1
<1>2. DOMAIN AfterLog = {"logReceived", "logClosing", "logCreated", "logCanceled",
                         "logWaiting", "report", "logDropped", "logEvicted", "logSent",
                         "logAlert", "ready", "logDone"}
  BY DEF AfterLog
<1>3. /\ AfterLog["logReceived"] = "kill" /\ AfterLog["logClosing"] = "ended"
      /\ AfterLog["logCreated"] = "mark"
      /\ AfterLog["logCanceled"] = "signal" /\ AfterLog["logWaiting"] = "wait"
      /\ AfterLog["report"] = "ended"
      /\ AfterLog["logDropped"] = "signal"
      /\ AfterLog["logEvicted"] = "evict" /\ AfterLog["logSent"] = "reset"
      /\ AfterLog["logAlert"] = "outside"
      /\ AfterLog["ready"] = "idle" /\ AfterLog["logDone"] = "free"
  BY DEF AfterLog
<1> HIDE DEF AfterLog
<1>4. t \in Singles \cup Engines
  BY Apart
<1>5. CASE t \in Engines
  <2>1. pc[t] \in {"ready", "logDone"}
    BY <1>2, <1>5 DEF Places, EnginePcs
  <2>2. \/ pc[t] = "ready" /\ pc'[t] = "idle"
        \/ pc[t] = "logDone" /\ pc'[t] = "free"
    BY <1>1, <1>3, <2>1
  <2> QED
    BY <1>5, <2>2 DEF Logged
<1>6. CASE t \in Singles
  <2>1. pc["sm"] \in DOMAIN AfterLog => pc["sm"] \in {"logReceived", "logClosing"}
    BY <1>2 DEF Places, SmPcs
  <2>2. pc["arm"] \in DOMAIN AfterLog => pc["arm"] = "logCreated"
    BY <1>2 DEF Places, ArmPcs
  <2>3. pc["handler"] \in DOMAIN AfterLog =>
            pc["handler"] \in {"logCanceled", "logWaiting", "report"}
    BY <1>2 DEF Places, HandlerPcs
  <2>4. pc["receiver"] \in DOMAIN AfterLog => pc["receiver"] = "logDropped"
    BY <1>2 DEF Places, ReceiverPcs
  <2>5. pc["sender"] \in DOMAIN AfterLog => pc["sender"] \in {"logEvicted", "logSent"}
    BY <1>2 DEF Places, SenderPcs
  <2>6. pc["monitor"] \in DOMAIN AfterLog => pc["monitor"] = "logAlert"
    BY <1>2 DEF Places
  <2>7. pc["child"] \notin DOMAIN AfterLog
    BY <1>2 DEF Places
  <2>8. CASE t = "sm"
    <3>1. \/ pc[t] = "logReceived" /\ pc'[t] = "kill"
          \/ pc[t] = "logClosing" /\ pc'[t] = "ended"
      BY <1>1, <1>3, <2>1, <2>8
    <3> QED
      BY <2>8, <3>1 DEF Logged
  <2>9. CASE t = "arm"
    BY <1>1, <1>3, <2>2, <2>9 DEF Logged
  <2>10. CASE t = "handler"
    BY <1>1, <1>3, <2>3, <2>10 DEF Logged
  <2>11. CASE t = "receiver"
    BY <1>1, <1>3, <2>4, <2>11 DEF Logged
  <2>12. CASE t = "sender"
    <3>1. \/ pc[t] = "logEvicted" /\ pc'[t] = "evict"
          \/ pc[t] = "logSent" /\ pc'[t] = "reset"
      BY <1>1, <1>3, <2>5, <2>12
    <3> QED
      BY <2>12, <3>1 DEF Logged
  <2>13. CASE t = "monitor"
    BY <1>1, <1>3, <2>6, <2>13 DEF Logged
  <2>14. CASE t = "child"
    BY <1>1, <1>3, <2>7, <2>14 DEF Logged
  <2> QED
    BY <1>6, <2>8, <2>9, <2>10, <2>11, <2>12, <2>13, <2>14 DEF Singles
<1> QED
  BY <1>4, <1>5, <1>6

---------------------------------------------------------------------------
\* MOVES: every step in terms of where it takes a thread

\* An engine's own steps.
EngineMoves(e) ==
    \/ EngineRead(e)  /\ pc[e] = "idle"  /\ Moved(e, "busy")
    \/ EngineMark(e)  /\ pc[e] = "busy"  /\ Moved(e, "serve")
    \/ EngineServe(e) /\ pc[e] = "serve" /\ Moved(e, "logDone")
    \/ EngineFree(e)  /\ pc[e] = "free"  /\ Moved(e, IF closed[e] THEN "ended" ELSE "idle")
    \/ EngineEnd(e)   /\ pc[e] = "idle"  /\ Moved(e, "ended")

\* The Receiver's own steps and its cancellation, the Sender's likewise.
ReceiverMoves ==
    \/ Receive        /\ pc["receiver"] = "select" /\ Moved("receiver", "insert")
    \/ ReceiverInsert /\ pc["receiver"] = "insert" /\ Moved("receiver", "signal")
    \/ ReceiverInsert /\ pc["receiver"] = "insert" /\ Moved("receiver", "logDropped")
    \/ ReceiverSignal /\ pc["receiver"] = "signal" /\ Moved("receiver", "select")
    \/ Moved("receiver", "ended")

SenderMoves ==
    \/ SenderAwake      /\ pc["sender"] = "await"   /\ Moved("sender", "semwait")
    \/ SenderFindEngine /\ pc["sender"] = "semwait" /\ Moved("sender", "await")
    \/ SenderFindEngine /\ pc["sender"] = "semwait" /\ Moved("sender", "take")
    \/ SenderTake       /\ pc["sender"] = "take"    /\ Moved("sender", "write")
    \/ SenderTake       /\ pc["sender"] = "take"    /\ Moved("sender", "logEvicted")
    \/ SenderEvict      /\ pc["sender"] = "evict"   /\ Moved("sender", "await")
    \/ SenderEvict      /\ pc["sender"] = "evict"   /\ Moved("sender", "logEvicted")
    \/ SenderWrite      /\ pc["sender"] = "write"   /\ Moved("sender", "logSent")
    \/ SenderReset      /\ pc["sender"] = "reset"   /\ Moved("sender", "await")
    \/ Moved("sender", "ended")

\* The rest of the platform.
OtherMoves ==
    \/ pc["monitor"] = "outside" /\ Moved("monitor", "logAlert")
    \/ pc["monitor"] = "outside" /\ Moved("monitor", "outside")
    \/ ArmSeeFull /\ pc["arm"] = "loop" /\ Moved("arm", "fork")
    \/ ArmRecord /\ pc["arm"] = "record" /\ Moved("arm", "logCreated")
    \/ ArmMark /\ pc["arm"] = "mark" /\ Moved("arm", "loop")
    \/ pc["handler"] = "absent" /\ Moved("handler", "join")
    \/ /\ pc["handler"] = "join" /\ Moved("handler", "logCanceled")
       /\ pc["receiver"] = "ended" /\ pc["sender"] = "ended"
    \/ /\ pc["handler"] = "wait" /\ Moved("handler", "report")
       /\ \A e \in Recorded : pc[e] = "ended"
    \/ /\ pc["sm"] = "wait" /\ Moved("sm", "logClosing")
       /\ pc["handler"] = "ended" /\ pc["monitor"] = "ended"

\* fork(), the signals and SIGINT: several threads at a time.
ForkMoves ==
    /\ pc["arm"] = "fork" /\ pc["handler"] = "absent"
    /\ DOMAIN pc' = Threads
    /\ pc'["arm"] = "record" /\ pc'[Backup] = "ready"
    /\ \A t \in Threads \ {"arm", Backup} : pc'[t] = pc[t]

SignalMoves ==
    /\ pc["handler"] = "signal"
    /\ DOMAIN pc' = Threads
    /\ pc'["handler"] = "logWaiting"
    /\ \A t \in Singles \ {"handler"} : pc'[t] = pc[t]
    /\ \A e \in Engines : \/ pc'[e] = pc[e]
                          \/ pc[e] \in {"ready", "hung"} /\ pc'[e] = "ended"

InterruptMoves ==
    /\ pc["sm"] = "pause"
    /\ DOMAIN pc' = Threads
    /\ pc'["sm"] = "logReceived"
    /\ pc'["monitor"] \in {pc["monitor"], "ended"}
    /\ pc'["child"] = IF group' THEN "ended" ELSE pc["child"]
    /\ \/ pc'[Backup] = pc[Backup]
       \/ pc[Backup] = "ready" /\ pc'[Backup] \in {"ended", "hung"}
    /\ \A t \in Threads \ {"sm", "monitor", "child", Backup} : pc'[t] = pc[t]

KillMoves ==
    /\ pc["sm"] = "kill"
    /\ DOMAIN pc' = Threads
    /\ pc'["sm"] = "wait" /\ pc'["monitor"] = "ended"
    /\ \A t \in Threads \ {"sm", "monitor"} : pc'[t] = pc[t]

LEMMA EngineSteps ==
    ASSUME Places, NEW e \in Engines, Engine(e)
    PROVE  EngineMoves(e)
<1>1. DOMAIN pc = Threads /\ e \in Threads
  BY Apart DEF Places
<1>2. CASE EngineRead(e)
  BY <1>1, <1>2, GotoMoves DEF EngineRead, EngineMoves
<1>3. CASE EngineMark(e)
  BY <1>1, <1>3, GotoMoves DEF EngineMark, EngineMoves
<1>4. CASE EngineServe(e)
  BY <1>1, <1>4, GotoMoves DEF EngineServe, EngineMoves
<1>5. CASE EngineFree(e)
  BY <1>1, <1>5, GotoMoves, Zenon DEF EngineFree, EngineMoves
<1>6. CASE EngineEnd(e)
  BY <1>1, <1>6, GotoMoves DEF EngineEnd, EngineMoves
<1> QED
  BY <1>2, <1>3, <1>4, <1>5, <1>6 DEF Engine

LEMMA Receivers ==
    ASSUME Places, Receiver \/ ThreadInterrupted("receiver")
    PROVE  ReceiverMoves
<1>1. DOMAIN pc = Threads /\ "receiver" \in Threads
  BY Apart DEF Places, Singles
<1>2. CASE Receive
  BY <1>1, <1>2, GotoMoves DEF Receive, ReceiverMoves
<1>3. CASE ReceiverInsert
  BY <1>1, <1>3, OneMoves DEF ReceiverInsert, ReceiverMoves
<1>4. CASE ReceiverSignal
  BY <1>1, <1>4, GotoMoves DEF ReceiverSignal, ReceiverMoves
<1>5. CASE ReceiverCancelled
  BY <1>1, <1>5, OneMoves DEF ReceiverCancelled, ReceiverMoves
<1>6. CASE ThreadInterrupted("receiver")
  BY <1>1, <1>6, OneMoves DEF ThreadInterrupted, ReceiverMoves
<1> QED
  BY <1>2, <1>3, <1>4, <1>5, <1>6 DEF Receiver

LEMMA Senders ==
    ASSUME Places, Sender \/ ThreadInterrupted("sender"), ~ShmEnter("sender")
    PROVE  SenderMoves
<1>1. DOMAIN pc = Threads /\ "sender" \in Threads
  BY Apart DEF Places, Singles
<1>2. CASE SenderAwake
  BY <1>1, <1>2, GotoMoves DEF SenderAwake, SenderMoves
<1>3. CASE SenderFindEngine
  <2>1. pc["sender"] = "semwait"
    BY <1>3 DEF SenderFindEngine, ShmLeave, ShmSections
  <2>2. \/ pc' = [pc EXCEPT !["sender"] = "await"]
        \/ pc' = [pc EXCEPT !["sender"] = "take"]
    BY <1>3, Zenon DEF SenderFindEngine, ShmLeave
  <2>3. Moved("sender", "await") \/ Moved("sender", "take")
    BY <1>1, <2>2, OneMoves
  <2> QED
    BY <1>3, <2>1, <2>3, Zenon DEF SenderMoves
<1>4. CASE SenderTake
  BY <1>1, <1>4, OneMoves DEF SenderTake, SenderMoves
<1>5. CASE SenderEvict
  <2>1. /\ pc["sender"] = "evict"
        /\ \/ pc' = [pc EXCEPT !["sender"] = "await"]
           \/ pc' = [pc EXCEPT !["sender"] = "logEvicted"]
    BY <1>5, Zenon DEF SenderEvict
  <2>2. Moved("sender", "await") \/ Moved("sender", "logEvicted")
    BY <1>1, <2>1, OneMoves
  <2> QED
    BY <1>5, <2>1, <2>2, Zenon DEF SenderMoves
<1>6. CASE SenderWrite
  BY <1>1, <1>6, GotoMoves DEF SenderWrite, SenderMoves
<1>7. CASE SenderReset
  BY <1>1, <1>7, GotoMoves DEF SenderReset, SenderMoves
<1>8. CASE SenderCancelled
  BY <1>1, <1>8, OneMoves DEF SenderCancelled, SenderMoves
<1>9. CASE ThreadInterrupted("sender")
  BY <1>1, <1>9, OneMoves DEF ThreadInterrupted, SenderMoves
<1> QED
  BY <1>2, <1>3, <1>4, <1>5, <1>6, <1>7, <1>8, <1>9 DEF Sender

LEMMA Others ==
    ASSUME Places,
           \/ MonitorAlert \/ MonitorLeave \/ ArmSeeFull \/ ArmRecord \/ ArmMark
           \/ ArmInterrupted \/ HandlerJoin \/ HandlerWait \/ SmWait
    PROVE  OtherMoves
<1>1. DOMAIN pc = Threads /\ {"monitor", "arm", "handler", "sm"} \subseteq Threads
  BY Apart DEF Places, Singles
<1>2. CASE MonitorAlert
  BY <1>1, <1>2, GotoMoves DEF MonitorAlert, OtherMoves
<1>3. CASE MonitorLeave
  BY <1>1, <1>3, OneMoves DEF MonitorLeave, ShmLeave, ShmSections, OtherMoves
<1>4. CASE ArmSeeFull
  BY <1>1, <1>4, GotoMoves DEF ArmSeeFull, OtherMoves
<1>5. CASE ArmRecord
  BY <1>1, <1>5, GotoMoves DEF ArmRecord, OtherMoves
<1>6. CASE ArmMark
  BY <1>1, <1>6, OneMoves DEF ArmMark, ShmLeave, ShmSections, OtherMoves
<1>7. CASE ArmInterrupted
  BY <1>1, <1>7, GotoMoves DEF ArmInterrupted, OtherMoves
<1>8. CASE HandlerJoin
  BY <1>1, <1>8, GotoMoves DEF HandlerJoin, OtherMoves
<1>9. CASE HandlerWait
  BY <1>1, <1>9, GotoMoves DEF HandlerWait, OtherMoves
<1>10. CASE SmWait
  BY <1>1, <1>10, GotoMoves DEF SmWait, OtherMoves
<1> QED
  BY <1>2, <1>3, <1>4, <1>5, <1>6, <1>7, <1>8, <1>9, <1>10

LEMMA Forks == ASSUME Places, ArmFork PROVE ForkMoves
BY Apart DEF Places, ArmFork, ForkMoves, Runs, Singles, Backup

LEMMA Signals == ASSUME Places, HandlerSignal PROVE SignalMoves
<1>1. Recorded \subseteq Engines
  BY Apart DEF Recorded, Engines
<1> DEFINE unready == {e \in Recorded : pc[e] \in {"ready", "hung"}}
<1>2. /\ pc["handler"] = "signal"
      /\ pc' = [t \in Threads |-> IF t = "handler" THEN "logWaiting"
                                  ELSE IF t \in unready THEN "ended" ELSE pc[t]]
  BY DEF HandlerSignal
<1>3. unready \subseteq Engines /\ \A e \in unready : pc[e] \in {"ready", "hung"}
  BY <1>1
<1> HIDE DEF unready
<1>4. \A t \in Singles \ {"handler"} : pc'[t] = pc[t]
  BY <1>2, <1>3, Apart
<1>5. \A e \in Engines : \/ pc'[e] = pc[e]
                         \/ pc[e] \in {"ready", "hung"} /\ pc'[e] = "ended"
  <2> TAKE e \in Engines
  <2>1. e # "handler" /\ e \in Threads
    BY Apart DEF Singles
  <2> QED
    BY <1>2, <1>3, <2>1
<1>6. DOMAIN pc' = Threads /\ pc'["handler"] = "logWaiting"
  BY <1>2, Apart DEF Singles
<1> QED
  BY <1>2, <1>4, <1>5, <1>6 DEF SignalMoves

LEMMA Interrupts == ASSUME Places, Interrupt PROVE InterruptMoves
<1>1. PICK b \in {pc[Backup], "ended", "hung"} :
          pc' = [pc EXCEPT !["sm"] = "logReceived",
                           !["monitor"] = IF group' THEN "ended" ELSE @,
                           !["child"]   = IF group' THEN "ended" ELSE @,
                           ![Backup]    = b]
  BY DEF Interrupt
<1>2. /\ DOMAIN pc' = Threads
      /\ pc'["sm"] = "logReceived" /\ pc'[Backup] = b
      /\ pc'["monitor"] = IF group' THEN "ended" ELSE pc["monitor"]
      /\ pc'["child"] = IF group' THEN "ended" ELSE pc["child"]
      /\ \A t \in Threads \ {"sm", "monitor", "child", Backup} : pc'[t] = pc[t]
  BY <1>1, Apart DEF Places, Singles
<1>3. \/ pc'[Backup] = pc[Backup]
      \/ pc[Backup] = "ready" /\ pc'[Backup] \in {"ended", "hung"}
  BY Zenon DEF Interrupt, BackupAfterInterrupt
<1> QED
  BY <1>2, <1>3 DEF Interrupt, InterruptMoves

LEMMA Kills == ASSUME Places, SmKill PROVE KillMoves
BY Apart DEF Places, SmKill, KillMoves, Singles

\* A step of update_log().
LogStep(t) == LogWhole(t) \/ LogRelease(t)

LEMMA Logs ==
    ASSUME Places, NEW t \in Threads, LogStep(t)
    PROVE  Logged(t, pc[t], pc'[t]) /\ Moved(t, pc'[t])
BY LogMoves DEF LogStep, LogWhole, LogRelease

\* Nobody moves.
Stays(t) == LogAcquire(t) \/ ShmEnter(t)

LEMMA NextMoves ==
    ASSUME Places, [Next]_vars
    PROVE  \/ \E t \in Threads : LogStep(t) /\ Logged(t, pc[t], pc'[t]) /\ Moved(t, pc'[t])
           \/ \E e \in Engines : Engine(e) /\ EngineMoves(e)
           \/ ReceiverMoves \/ SenderMoves \/ OtherMoves
           \/ ForkMoves \/ SignalMoves \/ InterruptMoves \/ KillMoves
           \/ pc' = pc
<1>1. CASE \E t \in Threads : LogWhole(t) \/ LogRelease(t)
  BY <1>1, Logs DEF LogStep
<1>2. CASE \E t \in Threads : LogAcquire(t) \/ ShmEnter(t)
  BY <1>2 DEF LogAcquire, ShmEnter
<1>3. CASE \E e \in Engines : Engine(e)
  BY <1>3, EngineSteps
<1>4. CASE Receiver \/ ThreadInterrupted("receiver")
  BY <1>4, Receivers
<1>5. CASE Sender \/ ThreadInterrupted("sender")
  BY <1>5, Senders DEF ShmEnter
<1>6. CASE Monitor \/ ShmEnter("arm") \/ ArmSeeFull \/ ArmRecord \/ ArmMark \/ ArmInterrupted
           \/ HandlerJoin \/ HandlerWait \/ SmWait
  BY <1>6, Others DEF Monitor, ShmEnter
<1>7. CASE ArmFork
  BY <1>7, Forks
<1>8. CASE HandlerSignal
  BY <1>8, Signals
<1>9. CASE Interrupt
  BY <1>9, Interrupts
<1>10. CASE SmKill
  BY <1>10, Kills
<1>11. CASE UNCHANGED vars
  BY <1>11 DEF vars
<1> QED
  BY <1>1, <1>2, <1>3, <1>4, <1>5, <1>6, <1>7, <1>8, <1>9, <1>10, <1>11
     DEF Next, Arm, Handler, Sm

---------------------------------------------------------------------------
\* THE STEPS: which variable is written by which action

LEMMA Writers ==
    ASSUME [Next]_vars
    PROVE  /\ \/ shmHolder' = shmHolder
              \/ shmHolder' = Nobody
              \/ \E t \in {"arm", "sender", "monitor"} : ShmEnter(t)
           /\ logHolder' = logHolder \/ (\E t \in Threads : LogAcquire(t) \/ LogRelease(t))
           /\ \/ queueHolder' = queueHolder
              \/ queueHolder' = Nobody
              \/ ReceiverInsert
              \/ SenderTake
              \/ \E t \in {"receiver", "sender"} : ThreadInterrupted(t)
           /\ \/ sentHolder' = sentHolder
              \/ SenderCancelled
              \/ \E t \in {"receiver", "sender"} : ThreadInterrupted(t)
           /\ sentRequest' = sentRequest \/ sentRequest' \in {0, 1}
           /\ isQueueFull' = isQueueFull \/ isQueueFull' \in {0, 1}
           /\ isArmNotified' = isArmNotified \/ ArmSeeFull
           /\ backupPid' = backupPid \/ ArmRecord
           /\ \/ enginesAvailable' = enginesAvailable
              \/ \E e \in Engines : EngineMark(e) \/ EngineFree(e)
              \/ ArmMark
           /\ group' = group \/ Interrupt
           /\ armPending' = armPending \/ armPending' \in BOOLEAN
           /\ cancelled' = cancelled \/ ArmInterrupted
           /\ closed' = closed \/ Interrupt \/ HandlerSignal
           /\ received' = received \/ Receive
           /\ rRequest' = rRequest \/ Receive \/ ReceiverInsert
           /\ queue' = queue \/ ReceiverInsert \/ SenderTake \/ SenderEvict
           /\ chosen' = chosen \/ SenderFindEngine \/ SenderEvict \/ SenderWrite
           /\ sRequest' = sRequest \/ SenderTake \/ SenderWrite
           /\ pipe' = pipe \/ SenderWrite \/ (\E e \in Engines : EngineRead(e))
           /\ eRequest' = eRequest \/ (\E e \in Engines : EngineRead(e) \/ EngineFree(e))
           /\ served' = served \/ (\E e \in Engines : EngineServe(e))
           /\ dropped' = dropped \/ ReceiverInsert \/ SenderEvict
<1> USE DEF Next, vars, lockVars, flagVars, signalVars, historyVars, pathVars, Receiver,
            Sender, Engine, Monitor, Arm, Handler, Sm, LogWhole, LogRelease, LogAcquire,
            Receive, ReceiverInsert, ReceiverSignal, ReceiverCancelled, SenderAwake,
            ShmEnter, SenderFindEngine, SenderTake, SenderEvict, SenderWrite,
            SenderReset, SenderCancelled, EngineRead, EngineMark, EngineServe,
            EngineFree, EngineEnd, MonitorAlert, MonitorLeave, ArmSeeFull, ArmFork,
            ArmRecord, ArmMark, ArmInterrupted, HandlerJoin, HandlerSignal, HandlerWait,
            ThreadInterrupted, Interrupt, SmKill, SmWait, ShmLeave
<1>1. \/ shmHolder' = shmHolder
      \/ shmHolder' = Nobody
      \/ \E t \in {"arm", "sender", "monitor"} : ShmEnter(t)
  OBVIOUS
<1>2. logHolder' = logHolder \/ (\E t \in Threads : LogAcquire(t) \/ LogRelease(t))
  OBVIOUS
<1>3. \/ queueHolder' = queueHolder
      \/ queueHolder' = Nobody
      \/ ReceiverInsert
      \/ SenderTake
      \/ \E t \in {"receiver", "sender"} : ThreadInterrupted(t)
  OBVIOUS
<1>4. \/ sentHolder' = sentHolder
      \/ SenderCancelled
      \/ \E t \in {"receiver", "sender"} : ThreadInterrupted(t)
  OBVIOUS
<1>5. sentRequest' = sentRequest \/ sentRequest' \in {0, 1}
  OBVIOUS
<1>6. isQueueFull' = isQueueFull \/ isQueueFull' \in {0, 1}
  OBVIOUS
<1>7. isArmNotified' = isArmNotified \/ ArmSeeFull
  OBVIOUS
<1>8. backupPid' = backupPid \/ ArmRecord
  OBVIOUS
<1>9. \/ enginesAvailable' = enginesAvailable
      \/ \E e \in Engines : EngineMark(e) \/ EngineFree(e)
      \/ ArmMark
  OBVIOUS
<1>10. group' = group \/ Interrupt
  OBVIOUS
<1>11. armPending' = armPending \/ armPending' \in BOOLEAN
  OBVIOUS
<1>12. cancelled' = cancelled \/ ArmInterrupted
  OBVIOUS
<1>13. closed' = closed \/ Interrupt \/ HandlerSignal
  OBVIOUS
<1>14. received' = received \/ Receive
  OBVIOUS
<1>15. rRequest' = rRequest \/ Receive \/ ReceiverInsert
  OBVIOUS
<1>16. queue' = queue \/ ReceiverInsert \/ SenderTake \/ SenderEvict
  OBVIOUS
<1>17. chosen' = chosen \/ SenderFindEngine \/ SenderEvict \/ SenderWrite
  OBVIOUS
<1>18. sRequest' = sRequest \/ SenderTake \/ SenderWrite
  OBVIOUS
<1>19. pipe' = pipe \/ SenderWrite \/ (\E e \in Engines : EngineRead(e))
  OBVIOUS
<1>20. eRequest' = eRequest \/ (\E e \in Engines : EngineRead(e) \/ EngineFree(e))
  OBVIOUS
<1>21. served' = served \/ (\E e \in Engines : EngineServe(e))
  OBVIOUS
<1>22. dropped' = dropped \/ ReceiverInsert \/ SenderEvict
  OBVIOUS
<1> QED
  BY ONLY <1>1, <1>2, <1>3, <1>4, <1>5, <1>6, <1>7, <1>8, <1>9, <1>10, <1>11, <1>12, <1>13,
     <1>14, <1>15, <1>16, <1>17, <1>18, <1>19, <1>20, <1>21, <1>22

---------------------------------------------------------------------------
\* THE STEPS: places

\* Where a single thread goes, it may be.
PlaceFor(t, v) ==
    \/ t = "sm" /\ v \in SmPcs
    \/ t = "arm" /\ v \in ArmPcs
    \/ t = "handler" /\ v \in HandlerPcs
    \/ t = "receiver" /\ v \in ReceiverPcs
    \/ t = "sender" /\ v \in SenderPcs
    \/ t = "monitor" /\ v \in {"outside", "logAlert", "ended"}
    \/ t = "child" /\ v \in {"outside", "ended"}
    \/ t \in Engines /\ v \in EnginePcs

LEMMA MovedInPlace ==
    ASSUME Places, NEW t \in Threads, NEW v, Moved(t, v), PlaceFor(t, v)
    PROVE  Places'
<1>1. \A u \in Threads : u # t => pc'[u] = pc[u]
  BY DEF Moved
<1>2. pc'[t] = v /\ DOMAIN pc' = Threads
  BY DEF Moved
<1>3. \A e \in Engines : pc'[e] \in EnginePcs
  <2> TAKE e \in Engines
  <2>1. CASE e = t
    BY <1>2, <2>1, Apart DEF PlaceFor, Singles
  <2>2. CASE e # t
    BY <1>1, <2>2, Apart DEF Places
  <2> QED
    BY <2>1, <2>2
<1>4. /\ pc'["sm"] \in SmPcs /\ pc'["arm"] \in ArmPcs /\ pc'["handler"] \in HandlerPcs
      /\ pc'["receiver"] \in ReceiverPcs /\ pc'["sender"] \in SenderPcs
      /\ pc'["monitor"] \in {"outside", "logAlert", "ended"}
      /\ pc'["child"] \in {"outside", "ended"}
  <2>1. Singles \subseteq Threads /\ \A e \in Engines : e \notin Singles
    BY Apart
  <2>2. pc'["sm"] \in SmPcs
    BY <1>1, <1>2, <2>1 DEF Places, PlaceFor, Singles
  <2>3. pc'["arm"] \in ArmPcs
    BY <1>1, <1>2, <2>1 DEF Places, PlaceFor, Singles
  <2>4. pc'["handler"] \in HandlerPcs
    BY <1>1, <1>2, <2>1 DEF Places, PlaceFor, Singles
  <2>5. pc'["receiver"] \in ReceiverPcs
    BY <1>1, <1>2, <2>1 DEF Places, PlaceFor, Singles
  <2>6. pc'["sender"] \in SenderPcs
    BY <1>1, <1>2, <2>1 DEF Places, PlaceFor, Singles
  <2>7. pc'["monitor"] \in {"outside", "logAlert", "ended"}
    BY <1>1, <1>2, <2>1 DEF Places, PlaceFor, Singles
  <2>8. pc'["child"] \in {"outside", "ended"}
    BY <1>1, <1>2, <2>1 DEF Places, PlaceFor, Singles
  <2> QED
    BY <2>2, <2>3, <2>4, <2>5, <2>6, <2>7, <2>8
<1> QED
  BY <1>2, <1>3, <1>4 DEF Places

LEMMA PlacesStep ==
    ASSUME Places, [Next]_vars
    PROVE  Places'
<1>1. ASSUME NEW t \in Threads, Logged(t, pc[t], pc'[t]), Moved(t, pc'[t])
      PROVE  Places'
  <2>1. PlaceFor(t, pc'[t])
    BY <1>1 DEF Logged, PlaceFor, SmPcs, ArmPcs, HandlerPcs, ReceiverPcs, SenderPcs, EnginePcs
  <2> QED
    BY <1>1, <2>1, MovedInPlace
<1>2. ASSUME NEW e \in Engines, EngineMoves(e)
      PROVE  Places'
  <2>1. PICK v \in EnginePcs : Moved(e, v)
    BY <1>2 DEF EngineMoves, EnginePcs
  <2>2. e \in Threads /\ PlaceFor(e, v)
    BY Apart DEF PlaceFor
  <2> QED
    BY <2>1, <2>2, MovedInPlace
<1>3. CASE ReceiverMoves
  <2>1. PICK v \in ReceiverPcs : Moved("receiver", v)
    BY <1>3 DEF ReceiverMoves, ReceiverPcs
  <2>2. "receiver" \in Threads /\ PlaceFor("receiver", v)
    BY Apart DEF PlaceFor, Singles
  <2> QED
    BY <2>1, <2>2, MovedInPlace
<1>4. CASE SenderMoves
  <2>1. PICK v \in SenderPcs : Moved("sender", v)
    BY <1>4 DEF SenderMoves, SenderPcs
  <2>2. "sender" \in Threads /\ PlaceFor("sender", v)
    BY Apart DEF PlaceFor, Singles
  <2> QED
    BY <2>1, <2>2, MovedInPlace
<1>5. CASE OtherMoves
  <2>1. PICK t \in {"monitor", "arm", "handler", "sm"} : \E v : Moved(t, v) /\ PlaceFor(t, v)
    <3>1. /\ {"fork", "logCreated", "loop"} \subseteq ArmPcs
          /\ {"join", "logCanceled", "report"} \subseteq HandlerPcs
          /\ "logClosing" \in SmPcs
      BY DEF ArmPcs, HandlerPcs, SmPcs
    <3> QED
      BY <1>5, <3>1, Zenon DEF OtherMoves, PlaceFor
  <2>2. t \in Threads
    BY Apart DEF Singles
  <2> QED
    BY <2>1, <2>2, MovedInPlace
<1>6. CASE ForkMoves
  <2>1. /\ DOMAIN pc' = Threads /\ pc'["arm"] = "record" /\ pc'[Backup] = "ready"
        /\ \A t \in Threads : t # "arm" /\ t # Backup => pc'[t] = pc[t]
    BY <1>6 DEF ForkMoves
  <2>2. \A e \in Engines : pc'[e] \in EnginePcs
    BY <2>1, Apart DEF Places, Singles, EnginePcs
  <2> QED
    BY <2>1, <2>2, Apart DEF Places, Singles, ArmPcs
<1>7. CASE SignalMoves
  <2>1. \A e \in Engines : pc'[e] \in EnginePcs
    BY <1>7 DEF SignalMoves, Places, EnginePcs
  <2>2. \A t \in Singles : t # "handler" => pc'[t] = pc[t]
    BY <1>7 DEF SignalMoves
  <2> QED
    BY <1>7, <2>1, <2>2 DEF SignalMoves, Places, Singles, HandlerPcs
<1>8. CASE InterruptMoves
  <2>1. /\ DOMAIN pc' = Threads
        /\ \A t \in Threads : t \notin {"sm", "monitor", "child", Backup} => pc'[t] = pc[t]
        /\ pc'[Backup] \in {pc[Backup], "ended", "hung"}
        /\ pc'["sm"] = "logReceived" /\ pc'["monitor"] \in {pc["monitor"], "ended"}
        /\ pc'["child"] \in {pc["child"], "ended"}
    BY <1>8 DEF InterruptMoves
  <2>2. \A e \in Engines : pc'[e] \in EnginePcs
    BY <2>1, Apart DEF Places, Singles, EnginePcs
  <2> QED
    BY <2>1, <2>2, Apart DEF Places, Singles, SmPcs
<1>9. CASE KillMoves
  <2>1. \A t \in Threads : t # "sm" /\ t # "monitor" => pc'[t] = pc[t]
    BY <1>9 DEF KillMoves
  <2>2. \A e \in Engines : pc'[e] \in EnginePcs
    BY <2>1, Apart DEF Places, Singles
  <2> QED
    BY <1>9, <2>1, <2>2, Apart DEF KillMoves, Places, Singles, SmPcs
<1>10. CASE pc' = pc
  BY <1>10 DEF Places
<1> QED
  BY <1>1, <1>2, <1>3, <1>4, <1>5, <1>6, <1>7, <1>8, <1>9, <1>10, NextMoves

---------------------------------------------------------------------------
\* THE STEPS: what has ended

\* What has ended stays so; but the backup engine is created.
LEMMA EndedStays ==
    ASSUME Places, [Next]_vars
    PROVE  /\ \A t \in Singles : pc[t] = "ended" => pc'[t] = "ended"
           /\ \A e \in Engines : pc[e] = "ended" /\ ~ForkMoves => pc'[e] = "ended"
<1> SUFFICES ASSUME NEW t \in Threads, pc[t] = "ended", t \in Singles \/ ~ForkMoves
             PROVE  pc'[t] = "ended"
  BY Apart
<1>1. ASSUME NEW u \in Threads, Logged(u, pc[u], pc'[u]), Moved(u, pc'[u])
      PROVE  pc'[t] = "ended"
  <2>1. pc[u] # "ended"
    BY <1>1 DEF Logged
  <2> QED
    BY <1>1, <2>1 DEF Moved
<1>2. ASSUME NEW e \in Engines, EngineMoves(e) PROVE pc'[t] = "ended"
  BY <1>2 DEF EngineMoves, Moved
<1>3. CASE ReceiverMoves
  BY <1>3 DEF ReceiverMoves, Moved
<1>4. CASE SenderMoves
  BY <1>4 DEF SenderMoves, Moved
<1>5. CASE OtherMoves
  BY <1>5 DEF OtherMoves, Moved
<1>6. CASE ForkMoves
  BY <1>6, Apart DEF ForkMoves
<1>7. CASE SignalMoves
  BY <1>7, Apart DEF SignalMoves
<1>8. CASE InterruptMoves
  BY <1>8 DEF InterruptMoves
<1>9. CASE KillMoves
  BY <1>9 DEF KillMoves
<1>10. CASE pc' = pc
  BY <1>10
<1> QED
  BY <1>1, <1>2, <1>3, <1>4, <1>5, <1>6, <1>7, <1>8, <1>9, <1>10, NextMoves

\* How the handler goes on.
HandlerOn ==
    LET from == pc["handler"]
        to   == pc'["handler"]
    IN  \/ to = from
        \/ from = "absent" /\ to = "join"
        \/ from = "join" /\ to = "logCanceled" /\ pc["receiver"] = "ended" /\ pc["sender"] = "ended"
        \/ from \notin {"absent", "join"} /\ to \in {"signal", "logWaiting", "wait"}
        \/ from = "wait" /\ to = "report" /\ \A e \in Recorded : pc[e] = "ended"
        \/ from = "report" /\ to = "ended"

\* How the System Manager goes on.
SmOn ==
    LET from == pc["sm"]
        to   == pc'["sm"]
    IN  \/ to = from
        \/ to \in {"logReceived", "kill", "wait"}
        \/ from = "wait" /\ to = "logClosing" /\ pc["handler"] = "ended" /\ pc["monitor"] = "ended"
        \/ from = "logClosing" /\ to = "ended"

LEMMA HandlerAndSm ==
    ASSUME Places, [Next]_vars
    PROVE  HandlerOn /\ SmOn
<1>0. "handler" \in Threads /\ "sm" \in Threads /\ "handler" # Backup /\ "sm" # Backup
      /\ \A e \in Engines : e # "handler" /\ e # "sm"
  BY Apart DEF Singles
<1>1. ASSUME NEW u \in Threads, Logged(u, pc[u], pc'[u]), Moved(u, pc'[u])
      PROVE  HandlerOn /\ SmOn
  <2>1. CASE u = "handler"
    <3>1. /\ pc["handler"] \notin {"absent", "join"}
          /\ \/ pc'["handler"] \in {"signal", "wait"}
             \/ pc["handler"] = "report" /\ pc'["handler"] = "ended"
      BY <1>0, <1>1, <2>1 DEF Logged
    <3>2. pc'["sm"] = pc["sm"]
      BY <1>0, <1>1, <2>1 DEF Moved
    <3> QED
      BY <3>1, <3>2 DEF HandlerOn, SmOn
  <2>2. CASE u = "sm"
    <3>1. \/ pc'["sm"] = "kill"
          \/ pc["sm"] = "logClosing" /\ pc'["sm"] = "ended"
      BY <1>0, <1>1, <2>2 DEF Logged
    <3>2. pc'["handler"] = pc["handler"]
      BY <1>0, <1>1, <2>2 DEF Moved
    <3> QED
      BY <3>1, <3>2 DEF HandlerOn, SmOn
  <2>3. CASE u \notin {"handler", "sm"}
    BY <1>0, <1>1, <2>3 DEF Moved, HandlerOn, SmOn
  <2> QED
    BY <2>1, <2>2, <2>3
<1>2. ASSUME NEW e \in Engines, EngineMoves(e) PROVE HandlerOn /\ SmOn
  BY <1>0, <1>2 DEF EngineMoves, Moved, HandlerOn, SmOn
<1>3. CASE ReceiverMoves
  BY <1>0, <1>3 DEF ReceiverMoves, Moved, HandlerOn, SmOn
<1>4. CASE SenderMoves
  BY <1>0, <1>4 DEF SenderMoves, Moved, HandlerOn, SmOn
<1>5. CASE OtherMoves
  BY <1>0, <1>5 DEF OtherMoves, Moved, HandlerOn, SmOn
<1>6. CASE ForkMoves
  BY <1>0, <1>6 DEF ForkMoves, HandlerOn, SmOn
<1>7. CASE SignalMoves
  <2>1. pc'["handler"] = "logWaiting" /\ pc["handler"] = "signal" /\ pc'["sm"] = pc["sm"]
    BY <1>7 DEF SignalMoves, Singles
  <2> QED
    BY <2>1 DEF HandlerOn, SmOn
<1>8. CASE InterruptMoves
  BY <1>0, <1>8 DEF InterruptMoves, HandlerOn, SmOn
<1>9. CASE KillMoves
  BY <1>0, <1>9 DEF KillMoves, HandlerOn, SmOn
<1>10. CASE pc' = pc
  BY <1>10 DEF HandlerOn, SmOn
<1> QED
  BY <1>1, <1>2, <1>3, <1>4, <1>5, <1>6, <1>7, <1>8, <1>9, <1>10, NextMoves

LEMMA EndingStep ==
    ASSUME Places, Ending, [Next]_vars
    PROVE  Ending'
<1>1. /\ \A t \in Singles : pc[t] = "ended" => pc'[t] = "ended"
      /\ \A e \in Engines : pc[e] = "ended" /\ ~ForkMoves => pc'[e] = "ended"
  BY EndedStays
<1>2. HandlerOn /\ SmOn
  BY HandlerAndSm
<1>3. group' = group \/ InterruptMoves
  BY Writers, Interrupts
<1>4. pc["handler"] # "absent" => Recorded' = Recorded /\ ~ForkMoves
  <2>1. ArmRecord => pc["handler"] = "absent"
    BY DEF ArmRecord, Runs
  <2> QED
    BY <2>1, Writers DEF Recorded, ForkMoves
<1>5. Recorded \subseteq Engines
  BY Apart DEF Recorded, Engines
<1>6. pc'["sm"] = "pause" => ~group'
  <2>1. pc'["sm"] = "pause" => pc["sm"] = "pause" /\ ~InterruptMoves
    BY <1>2 DEF SmOn, InterruptMoves
  <2> QED
    BY <1>3, <2>1 DEF Ending
<1>7. group' => pc'["child"] = "ended"
  <2>1. CASE InterruptMoves
    BY <2>1 DEF InterruptMoves
  <2>2. CASE group' = group
    BY <1>1, <2>2 DEF Ending, Singles
  <2> QED
    BY <1>3, <2>1, <2>2
<1>8. pc'["handler"] \notin {"absent", "join"} =>
          pc'["receiver"] = "ended" /\ pc'["sender"] = "ended"
  <2>1. pc'["handler"] \notin {"absent", "join"} =>
            pc["receiver"] = "ended" /\ pc["sender"] = "ended"
    BY <1>2 DEF HandlerOn, Ending
  <2> QED
    BY <1>1, <2>1 DEF Singles
<1>9. pc'["handler"] \in {"report", "ended"} => \A e \in Recorded' : pc'[e] = "ended"
  <2>1. pc'["handler"] \in {"report", "ended"} =>
            pc["handler"] # "absent" /\ \A e \in Recorded : pc[e] = "ended"
    BY <1>2 DEF HandlerOn, Ending
  <2> QED
    BY <1>1, <1>4, <1>5, <2>1
<1>10. pc'["sm"] \in {"logClosing", "ended"} =>
           pc'["handler"] = "ended" /\ pc'["monitor"] = "ended"
  <2>1. pc'["sm"] \in {"logClosing", "ended"} =>
            pc["handler"] = "ended" /\ pc["monitor"] = "ended"
    BY <1>2 DEF SmOn, Ending
  <2> QED
    BY <1>1, <2>1 DEF Singles
<1> QED
  BY <1>6, <1>7, <1>8, <1>9, <1>10 DEF Ending

---------------------------------------------------------------------------
\* THE STEPS: locks

\* How a single thread goes on.
GoesOn(t) ==
    \/ pc'[t] = pc[t]
    \/ LogStep(t) /\ Logged(t, pc[t], pc'[t])
    \/ t \in Engines /\ EngineMoves(t)
    \/ t \in Engines /\ pc[t] \in {"ready", "hung"} /\ pc'[t] \in {"ended", "hung"}
    \/ t = Backup /\ ForkMoves
    \/ t = "receiver" /\ ReceiverMoves
    \/ t = "sender" /\ SenderMoves
    \/ t = "arm" /\ \/ ArmSeeFull /\ pc[t] = "loop" /\ pc'[t] = "fork"
                    \/ pc[t] = "fork" /\ pc'[t] = "record"
                    \/ ArmRecord /\ pc[t] = "record" /\ pc'[t] = "logCreated"
                    \/ ArmMark /\ pc[t] = "mark" /\ pc'[t] = "loop"
    \/ t = "monitor" /\ \/ pc[t] = "outside" /\ pc'[t] = "logAlert"
                        \/ pc'[t] = "ended"
    \/ t = "child" /\ pc'[t] = "ended"
    \/ t = "handler" /\ pc[t] \in {"absent", "join", "signal", "wait"}
    \/ t = "sm" /\ pc[t] \in {"pause", "kill", "wait"}

LEMMA EachGoesOn ==
    ASSUME Places, [Next]_vars, NEW t \in Threads
    PROVE  GoesOn(t)
<1>1. ASSUME NEW u \in Threads, LogStep(u), Logged(u, pc[u], pc'[u]), Moved(u, pc'[u])
      PROVE  GoesOn(t)
  <2>1. CASE t = u
    BY <1>1, <2>1, Zenon DEF GoesOn
  <2>2. CASE t # u
    BY <1>1, <2>2 DEF Moved, GoesOn
  <2> QED
    BY <2>1, <2>2
<1>2. ASSUME NEW e \in Engines, EngineMoves(e) PROVE GoesOn(t)
  <2>1. CASE t = e
    BY <1>2, <2>1, Zenon DEF GoesOn
  <2>2. CASE t # e
    <3>1. pc'[t] = pc[t]
      BY <1>2, <2>2 DEF EngineMoves, Moved
    <3> QED
      BY <3>1 DEF GoesOn
  <2> QED
    BY <2>1, <2>2
<1>3. CASE ReceiverMoves
  <2>1. t # "receiver" => pc'[t] = pc[t]
    BY <1>3 DEF ReceiverMoves, Moved
  <2> QED
    BY <1>3, <2>1, Zenon DEF GoesOn
<1>4. CASE SenderMoves
  <2>1. t # "sender" => pc'[t] = pc[t]
    BY <1>4 DEF SenderMoves, Moved
  <2> QED
    BY <1>4, <2>1, Zenon DEF GoesOn
<1>5. CASE OtherMoves
  <2>1. {"monitor", "arm", "handler", "sm"} \subseteq Threads
    BY Apart DEF Singles
  <2>2. \/ pc'[t] = pc[t]
        \/ t = "monitor" /\ pc[t] = "outside" /\ pc'[t] = "logAlert"
        \/ t = "arm" /\ ArmSeeFull /\ pc[t] = "loop" /\ pc'[t] = "fork"
        \/ t = "arm" /\ ArmRecord /\ pc[t] = "record" /\ pc'[t] = "logCreated"
        \/ t = "arm" /\ ArmMark /\ pc[t] = "mark" /\ pc'[t] = "loop"
        \/ t = "handler" /\ pc[t] \in {"absent", "join", "wait"}
        \/ t = "sm" /\ pc[t] = "wait"
    BY <1>5, <2>1 DEF OtherMoves, Moved
  <2> QED
    BY <2>2 DEF GoesOn
<1>6. CASE ForkMoves
  <2>1. \/ pc'[t] = pc[t]
        \/ t = "arm" /\ pc[t] = "fork" /\ pc'[t] = "record"
        \/ t = Backup
    BY <1>6 DEF ForkMoves
  <2> QED
    BY <1>6, <2>1, Zenon DEF GoesOn
<1>7. CASE SignalMoves
  <2>1. \/ pc'[t] = pc[t]
        \/ t = "handler" /\ pc[t] = "signal"
        \/ t \in Engines /\ pc[t] \in {"ready", "hung"} /\ pc'[t] = "ended"
    BY <1>7, Apart DEF SignalMoves
  <2> QED
    BY <2>1 DEF GoesOn
<1>8. CASE InterruptMoves
  <2>1. \/ pc'[t] = pc[t]
        \/ t = "sm" /\ pc[t] = "pause"
        \/ t \in {"monitor", "child"} /\ pc'[t] = "ended"
        \/ t = Backup /\ pc[t] = "ready" /\ pc'[t] \in {"ended", "hung"}
    BY <1>8 DEF InterruptMoves
  <2> QED
    BY <2>1, Apart DEF GoesOn
<1>9. CASE KillMoves
  <2>1. \/ pc'[t] = pc[t]
        \/ t = "sm" /\ pc[t] = "kill"
        \/ t = "monitor" /\ pc'[t] = "ended"
    BY <1>9 DEF KillMoves
  <2> QED
    BY <2>1 DEF GoesOn
<1>10. CASE pc' = pc
  BY <1>10 DEF GoesOn
<1> QED
  BY <1>1, <1>2, <1>3, <1>4, <1>5, <1>6, <1>7, <1>8, <1>9, <1>10, NextMoves

\* The threads that the locks and the requests are about, step by step.
LEMMA ReceiverGoesOn ==
    ASSUME Places, [Next]_vars
    PROVE  LET from == pc["receiver"]
               to   == pc'["receiver"]
           IN  \/ to = from
               \/ to = "ended"
               \/ Receive /\ from = "select" /\ to = "insert"
               \/ ReceiverInsert /\ from = "insert" /\ to \in {"signal", "logDropped"}
               \/ from = "signal" /\ to = "select"
               \/ LogStep("receiver") /\ from = "logDropped" /\ to = "signal"
<1>1. "receiver" \in Threads /\ "receiver" \notin Engines /\ "receiver" # Backup
  BY Apart DEF Singles
<1>2. GoesOn("receiver")
  BY <1>1, EachGoesOn
<1>3. CASE LogStep("receiver") /\ Logged("receiver", pc["receiver"], pc'["receiver"])
  BY <1>1, <1>3 DEF Logged
<1>4. CASE ReceiverMoves
  BY <1>4 DEF ReceiverMoves, Moved
<1> QED
  BY <1>1, <1>2, <1>3, <1>4 DEF GoesOn

LEMMA SenderGoesOn ==
    ASSUME Places, [Next]_vars
    PROVE  LET from == pc["sender"]
               to   == pc'["sender"]
           IN  \/ to = from
               \/ to = "ended"
               \/ from = "await" /\ to = "semwait"
               \/ SenderFindEngine /\ from = "semwait" /\ to \in {"await", "take"}
               \/ SenderTake /\ from = "take" /\ to \in {"write", "logEvicted"}
               \/ SenderEvict /\ from = "evict" /\ to \in {"await", "logEvicted"}
               \/ SenderWrite /\ from = "write" /\ to = "logSent"
               \/ from = "reset" /\ to = "await"
               \/ LogStep("sender") /\ from = "logEvicted" /\ to = "evict"
               \/ LogStep("sender") /\ from = "logSent" /\ to = "reset"
<1>1. "sender" \in Threads /\ "sender" \notin Engines /\ "sender" # Backup
  BY Apart DEF Singles
<1>2. GoesOn("sender")
  BY <1>1, EachGoesOn
<1>3. CASE LogStep("sender") /\ Logged("sender", pc["sender"], pc'["sender"])
  BY <1>1, <1>3 DEF Logged
<1>4. CASE SenderMoves
  BY <1>4 DEF SenderMoves, Moved
<1> QED
  BY <1>1, <1>2, <1>3, <1>4 DEF GoesOn

LEMMA ArmGoesOn ==
    ASSUME Places, [Next]_vars
    PROVE  LET from == pc["arm"]
               to   == pc'["arm"]
           IN  \/ to = from
               \/ ArmSeeFull /\ from = "loop" /\ to = "fork"
               \/ from = "fork" /\ to = "record"
               \/ ArmRecord /\ from = "record" /\ to = "logCreated"
               \/ from = "logCreated" /\ to = "mark"
               \/ ArmMark /\ from = "mark" /\ to = "loop"
<1>1. "arm" \in Threads /\ "arm" \notin Engines /\ "arm" # Backup
  BY Apart DEF Singles
<1>2. GoesOn("arm")
  BY <1>1, EachGoesOn
<1>3. CASE LogStep("arm") /\ Logged("arm", pc["arm"], pc'["arm"])
  BY <1>1, <1>3 DEF Logged
<1> QED
  BY <1>1, <1>2, <1>3 DEF GoesOn

LEMMA EngineGoesOn ==
    ASSUME Places, [Next]_vars, NEW e \in Engines
    PROVE  LET from == pc[e]
               to   == pc'[e]
           IN  \/ to = from
               \/ EngineRead(e)  /\ from = "idle"  /\ to = "busy"
               \/ EngineMark(e)  /\ from = "busy"  /\ to = "serve"
               \/ EngineServe(e) /\ from = "serve" /\ to = "logDone"
               \/ EngineFree(e)  /\ from = "free"  /\ to \in {"ended", "idle"}
               \/ from = "idle"  /\ to = "ended"
               \/ from \in {"ready", "hung"} /\ to \in {"ended", "hung", "idle"}
               \/ from = "logDone" /\ to = "free"
               \/ e = Backup /\ ForkMoves
<1>1. e \in Threads /\ e \notin Singles
  BY Apart
<1>2. GoesOn(e)
  BY <1>1, EachGoesOn
<1>3. CASE LogStep(e) /\ Logged(e, pc[e], pc'[e])
  BY <1>1, <1>3 DEF Logged, Singles
<1>4. CASE EngineMoves(e)
  BY <1>4 DEF EngineMoves, Moved
<1> QED
  BY <1>1, <1>2, <1>3, <1>4 DEF GoesOn, Singles


\* Where the holder of shm_sem may be, of update_log()'s semaphore, of the queue's mutex
\* and of sent_request_mutex: the parts of LocksInUse.
ShmInUse   == shmHolder # Nobody =>
                 pc[shmHolder] \in {ShmSections[shmHolder], "logAlert", "ended"}
LogInUse   == logHolder # Nobody => pc[logHolder] \in DOMAIN AfterLog \cup {"ended", "hung"}
QueueInUse == queueHolder # Nobody =>
                 pc[queueHolder] \in {"logDropped", "logEvicted", "evict", "ended"}
SentInUse  == sentHolder # Nobody => pc[sentHolder] = "ended"

LEMMA ShmStep ==
    ASSUME Places, Places', Locks, [Next]_vars
    PROVE  shmHolder' \in {"arm", "sender", "monitor", Nobody} /\ ShmInUse'
<1>1. /\ shmHolder \in {"arm", "sender", "monitor", Nobody}
      /\ shmHolder # Nobody => pc[shmHolder] \in {ShmSections[shmHolder], "logAlert", "ended"}
  BY DEF Locks, LocksInUse
<1>2. /\ ShmSections["arm"] = "mark" /\ ShmSections["sender"] = "semwait"
      /\ ShmSections["monitor"] = "outside"
  BY DEF ShmSections
<1>3. /\ "arm" # Nobody /\ "sender" # Nobody /\ "monitor" # Nobody
  BY Apart DEF Singles
<1>4. CASE shmHolder' = Nobody
  BY <1>4 DEF ShmInUse
<1>5. CASE \E t \in {"arm", "sender", "monitor"} : ShmEnter(t)
  <2>1. PICK t \in {"arm", "sender", "monitor"} : ShmEnter(t)
    BY <1>5
  <2>2. shmHolder' = t /\ pc'[t] = ShmSections[t]
    BY <2>1 DEF ShmEnter
  <2> QED
    BY <2>2 DEF ShmInUse
<1>6. CASE shmHolder' = shmHolder /\ shmHolder' # Nobody
  <2>1. CASE shmHolder = "arm"
    <3>1. pc["arm"] = "mark"
      BY <1>1, <1>2, <1>3, <2>1 DEF Places, ArmPcs
    <3>2. ~ArmMark
      BY <1>6 DEF ArmMark, ShmLeave
    <3>3. pc'["arm"] = "mark"
      BY <3>1, <3>2, ArmGoesOn
    <3> QED
      BY <1>2, <1>6, <2>1, <3>3 DEF ShmInUse
  <2>2. CASE shmHolder = "sender"
    <3>1. pc["sender"] \in {"semwait", "ended"}
      BY <1>1, <1>2, <1>3, <2>2 DEF Places, SenderPcs
    <3>2. ~SenderFindEngine
      BY <1>6 DEF SenderFindEngine, ShmLeave
    <3>3. pc'["sender"] \in {"semwait", "ended"}
      BY <3>1, <3>2, SenderGoesOn
    <3> QED
      BY <1>2, <1>6, <2>2, <3>3 DEF ShmInUse
  <2>3. CASE shmHolder = "monitor"
    <3>1. pc'["monitor"] \in {"outside", "logAlert", "ended"}
      BY DEF Places
    <3> QED
      BY <1>2, <1>6, <2>3, <3>1 DEF ShmInUse
  <2> QED
    BY <1>1, <1>6, <2>1, <2>2, <2>3
<1>7. \/ shmHolder' = shmHolder
      \/ shmHolder' = Nobody
      \/ \E t \in {"arm", "sender", "monitor"} : ShmEnter(t)
  BY Writers
<1> QED
  BY <1>1, <1>4, <1>5, <1>6, <1>7

LEMMA LogStepLocks ==
    ASSUME Places, Locks, [Next]_vars
    PROVE  logHolder' \in Threads \cup {Nobody} /\ LogInUse'
<1>1. /\ logHolder \in Threads \cup {Nobody}
      /\ logHolder # Nobody => pc[logHolder] \in DOMAIN AfterLog \cup {"ended", "hung"}
  BY DEF Locks, LocksInUse
<1>2. DOMAIN AfterLog = {"logReceived", "logClosing", "logCreated", "logCanceled",
                         "logWaiting", "report", "logDropped", "logEvicted", "logSent",
                         "logAlert", "ready", "logDone"}
  BY DEF AfterLog
<1>3. CASE logHolder' = Nobody
  BY <1>3 DEF LogInUse
<1>4. CASE \E t \in Threads : LogAcquire(t)
  <2>1. PICK t \in Threads : LogAcquire(t)
    BY <1>4
  <2>2. logHolder' = t /\ pc'[t] \in DOMAIN AfterLog
    BY <2>1 DEF LogAcquire
  <2> QED
    BY <2>2 DEF LogInUse
<1>5. CASE logHolder' = logHolder /\ logHolder' # Nobody
  <2> DEFINE t == logHolder
  <2>1. t \in Threads /\ pc[t] \in DOMAIN AfterLog \cup {"ended", "hung"}
    BY <1>1, <1>5
  <2>2. ~LogStep(t)
    BY <1>5 DEF LogStep, LogWhole, LogRelease
  <2>3. GoesOn(t)
    BY <2>1, EachGoesOn
  <2>4. pc'[t] \in {pc[t], "ended", "hung", "ready"}
    <3>1. ASSUME t \in Engines, EngineMoves(t) PROVE FALSE
      BY <1>2, <2>1, <3>1 DEF EngineMoves
    <3>2. ASSUME t = Backup, ForkMoves PROVE pc'[t] = "ready"
      BY <3>2 DEF ForkMoves
    <3>3. ASSUME t = "receiver", ReceiverMoves PROVE pc'[t] = "ended"
      BY <1>2, <2>1, <3>3 DEF ReceiverMoves, Moved
    <3>4. ASSUME t = "sender", SenderMoves PROVE pc'[t] = "ended"
      BY <1>2, <2>1, <3>4 DEF SenderMoves, Moved
    <3>5. pc[t] \notin {"loop", "fork", "record", "mark", "outside", "absent", "join", "signal",
                        "wait", "pause", "kill"}
      BY <1>2, <2>1
    <3> HIDE DEF t
    <3> QED
      BY <2>2, <2>3, <3>1, <3>2, <3>3, <3>4, <3>5 DEF GoesOn
  <2>5. pc'[t] \in DOMAIN AfterLog \cup {"ended", "hung"}
    BY <1>2, <2>1, <2>4
  <2> QED
    BY <1>1, <1>5, <2>5 DEF LogInUse
<1>6. logHolder' = logHolder \/ logHolder' = Nobody \/ \E t \in Threads : LogAcquire(t)
  BY Writers DEF LogRelease
<1> QED
  BY <1>1, <1>3, <1>4, <1>5, <1>6

LEMMA QueueStep ==
    ASSUME Places, Locks, [Next]_vars
    PROVE  queueHolder' \in {"receiver", "sender", Nobody} /\ QueueInUse'
<1>1. /\ queueHolder \in {"receiver", "sender", Nobody}
      /\ queueHolder # Nobody =>
            pc[queueHolder] \in {"logDropped", "logEvicted", "evict", "ended"}
  BY DEF Locks, LocksInUse
<1>2. {"receiver", "sender"} \subseteq Threads /\ DOMAIN pc = Threads
  BY Apart DEF Singles, Places
<1>3. "receiver" # Nobody /\ "sender" # Nobody
  BY Apart, <1>2
<1>4. CASE queueHolder' = Nobody
  BY <1>4 DEF QueueInUse
<1>5. CASE ReceiverInsert /\ queueHolder' # Nobody
  <2>1. queueHolder' = "receiver" /\ pc'["receiver"] = "logDropped"
    BY <1>2, <1>5 DEF ReceiverInsert
  <2> QED
    BY <2>1 DEF QueueInUse
<1>6. CASE SenderTake /\ queueHolder' # Nobody
  <2>1. queueHolder' = "sender" /\ pc'["sender"] = "logEvicted"
    BY <1>2, <1>6 DEF SenderTake
  <2> QED
    BY <2>1 DEF QueueInUse
<1>7. CASE queueHolder' = queueHolder /\ queueHolder' # Nobody
  <2>1. CASE queueHolder = "receiver"
    <3>1. pc["receiver"] \in {"logDropped", "ended"}
      BY <1>1, <1>3, <2>1 DEF Places, ReceiverPcs
    <3>2. ~LogStep("receiver")
      <4>1. ~LogWhole("receiver")
        BY DEF LogWhole, StoppedInLog
      <4>2. ~LogRelease("receiver")
        BY <1>7 DEF LogRelease
      <4> QED
        BY <4>1, <4>2 DEF LogStep
    <3>3. pc'["receiver"] \in {"logDropped", "ended"}
      BY <3>1, <3>2, ReceiverGoesOn
    <3> QED
      BY <1>7, <2>1, <3>3 DEF QueueInUse
  <2>2. CASE queueHolder = "sender"
    <3>1. pc["sender"] \in {"logEvicted", "evict", "ended"}
      BY <1>1, <1>3, <2>2 DEF Places, SenderPcs
    <3>2. SenderEvict => pc'["sender"] = "logEvicted"
      BY <1>2, <1>7 DEF SenderEvict
    <3>3. pc'["sender"] \in {"logEvicted", "evict", "ended"}
      BY <3>1, <3>2, SenderGoesOn
    <3> QED
      BY <1>7, <2>2, <3>3 DEF QueueInUse
  <2> QED
    BY <1>1, <1>7, <2>1, <2>2
<1>8. ASSUME NEW t \in {"receiver", "sender"}, ThreadInterrupted(t)
      PROVE  queueHolder' = queueHolder \/ (queueHolder' = t /\ pc'[t] = "ended")
  BY <1>2, <1>8 DEF ThreadInterrupted, MayHold
<1>9. ASSUME NEW t \in {"receiver", "sender"}, queueHolder' = t, pc'[t] = "ended"
      PROVE  queueHolder' \in {"receiver", "sender", Nobody} /\ QueueInUse'
  BY <1>9 DEF QueueInUse
<1>10. \/ queueHolder' = queueHolder
       \/ queueHolder' = Nobody
       \/ ReceiverInsert
       \/ SenderTake
       \/ \E t \in {"receiver", "sender"} : ThreadInterrupted(t)
  BY Writers
<1> QED
  BY <1>1, <1>4, <1>5, <1>6, <1>7, <1>8, <1>9, <1>10

LEMMA SentStep ==
    ASSUME Places, Locks, [Next]_vars
    PROVE  sentHolder' \in {"receiver", "sender", Nobody} /\ SentInUse'
<1>1. /\ sentHolder \in {"receiver", "sender", Nobody}
      /\ sentHolder # Nobody => pc[sentHolder] = "ended"
  BY DEF Locks, LocksInUse
<1>2. {"receiver", "sender"} \subseteq Threads /\ DOMAIN pc = Threads
  BY Apart DEF Singles, Places
<1>3. CASE sentHolder' = sentHolder
  <2>1. sentHolder # Nobody => pc'[sentHolder] = "ended"
    BY <1>1, EndedStays DEF Singles
  <2> QED
    BY <1>1, <1>3, <2>1 DEF SentInUse
<1>4. SenderCancelled => \/ sentHolder' = sentHolder
                         \/ sentHolder' = "sender" /\ pc'["sender"] = "ended"
  BY <1>2 DEF SenderCancelled
<1>5. ASSUME NEW t \in {"receiver", "sender"}, ThreadInterrupted(t)
      PROVE  sentHolder' = sentHolder \/ (sentHolder' = t /\ pc'[t] = "ended")
  BY <1>2, <1>5 DEF ThreadInterrupted, MayHold
<1>6. ASSUME NEW t \in {"receiver", "sender"}, sentHolder' = t, pc'[t] = "ended"
      PROVE  sentHolder' \in {"receiver", "sender", Nobody} /\ SentInUse'
  BY <1>6 DEF SentInUse
<1> QED
  BY <1>3, <1>4, <1>5, <1>6, Writers

LEMMA LocksStep ==
    ASSUME Places, Places', Locks, [Next]_vars
    PROVE  Locks'
<1>1. ShmInUse' /\ LogInUse' /\ QueueInUse' /\ SentInUse'
  BY ShmStep, LogStepLocks, QueueStep, SentStep
<1>2. LocksInUse'
  BY <1>1 DEF LocksInUse, ShmInUse, LogInUse, QueueInUse, SentInUse
<1> QED
  BY <1>2, ShmStep, LogStepLocks, QueueStep, SentStep DEF Locks


---------------------------------------------------------------------------
\* THE STEPS: flags, requests

LEMMA FlagsStep ==
    ASSUME Flags, [Next]_vars
    PROVE  Flags'
<1>1. {sentRequest', isQueueFull', isArmNotified', backupPid'} \subseteq {0, 1}
  <2>1. sentRequest' \in {0, 1} /\ isQueueFull' \in {0, 1}
    BY Writers DEF Flags
  <2>2. isArmNotified' \in {0, 1}
    BY Writers DEF Flags, ArmSeeFull
  <2>3. backupPid' \in {0, 1}
    BY Writers DEF Flags, ArmRecord
  <2> QED
    BY <2>1, <2>2, <2>3
<1>2. enginesAvailable' \in [Engines -> {0, 1}]
  <2>1. enginesAvailable \in [Engines -> {0, 1}]
    BY DEF Flags
  <2>2. ASSUME NEW e \in Engines, EngineMark(e) \/ EngineFree(e)
        PROVE  enginesAvailable' \in [Engines -> {0, 1}]
    BY <2>1, <2>2 DEF EngineMark, EngineFree
  <2>3. ArmMark => enginesAvailable' \in [Engines -> {0, 1}]
    BY <2>1 DEF ArmMark
  <2> QED
    BY <2>1, <2>2, <2>3, Writers
<1>3. group' \in BOOLEAN /\ armPending' \in BOOLEAN
  <2>1. group' = group \/ group' \in BOOLEAN
    BY Writers, Zenon DEF Interrupt
  <2>2. armPending' = armPending \/ armPending' \in BOOLEAN
    BY Writers
  <2> QED
    BY <2>1, <2>2, Zenon DEF Flags
<1>4. cancelled' \subseteq {"receiver", "sender"}
  BY Writers DEF Flags, ArmInterrupted
<1>5. closed' \in [Engines -> BOOLEAN]
  <2>1. closed \in [Engines -> BOOLEAN]
    BY DEF Flags
  <2>2. Interrupt => closed' = closed \/ closed' = [e \in Engines |-> e \in Regular \/ closed[e]]
    BY Zenon DEF Interrupt, BackupAfterInterrupt
  <2>3. HandlerSignal => closed' = [e \in Engines |-> closed[e] \/ e \in Recorded]
    BY Zenon DEF HandlerSignal
  <2> QED
    BY <2>1, <2>2, <2>3, Writers, Zenon
<1> QED
  BY <1>1, <1>2, <1>3, <1>4, <1>5 DEF Flags

\* Both ends of a sequence.
LEMMA Ends ==
    ASSUME NEW S, NEW s \in Seq(S), s # << >>
    PROVE  /\ Head(s) \in S /\ Tail(s) \in Seq(S) /\ Len(Tail(s)) = Len(s) - 1
           /\ Last(s) \in S /\ Front(s) \in Seq(S) /\ Len(Front(s)) = Len(s) - 1
           /\ ToSet(s) = ToSet(Tail(s)) \cup {Head(s)}
           /\ ToSet(s) = ToSet(Front(s)) \cup {Last(s)}
<1>1. Len(s) \in Nat /\ Len(s) >= 1 /\ \A i \in 1 .. Len(s) : s[i] \in S
  OBVIOUS
<1>2. /\ Head(s) = s[1] /\ Tail(s) \in Seq(S) /\ Len(Tail(s)) = Len(s) - 1
      /\ \A i \in 1 .. Len(s) - 1 : Tail(s)[i] = s[i + 1]
  OBVIOUS
<1>3. /\ Last(s) = s[Len(s)] /\ Front(s) \in Seq(S) /\ Len(Front(s)) = Len(s) - 1
      /\ \A i \in 1 .. Len(s) - 1 : Front(s)[i] = s[i]
  <2>1. Front(s) = SubSeq(s, 1, Len(s) - 1) /\ Last(s) = s[Len(s)]
    BY DEF Front, Last
  <2>2. 1 \in Int /\ Len(s) - 1 \in Int /\ \A i \in 1 .. Len(s) - 1 : s[i] \in S
    BY <1>1
  <2>3. /\ SubSeq(s, 1, Len(s) - 1) \in Seq(S)
        /\ Len(SubSeq(s, 1, Len(s) - 1)) =
              IF 1 <= Len(s) - 1 THEN (Len(s) - 1) - 1 + 1 ELSE 0
        /\ \A i \in 1 .. (Len(s) - 1) - 1 + 1 : SubSeq(s, 1, Len(s) - 1)[i] = s[1 + i - 1]
    BY <2>2, SubSeqProperties
  <2>4. (Len(s) - 1) - 1 + 1 = Len(s) - 1 /\ \A i \in 1 .. Len(s) - 1 : 1 + i - 1 = i
    BY <1>1
  <2> QED
    BY <1>1, <2>1, <2>3, <2>4
<1>4. ToSet(s) = ToSet(Tail(s)) \cup {Head(s)}
  <2>1. ASSUME NEW i \in 1 .. Len(s) PROVE s[i] \in ToSet(Tail(s)) \cup {Head(s)}
    <3>1. CASE i = 1
      BY <1>2, <3>1
    <3>2. CASE i # 1
      <4>1. i - 1 \in 1 .. Len(s) - 1 /\ i - 1 \in DOMAIN Tail(s)
        BY <1>1, <1>2, <3>2
      <4>2. Tail(s)[i - 1] = s[i]
        BY <1>1, <1>2, <4>1
      <4> QED
        BY <4>1, <4>2 DEF ToSet
    <3> QED
      BY <3>1, <3>2
  <2>2. ASSUME NEW i \in DOMAIN Tail(s) PROVE Tail(s)[i] \in ToSet(s)
    <3>1. i \in 1 .. Len(s) - 1 /\ i + 1 \in 1 .. Len(s)
      BY <1>1, <1>2
    <3> QED
      BY <1>2, <3>1 DEF ToSet
  <2>3. Head(s) \in ToSet(s)
    BY <1>1, <1>2 DEF ToSet
  <2> QED
    BY <2>1, <2>2, <2>3 DEF ToSet
<1>5. ToSet(s) = ToSet(Front(s)) \cup {Last(s)}
  <2>1. ASSUME NEW i \in 1 .. Len(s) PROVE s[i] \in ToSet(Front(s)) \cup {Last(s)}
    <3>1. CASE i = Len(s)
      BY <1>3, <3>1
    <3>2. CASE i # Len(s)
      <4>1. i \in 1 .. Len(s) - 1 /\ i \in DOMAIN Front(s)
        BY <1>1, <1>3, <3>2
      <4> QED
        BY <1>3, <4>1 DEF ToSet
    <3> QED
      BY <3>1, <3>2
  <2>2. ASSUME NEW i \in DOMAIN Front(s) PROVE Front(s)[i] \in ToSet(s)
    <3>1. i \in 1 .. Len(s) - 1 /\ i \in 1 .. Len(s)
      BY <1>1, <1>3
    <3> QED
      BY <1>3, <3>1 DEF ToSet
  <2>3. Last(s) \in ToSet(s)
    BY <1>1, <1>3 DEF ToSet
  <2> QED
    BY <2>1, <2>2, <2>3 DEF ToSet
<1> QED
  BY <1>1, <1>2, <1>3, <1>4, <1>5

LEMMA AppendToSet ==
    ASSUME NEW S, NEW s \in Seq(S), NEW x \in S
    PROVE  /\ Append(s, x) \in Seq(S) /\ Len(Append(s, x)) = Len(s) + 1
           /\ ToSet(Append(s, x)) = ToSet(s) \cup {x}
<1>1. /\ Append(s, x) \in Seq(S) /\ Len(Append(s, x)) = Len(s) + 1 /\ Len(s) \in Nat
      /\ \A i \in 1 .. Len(s) : Append(s, x)[i] = s[i]
      /\ Append(s, x)[Len(s) + 1] = x
  OBVIOUS
<1>2. /\ DOMAIN s = 1 .. Len(s) /\ DOMAIN Append(s, x) = 1 .. Len(s) + 1
      /\ \A i \in 1 .. Len(s) + 1 : i \in 1 .. Len(s) \/ i = Len(s) + 1
      /\ Len(s) + 1 \in 1 .. Len(s) + 1 /\ 1 .. Len(s) \subseteq 1 .. Len(s) + 1
  BY <1>1
<1> QED
  BY <1>1, <1>2 DEF ToSet

\* The parts of Carried.
ReceiverCarries ==
    /\ received \in 0 .. MaxRequests /\ rRequest \in MaybeOne
    /\ pc["receiver"] # "ended" => (rRequest # NoRequest <=> pc["receiver"] = "insert")

QueueCarries == queue \in Seq(Request) /\ Len(queue) <= QUEUE_POS

SenderCarries ==
    /\ sRequest \in MaybeOne
    /\ pc["sender"] # "ended" => (sRequest # NoRequest <=> pc["sender"] = "write")
    /\ chosen \in Engines \cup {Nobody}
    /\ pc["sender"] \in {"take", "logEvicted", "evict", "write"} => chosen \in Engines
    /\ pc["sender"] \in {"take", "logEvicted", "evict"} => queue # << >>

EnginesCarry ==
    /\ pipe \in [Engines -> Seq(Request)] /\ eRequest \in [Engines -> MaybeOne]
    /\ served \subseteq Request /\ dropped \subseteq Request
    /\ \A e \in Engines :
          /\ eRequest[e] # NoRequest <=> pc[e] \in {"busy", "serve", "logDone", "free"}
          /\ pc[e] \in {"logDone", "free"} => eRequest[e] \in served

LEMMA CarriedParts ==
    Carried <=> ReceiverCarries /\ QueueCarries /\ SenderCarries /\ EnginesCarry
BY DEF Carried, ReceiverCarries, QueueCarries, SenderCarries, EnginesCarry

\* No request has the number 0.
LEMMA RequestNumbers ==
    /\ MaxRequests \in Nat /\ NoRequest \notin Request
    /\ \A r \in MaybeOne : r # NoRequest => r \in Request
BY ShutdownAssumption DEF Request, MaybeOne, NoRequest

LEMMA ReceiverCarriesStep ==
    ASSUME Places, ReceiverCarries, [Next]_vars
    PROVE  ReceiverCarries'
<1>1. /\ received \in 0 .. MaxRequests /\ rRequest \in MaybeOne /\ MaxRequests \in Nat
      /\ pc["receiver"] # "ended" => (rRequest # NoRequest <=> pc["receiver"] = "insert")
  BY RequestNumbers DEF ReceiverCarries
<1>2. CASE Receive
  <2>1. received' = received + 1 /\ rRequest' = received + 1 /\ received < MaxRequests
        /\ pc'["receiver"] = "insert"
    BY <1>2, Apart DEF Receive, Goto, Places, Singles
  <2>2. received + 1 \in Request /\ received + 1 \in 0 .. MaxRequests
    BY <1>1, <2>1 DEF Request
  <2> QED
    BY <2>1, <2>2, RequestNumbers DEF ReceiverCarries, MaybeOne
<1>3. CASE ReceiverInsert
  <2>1. rRequest' = NoRequest /\ received' = received /\ pc'["receiver"] \in {"signal", "logDropped"}
    BY <1>3, Apart DEF ReceiverInsert, Places, Singles
  <2> QED
    BY <1>1, <2>1 DEF ReceiverCarries, MaybeOne
<1>4. CASE ~Receive /\ ~ReceiverInsert
  <2>1. received' = received /\ rRequest' = rRequest
    BY <1>4, Writers
  <2>2. pc'["receiver"] = "ended" \/ (pc["receiver"] # "ended" /\
            (pc'["receiver"] = "insert" <=> pc["receiver"] = "insert"))
    BY <1>4, ReceiverGoesOn
  <2> QED
    BY <1>1, <2>1, <2>2 DEF ReceiverCarries
<1> QED
  BY <1>2, <1>3, <1>4

LEMMA QueueCarriesStep ==
    ASSUME Carried, [Next]_vars
    PROVE  QueueCarries'
<1>1. ReceiverCarries /\ QueueCarries /\ SenderCarries
  BY CarriedParts
<1>2. queue \in Seq(Request) /\ Len(queue) <= QUEUE_POS /\ QUEUE_POS \in Nat /\ Len(queue) \in Nat
  BY <1>1, ShutdownAssumption DEF QueueCarries
<1>3. CASE ReceiverInsert
  <2>1. rRequest \in Request
    BY <1>1, <1>3, RequestNumbers DEF ReceiverCarries, ReceiverInsert
  <2>2. queue' = queue \/ (Len(queue) < QUEUE_POS /\ queue' = Append(queue, rRequest))
    BY <1>3 DEF ReceiverInsert
  <2> QED
    BY <1>2, <2>1, <2>2, AppendToSet DEF QueueCarries
<1>4. CASE SenderTake
  <2>1. queue # << >> /\ (queue' = queue \/ queue' = Tail(queue))
    BY <1>1, <1>4 DEF SenderTake, SenderCarries
  <2>2. Tail(queue) \in Seq(Request) /\ Len(Tail(queue)) = Len(queue) - 1
    BY <1>2, <2>1, Ends
  <2> QED
    BY <1>2, <2>1, <2>2 DEF QueueCarries
<1>5. CASE SenderEvict
  <2>1. queue # << >> /\ queue' = Front(queue)
    BY <1>1, <1>5 DEF SenderEvict, SenderCarries
  <2>2. Front(queue) \in Seq(Request) /\ Len(Front(queue)) = Len(queue) - 1
    BY <1>2, <2>1, Ends
  <2> QED
    BY <1>2, <2>1, <2>2 DEF QueueCarries
<1>6. CASE queue' = queue
  BY <1>1, <1>6 DEF QueueCarries
<1> QED
  BY <1>3, <1>4, <1>5, <1>6, Writers


LEMMA SenderCarriesStep ==
    ASSUME Places, Carried, [Next]_vars
    PROVE  SenderCarries'
<1>1. ReceiverCarries /\ QueueCarries /\ SenderCarries
  BY CarriedParts
<1>2. "sender" \in Threads /\ DOMAIN pc = Threads /\ Engines \subseteq Engines \cup {Nobody}
  BY Apart DEF Singles, Places
<1>3. CASE SenderFindEngine
  <2>1. /\ pc["sender"] = "semwait"
        /\ \/ pc' = [pc EXCEPT !["sender"] = "await"] /\ chosen' = chosen
           \/ pc' = [pc EXCEPT !["sender"] = "take"] /\ queue # << >> /\ chosen' \in Engines
    <3>1. pc["sender"] = "semwait"
      BY <1>3 DEF SenderFindEngine, ShmLeave, ShmSections
    <3>2. \/ pc' = [pc EXCEPT !["sender"] = "await"] /\ chosen' = chosen
          \/ pc' = [pc EXCEPT !["sender"] = "take"] /\ queue # << >> /\ chosen' \in Engines
      BY <1>3 DEF SenderFindEngine, ShmLeave
    <3> QED
      BY <3>1, <3>2
  <2>2. sRequest' = sRequest /\ queue' = queue
    BY <1>3 DEF SenderFindEngine
  <2>3. \/ pc'["sender"] = "await" /\ chosen' = chosen
        \/ pc'["sender"] = "take" /\ queue # << >> /\ chosen' \in Engines
    BY <1>2, <2>1
  <2> QED
    BY <1>1, <1>2, <2>1, <2>2, <2>3 DEF SenderCarries
<1>4. CASE SenderTake
  <2>1. queue # << >> /\ chosen \in Engines /\ Head(queue) \in Request
    BY <1>1, <1>4, Ends DEF SenderTake, SenderCarries, QueueCarries
  <2>2. \/ pc'["sender"] = "write" /\ sRequest' = Head(queue)
        \/ pc'["sender"] = "logEvicted" /\ sRequest' = sRequest /\ queue' = queue
    BY <1>2, <1>4 DEF SenderTake
  <2>3. pc["sender"] = "take" /\ chosen' = chosen
    BY <1>4 DEF SenderTake
  <2> QED
    BY <1>1, <2>1, <2>2, <2>3, RequestNumbers DEF SenderCarries, MaybeOne
<1>5. CASE SenderEvict
  <2>1. \/ pc'["sender"] = "await" /\ chosen' = Nobody
        \/ pc'["sender"] = "logEvicted" /\ chosen' = chosen /\ queue' # << >>
    BY <1>2, <1>5 DEF SenderEvict
  <2>2. pc["sender"] = "evict" /\ sRequest' = sRequest
    BY <1>5 DEF SenderEvict
  <2> QED
    BY <1>1, <2>1, <2>2 DEF SenderCarries
<1>6. CASE SenderWrite
  <2>1. pc'["sender"] = "logSent" /\ chosen' = Nobody /\ sRequest' = NoRequest
    BY <1>2, <1>6 DEF SenderWrite, Goto
  <2> QED
    BY <2>1 DEF SenderCarries, MaybeOne
<1>7. CASE ~SenderFindEngine /\ ~SenderTake /\ ~SenderEvict /\ ~SenderWrite
  <2>1. chosen' = chosen /\ sRequest' = sRequest
    BY <1>7, Writers
  <2>2. queue # << >> => queue' # << >>
    <3>1. ReceiverInsert => rRequest \in Request
      BY <1>1, RequestNumbers DEF ReceiverInsert, ReceiverCarries
    <3>2. ReceiverInsert => queue' = queue \/ queue' = Append(queue, rRequest)
      BY DEF ReceiverInsert
    <3>3. rRequest \in Request => Len(Append(queue, rRequest)) = Len(queue) + 1 /\ Len(queue) \in Nat
      BY <1>1, AppendToSet DEF QueueCarries
    <3>4. rRequest \in Request => Append(queue, rRequest) # << >>
      BY <3>3
    <3> QED
      BY <1>7, <3>1, <3>2, <3>4, Writers
  <2>3. \/ pc'["sender"] = "ended"
        \/ /\ pc["sender"] # "ended"
           /\ pc'["sender"] = "write" <=> pc["sender"] = "write"
           /\ pc'["sender"] \in {"take", "logEvicted", "evict"} =>
                 pc["sender"] \in {"take", "logEvicted", "evict"}
    BY <1>7, SenderGoesOn
  <2> QED
    BY <1>1, <2>1, <2>2, <2>3 DEF SenderCarries
<1> QED
  BY <1>3, <1>4, <1>5, <1>6, <1>7

LEMMA EnginesCarryStep ==
    ASSUME Places, Carried, BackupKnown, [Next]_vars
    PROVE  EnginesCarry'
<1>1. /\ ReceiverCarries /\ QueueCarries /\ SenderCarries
      /\ pipe \in [Engines -> Seq(Request)] /\ eRequest \in [Engines -> MaybeOne]
      /\ served \subseteq Request /\ dropped \subseteq Request
      /\ \A e \in Engines :
            /\ eRequest[e] # NoRequest <=> pc[e] \in {"busy", "serve", "logDone", "free"}
            /\ pc[e] \in {"logDone", "free"} => eRequest[e] \in served
  BY CarriedParts DEF EnginesCarry
<1>2. pipe' \in [Engines -> Seq(Request)]
  <2>1. CASE SenderWrite
    <3>1. sRequest \in Request /\ chosen \in Engines
      BY <1>1, <2>1, RequestNumbers DEF SenderWrite, Goto, SenderCarries
    <3>2. Append(pipe[chosen], sRequest) \in Seq(Request)
      BY <1>1, <3>1
    <3>3. pipe' = [pipe EXCEPT ![chosen] = Append(pipe[chosen], sRequest)]
      BY <2>1 DEF SenderWrite
    <3> QED
      BY <1>1, <3>2, <3>3
  <2>2. ASSUME NEW e \in Engines, EngineRead(e)
        PROVE  pipe' \in [Engines -> Seq(Request)]
    <3>1. pipe[e] \in Seq(Request) /\ pipe[e] # << >>
      BY <1>1, <2>2 DEF EngineRead
    <3>2. Tail(pipe[e]) \in Seq(Request)
      BY <3>1
    <3> QED
      BY <1>1, <2>2, <3>2 DEF EngineRead
  <2> QED
    BY <1>1, <2>1, <2>2, Writers
<1>3. eRequest' \in [Engines -> MaybeOne]
  <2>1. ASSUME NEW e \in Engines, EngineRead(e)
        PROVE  eRequest' \in [Engines -> MaybeOne]
    <3>1. pipe[e] \in Seq(Request) /\ pipe[e] # << >>
      BY <1>1, <2>1 DEF EngineRead
    <3>2. Head(pipe[e]) \in MaybeOne
      BY <3>1 DEF MaybeOne
    <3> QED
      BY <1>1, <2>1, <3>2 DEF EngineRead
  <2>2. ASSUME NEW e \in Engines, EngineFree(e)
        PROVE  eRequest' \in [Engines -> MaybeOne]
    BY <1>1, <2>2 DEF EngineFree, MaybeOne
  <2> QED
    BY <1>1, <2>1, <2>2, Writers
<1>4. served' \subseteq Request /\ served \subseteq served'
  <2>1. ASSUME NEW e \in Engines, EngineServe(e)
        PROVE  served' = served \cup {eRequest[e]} /\ eRequest[e] \in Request
    <3>1. pc[e] = "serve" /\ eRequest[e] \in MaybeOne
      BY <1>1, <2>1 DEF EngineServe, Goto
    <3> QED
      BY <1>1, <2>1, <3>1, RequestNumbers DEF EngineServe
  <2> QED
    BY <1>1, <2>1, Writers
<1>5. dropped' \subseteq Request
  <2>1. CASE ReceiverInsert
    <3>1. rRequest \in Request
      BY <1>1, <2>1, RequestNumbers DEF ReceiverInsert, ReceiverCarries
    <3> QED
      BY <1>1, <2>1, <3>1 DEF ReceiverInsert
  <2>2. CASE SenderEvict
    <3>1. queue \in Seq(Request) /\ queue # << >>
      BY <1>1, <2>2 DEF SenderEvict, SenderCarries, QueueCarries
    <3>2. Last(queue) \in Request
      BY <3>1, Ends
    <3> QED
      BY <1>1, <2>2, <3>2 DEF SenderEvict
  <2> QED
    BY <1>1, <2>1, <2>2, Writers
<1>6. ASSUME NEW e \in Engines
      PROVE  /\ eRequest'[e] # NoRequest <=> pc'[e] \in {"busy", "serve", "logDone", "free"}
             /\ pc'[e] \in {"logDone", "free"} => eRequest'[e] \in served'
  <2>1. e \in Threads /\ DOMAIN pc = Threads
    BY Apart DEF Places
  <2>2. CASE EngineRead(e)
    <3>1. pipe[e] \in Seq(Request) /\ pipe[e] # << >>
      BY <1>1, <2>2 DEF EngineRead
    <3>2. Head(pipe[e]) # NoRequest
      BY <3>1, RequestNumbers
    <3>3. eRequest'[e] = Head(pipe[e]) /\ pc'[e] = "busy"
      BY <1>1, <2>1, <2>2 DEF EngineRead, Goto
    <3> QED
      BY <3>2, <3>3
  <2>3. CASE EngineFree(e)
    <3>1. eRequest'[e] = NoRequest /\ pc'[e] \in {"ended", "idle"}
      BY <1>1, <2>1, <2>3 DEF EngineFree, Goto
    <3> QED
      BY <3>1
  <2>4. CASE ~EngineRead(e) /\ ~EngineFree(e)
    <3>1. eRequest'[e] = eRequest[e]
      <4>1. ASSUME NEW f \in Engines, EngineRead(f) \/ EngineFree(f), f # e
            PROVE  eRequest'[e] = eRequest[e]
        BY <1>1, <4>1 DEF EngineRead, EngineFree
      <4> QED
        BY <2>4, <4>1, Writers
    <3>2. EngineServe(e) => eRequest[e] \in served'
      BY DEF EngineServe
    <3>3. e = Backup /\ ForkMoves => pc'[e] = "ready" /\ eRequest[e] = NoRequest
      BY DEF ForkMoves, BackupKnown
    <3>4. pc'[e] \in {"busy", "serve", "logDone", "free"} <=>
             pc[e] \in {"busy", "serve", "logDone", "free"} /\ ~(e = Backup /\ ForkMoves)
      BY <2>4, <3>3, <1>1, EngineGoesOn
    <3>5. pc'[e] \in {"logDone", "free"} => pc[e] \in {"logDone", "free"} \/ EngineServe(e)
      BY <2>4, <3>3, EngineGoesOn
    <3> QED
      BY <1>1, <1>4, <3>1, <3>2, <3>3, <3>4, <3>5
  <2> QED
    BY <2>2, <2>3, <2>4
<1> QED
  BY <1>2, <1>3, <1>4, <1>5, <1>6 DEF EnginesCarry

\* When the ARM stores the pid it has seen a full queue.
LEMMA ArmRecordLate ==
    ASSUME Places, ArmRecord
    PROVE  pc["arm"] = "record" /\ pc'["arm"] = "logCreated"
BY Apart DEF ArmRecord, Goto, Places, Singles

LEMMA BackupKnownStep ==
    ASSUME Places, Flags, Carried, BackupKnown, [Next]_vars
    PROVE  BackupKnown'
<1>1. /\ pc["arm"] \in {"logCreated", "mark"} => backupPid = 1
      /\ pc["arm"] \in {"fork", "record"} => backupPid = 0 /\ isArmNotified = 1
      /\ isArmNotified = 0 => backupPid = 0
      /\ backupPid = 0 => /\ enginesAvailable[Backup] = 0 /\ chosen # Backup
                          /\ pipe[Backup] = << >> /\ eRequest[Backup] = NoRequest
  BY DEF BackupKnown
<1>2. /\ backupPid \in {0, 1} /\ isArmNotified \in {0, 1}
      /\ enginesAvailable \in [Engines -> {0, 1}] /\ Backup \in Engines
      /\ pipe \in [Engines -> Seq(Request)] /\ eRequest \in [Engines -> MaybeOne]
      /\ eRequest[Backup] # NoRequest <=> pc[Backup] \in {"busy", "serve", "logDone", "free"}
  BY Apart, CarriedParts DEF Flags, EnginesCarry
<1>3. ArmRecord => backupPid' = 1 /\ isArmNotified' = isArmNotified /\ pc["arm"] = "record"
  BY DEF ArmRecord, Goto
<1>4. ArmSeeFull => isArmNotified' = 1 /\ backupPid' = backupPid /\ isArmNotified = 0
  BY DEF ArmSeeFull
<1>5. pc'["arm"] \in {"logCreated", "mark"} => backupPid' = 1
  BY <1>1, <1>3, ArmGoesOn, Writers
<1>6. /\ pc'["arm"] \in {"fork", "record"} => backupPid' = 0 /\ isArmNotified' = 1
      /\ isArmNotified' = 0 => backupPid' = 0
  <2>1. ArmRecord => isArmNotified = 1 /\ pc'["arm"] = "logCreated"
    BY <1>1, ArmRecordLate
  <2>2. CASE ArmRecord
    BY <1>3, <2>1, <2>2
  <2>3. CASE ArmSeeFull
    BY <1>1, <1>4, <2>3
  <2>4. CASE ~ArmRecord /\ ~ArmSeeFull
    <3>1. backupPid' = backupPid /\ isArmNotified' = isArmNotified
      BY <2>4, Writers
    <3>2. pc'["arm"] \in {"fork", "record"} => pc["arm"] \in {"fork", "record"}
      BY <2>4, ArmGoesOn
    <3> QED
      BY <1>1, <3>1, <3>2
  <2> QED
    BY <2>2, <2>3, <2>4
<1>7. backupPid' = 0 => /\ enginesAvailable'[Backup] = 0 /\ chosen' # Backup
                        /\ pipe'[Backup] = << >> /\ eRequest'[Backup] = NoRequest
  <2> SUFFICES ASSUME backupPid' = 0
               PROVE  /\ enginesAvailable'[Backup] = 0 /\ chosen' # Backup
                      /\ pipe'[Backup] = << >> /\ eRequest'[Backup] = NoRequest
    OBVIOUS
  <2>1. /\ backupPid = 0
        /\ enginesAvailable[Backup] = 0 /\ chosen # Backup
        /\ pipe[Backup] = << >> /\ eRequest[Backup] = NoRequest
    BY <1>1, <1>3, Writers
  <2>2. pc[Backup] \notin {"busy", "serve", "logDone", "free"} /\ pc["arm"] # "mark"
    BY <1>1, <1>2, <2>1
  <2>3. enginesAvailable'[Backup] = 0
    <3>1. ASSUME NEW e \in Engines, EngineMark(e) \/ EngineFree(e)
          PROVE  e # Backup
      BY <2>2, <3>1 DEF EngineMark, EngineFree, Goto
    <3>2. ~ArmMark
      BY <2>2 DEF ArmMark, ShmLeave, ShmSections
    <3>3. ASSUME NEW e \in Engines, EngineMark(e) \/ EngineFree(e)
          PROVE  enginesAvailable'[Backup] = 0
      BY <1>2, <2>1, <3>1, <3>3 DEF EngineMark, EngineFree
    <3> QED
      BY <2>1, <3>2, <3>3, Writers
  <2>4. chosen' # Backup
    <3>1. Nobody # Backup
      BY Apart
    <3>2. SenderFindEngine => chosen' = chosen \/ enginesAvailable[chosen'] = 1
      BY DEF SenderFindEngine
    <3>3. SenderEvict => chosen' \in {chosen, Nobody}
      BY DEF SenderEvict
    <3>4. SenderWrite => chosen' = Nobody
      BY DEF SenderWrite
    <3> QED
      BY <2>1, <3>1, <3>2, <3>3, <3>4, Writers
  <2>5. pipe'[Backup] = << >>
    <3>1. SenderWrite => pipe'[Backup] = pipe[Backup]
      BY <1>2, <2>1 DEF SenderWrite
    <3>2. ASSUME NEW e \in Engines, EngineRead(e) PROVE pipe'[Backup] = pipe[Backup]
      BY <1>2, <2>1, <3>2 DEF EngineRead
    <3> QED
      BY <2>1, <3>1, <3>2, Writers
  <2>6. eRequest'[Backup] = NoRequest
    <3>1. ASSUME NEW e \in Engines, EngineRead(e) \/ EngineFree(e)
          PROVE  eRequest'[Backup] = NoRequest
      BY <1>2, <2>1, <3>1 DEF EngineRead, EngineFree
    <3> QED
      BY <2>1, <3>1, Writers
  <2> QED
    BY <2>3, <2>4, <2>5, <2>6
<1> QED
  BY <1>5, <1>6, <1>7 DEF BackupKnown


---------------------------------------------------------------------------
\* THE STEPS: where every request is

\* A request that is found in the Receiver's or the Sender's hands, in the queue or on its
\* way to an engine is found somewhere after the step.
LEMMA LedgerStep ==
    ASSUME Places, Carried, Ledger, [Next]_vars
    PROVE  Ledger'
<1>1. ReceiverCarries /\ QueueCarries /\ SenderCarries /\ EnginesCarry
  BY CarriedParts
<1>2. /\ queue \in Seq(Request) /\ received \in Nat
      /\ pipe \in [Engines -> Seq(Request)] /\ eRequest \in [Engines -> MaybeOne]
  BY <1>1, RequestNumbers DEF QueueCarries, ReceiverCarries, EnginesCarry
<1>3. ASSUME NEW id \in 1 .. received, Somewhere(id)
      PROVE  Somewhere(id)'
  <2>0. id # NoRequest
    BY DEF NoRequest
  <2>1. served \subseteq served' /\ dropped \subseteq dropped'
    <3>1. served \subseteq served'
      BY Writers DEF EngineServe
    <3>2. dropped \subseteq dropped'
      BY Writers DEF ReceiverInsert, SenderEvict
    <3> QED
      BY <3>1, <3>2
  <2>2. CASE id \in served \cup dropped
    BY <2>1, <2>2 DEF Somewhere
  <2>3. CASE id = rRequest
    <3>1. Receive => rRequest = NoRequest
      BY <1>1 DEF Receive, Goto, ReceiverCarries
    <3>2. ReceiverInsert => id \in dropped' \/ id \in ToSet(queue')
      <4>1. ASSUME ReceiverInsert PROVE rRequest \in Request
        BY <1>1, <4>1, RequestNumbers DEF ReceiverInsert, ReceiverCarries
      <4>2. ReceiverInsert => \/ rRequest \in dropped'
                              \/ queue' = Append(queue, rRequest)
        BY DEF ReceiverInsert
      <4>3. ReceiverInsert => ToSet(Append(queue, rRequest)) = ToSet(queue) \cup {rRequest}
        BY <1>2, <4>1, AppendToSet
      <4> QED
        BY <2>3, <4>2, <4>3
    <3>3. rRequest' = rRequest \/ ReceiverInsert
      BY <2>0, <2>3, <3>1, Writers
    <3> QED
      BY <2>3, <3>2, <3>3 DEF Somewhere
  <2>4. CASE id = sRequest
    <3>1. SenderTake => sRequest = NoRequest
      BY <1>1 DEF SenderTake, SenderCarries
    <3>2. SenderWrite => \E e \in Engines : id \in ToSet(pipe'[e])
      <4>1. ASSUME SenderWrite PROVE sRequest \in Request /\ chosen \in Engines
        BY <1>1, <4>1, RequestNumbers DEF SenderWrite, Goto, SenderCarries
      <4>2. SenderWrite => pipe'[chosen] = Append(pipe[chosen], sRequest)
        BY <1>2, <4>1 DEF SenderWrite
      <4>3. SenderWrite => sRequest \in ToSet(Append(pipe[chosen], sRequest))
        BY <1>2, <4>1, AppendToSet
      <4> QED
        BY <2>4, <4>1, <4>2, <4>3
    <3>3. sRequest' = sRequest \/ SenderWrite
      BY <2>0, <2>4, <3>1, Writers
    <3> QED
      BY <2>4, <3>2, <3>3 DEF Somewhere
  <2>5. CASE id \in ToSet(queue)
    <3>1. CASE ReceiverInsert
      <4>1. rRequest \in Request
        BY <1>1, <3>1, RequestNumbers DEF ReceiverInsert, ReceiverCarries
      <4>2. queue' = queue \/ queue' = Append(queue, rRequest)
        BY <3>1 DEF ReceiverInsert
      <4>3. ToSet(Append(queue, rRequest)) = ToSet(queue) \cup {rRequest}
        BY <1>2, <4>1, AppendToSet
      <4>4. id \in ToSet(queue')
        BY <2>5, <4>2, <4>3
      <4> QED
        BY <4>4 DEF Somewhere
    <3>2. CASE SenderTake
      <4>1. queue # << >>
        BY <1>1, <3>2 DEF SenderTake, SenderCarries
      <4>2. ToSet(queue) = ToSet(Tail(queue)) \cup {Head(queue)}
        BY <1>2, <4>1, Ends
      <4>3. \/ sRequest' = Head(queue) /\ queue' = Tail(queue)
            \/ queue' = queue
        BY <3>2 DEF SenderTake
      <4>4. id = sRequest' \/ id \in ToSet(queue')
        BY <2>5, <4>2, <4>3
      <4> QED
        BY <4>4 DEF Somewhere
    <3>3. CASE SenderEvict
      <4>1. queue # << >>
        BY <1>1, <3>3 DEF SenderEvict, SenderCarries
      <4>2. ToSet(queue) = ToSet(Front(queue)) \cup {Last(queue)}
        BY <1>2, <4>1, Ends
      <4>3. dropped' = dropped \cup {Last(queue)} /\ queue' = Front(queue)
        BY <3>3 DEF SenderEvict
      <4>4. id \in dropped' \/ id \in ToSet(queue')
        BY <2>5, <4>2, <4>3
      <4> QED
        BY <4>4 DEF Somewhere
    <3>4. CASE queue' = queue
      BY <2>5, <3>4 DEF Somewhere
    <3> QED
      BY <3>1, <3>2, <3>3, <3>4, Writers
  <2>6. ASSUME NEW e \in Engines, id \in ToSet(pipe[e])
        PROVE  Somewhere(id)'
    <3>1. CASE SenderWrite
      <4>1. sRequest \in Request /\ chosen \in Engines
        BY <1>1, <3>1, RequestNumbers DEF SenderWrite, Goto, SenderCarries
      <4>2. pipe'[e] = pipe[e] \/ pipe'[e] = Append(pipe[e], sRequest)
        BY <1>2, <3>1 DEF SenderWrite
      <4>3. ToSet(Append(pipe[e], sRequest)) = ToSet(pipe[e]) \cup {sRequest}
        BY <1>2, <4>1, AppendToSet
      <4>4. id \in ToSet(pipe'[e])
        BY <2>6, <4>2, <4>3
      <4> QED
        BY <4>4 DEF Somewhere
    <3>2. ASSUME NEW f \in Engines, EngineRead(f)
          PROVE  Somewhere(id)'
      <4>1. CASE f = e
        <5>1. pipe[e] \in Seq(Request) /\ pipe[e] # << >>
          BY <1>2, <3>2, <4>1 DEF EngineRead
        <5>2. pipe'[e] = Tail(pipe[e]) /\ eRequest'[e] = Head(pipe[e])
          BY <1>2, <3>2, <4>1 DEF EngineRead
        <5>3. id \in ToSet(pipe'[e]) \/ id = eRequest'[e]
          BY <2>6, <5>1, <5>2, Ends
        <5> QED
          BY <5>3 DEF Somewhere
      <4>2. CASE f # e
        <5>1. pipe'[e] = pipe[e]
          BY <1>2, <3>2, <4>2 DEF EngineRead
        <5> QED
          BY <2>6, <5>1 DEF Somewhere
      <4> QED
        BY <4>1, <4>2
    <3>3. CASE pipe' = pipe
      BY <2>6, <3>3 DEF Somewhere
    <3> QED
      BY <3>1, <3>2, <3>3, Writers
  <2>7. ASSUME NEW e \in Engines, id = eRequest[e]
        PROVE  Somewhere(id)'
    <3>1. ASSUME NEW f \in Engines, EngineRead(f)
          PROVE  eRequest'[e] = eRequest[e]
      <4>1. f # e
        BY <1>1, <2>0, <2>7, <3>1 DEF EngineRead, Goto, EnginesCarry
      <4> QED
        BY <1>2, <3>1, <4>1 DEF EngineRead
    <3>2. ASSUME NEW f \in Engines, EngineFree(f)
          PROVE  eRequest'[e] = eRequest[e] \/ id \in served
      <4>1. f = e => id \in served
        BY <1>1, <2>7, <3>2 DEF EngineFree, Goto, EnginesCarry
      <4>2. f # e => eRequest'[e] = eRequest[e]
        BY <1>2, <3>2 DEF EngineFree
      <4> QED
        BY <4>1, <4>2
    <3>3. eRequest'[e] = eRequest[e] \/ id \in served
      BY <3>1, <3>2, Writers
    <3> QED
      BY <2>1, <2>7, <3>3 DEF Somewhere
  <2> QED
    BY <1>3, <2>2, <2>3, <2>4, <2>5, <2>6, <2>7 DEF Somewhere
<1>4. received' = received \/ (received' = received + 1 /\ rRequest' = received + 1)
  BY Writers DEF Receive
<1>5. \A id \in 1 .. received' : id \in 1 .. received \/ id = rRequest'
  BY <1>2, <1>4
<1> QED
  BY <1>3, <1>5 DEF Ledger, Somewhere

---------------------------------------------------------------------------
\* THE THEOREMS

LEMMA Initially == Init => IInv
<1> SUFFICES ASSUME Init PROVE IInv
  OBVIOUS
<1> DEFINE start(t) == CASE t = "sm"       -> "pause"
                         [] t = "arm"      -> "loop"
                         [] t = "receiver" -> "select"
                         [] t = "sender"   -> "await"
                         [] t \in {"monitor", "child"} -> "outside"
                         [] t \in Regular  -> "idle"
                         [] t \in {"handler", Backup} -> "absent"
<1>1. pc = [t \in Threads |-> start(t)]
  BY DEF Init
<1>2. /\ start("sm") = "pause" /\ start("arm") = "loop" /\ start("receiver") = "select"
      /\ start("sender") = "await" /\ start("monitor") = "outside"
      /\ start("child") = "outside" /\ start("handler") = "absent"
      /\ start(Backup) = "absent"
      /\ \A e \in Regular : start(e) = "idle"
  BY ShutdownAssumption DEF Singles, Backup
<1> HIDE DEF start
<1>3. /\ DOMAIN pc = Threads
      /\ pc["sm"] = "pause" /\ pc["arm"] = "loop" /\ pc["receiver"] = "select"
      /\ pc["sender"] = "await" /\ pc["monitor"] = "outside"
      /\ pc["child"] = "outside" /\ pc["handler"] = "absent"
      /\ pc[Backup] = "absent"
      /\ \A e \in Regular : pc[e] = "idle"
  BY <1>1, <1>2, Apart DEF Singles, Engines
<1>4. Places
  BY <1>3 DEF Places, SmPcs, ArmPcs, HandlerPcs, ReceiverPcs, SenderPcs, EnginePcs, Engines
<1>5. Locks
  BY DEF Init, Locks, LocksInUse
<1>6. /\ enginesAvailable \in [Engines -> {0, 1}] /\ closed \in [Engines -> BOOLEAN]
      /\ pipe \in [Engines -> Seq(Request)] /\ eRequest \in [Engines -> MaybeOne]
      /\ \A e \in Engines : pipe[e] = << >> /\ eRequest[e] = NoRequest
      /\ enginesAvailable[Backup] = 0
  <2>1. pipe = [e \in Engines |-> << >>] /\ << >> \in Seq(Request)
    BY DEF Init
  <2>2. eRequest = [e \in Engines |-> NoRequest] /\ NoRequest \in MaybeOne
    BY DEF Init, MaybeOne
  <2>3. enginesAvailable = [e \in Engines |-> IF e \in Regular THEN 1 ELSE 0]
        /\ closed = [e \in Engines |-> FALSE]
    BY DEF Init
  <2>4. Backup \in Engines /\ Backup \notin Regular
    BY ShutdownAssumption, Apart
  <2> QED
    BY <2>1, <2>2, <2>3, <2>4
<1>7. Flags
  BY <1>6 DEF Init, Flags
<1>8. Carried
  <2>1. /\ received = 0 /\ queue = << >> /\ rRequest = NoRequest /\ sRequest = NoRequest
        /\ chosen = Nobody /\ served = {} /\ dropped = {}
    BY DEF Init
  <2>2. /\ 0 \in 0 .. MaxRequests /\ queue \in Seq(Request) /\ Len(queue) <= QUEUE_POS
        /\ NoRequest \in MaybeOne
    BY <2>1, ShutdownAssumption DEF MaybeOne
  <2>3. \A e \in Engines : pc[e] \in {"idle", "absent"}
    BY <1>3 DEF Engines
  <2> QED
    BY <1>3, <1>6, <2>1, <2>2, <2>3 DEF Carried
<1>9. BackupKnown
  <2>1. chosen # Backup /\ Backup \in Engines
    BY Apart DEF Init
  <2> QED
    BY <1>3, <1>6, <2>1 DEF Init, BackupKnown
<1>10. Ledger
  BY DEF Init, Ledger
<1>11. Ending
  BY <1>3 DEF Init, Ending
<1> QED
  BY <1>4, <1>5, <1>7, <1>8, <1>9, <1>10, <1>11 DEF IInv

\* The places of the threads, their locks, the requests in their hands and what has ended
\* are preserved together by every step, the signals and the cancellations included.
THEOREM Inductive == Spec => []IInv
<1>1. IInv /\ [Next]_vars => IInv'
  <2> SUFFICES ASSUME IInv, [Next]_vars PROVE IInv'
    OBVIOUS
  <2>1. Places /\ Locks /\ Flags /\ Carried /\ BackupKnown /\ Ledger /\ Ending
    BY DEF IInv
  <2>2. Places' /\ Locks'
    BY <2>1, PlacesStep, LocksStep
  <2>3. Flags'
    BY <2>1, FlagsStep
  <2>4. Carried'
    <3>1. ReceiverCarries' /\ QueueCarries' /\ SenderCarries' /\ EnginesCarry'
      BY <2>1, CarriedParts, ReceiverCarriesStep, QueueCarriesStep, SenderCarriesStep,
         EnginesCarryStep
    <3>2. ReceiverCarries' /\ QueueCarries' /\ SenderCarries' /\ EnginesCarry' => Carried'
      BY CarriedParts, PTL
    <3> QED
      BY <3>1, <3>2
  <2>5. BackupKnown'
    BY <2>1, BackupKnownStep
  <2>6. Ledger'
    BY <2>1, LedgerStep
  <2>7. Ending'
    BY <2>1, EndingStep
  <2> QED
    BY <2>2, <2>3, <2>4, <2>5, <2>6, <2>7 DEF IInv
<1> QED
  BY Initially, <1>1, PTL DEF Spec

\* Every variable keeps its type; a thread has a request in hand exactly where the code has
\* one, and a lock is held only inside its critical section or by a thread
\* that ended in it.
THEOREM TypeCorrect == Spec => []TypeOK
<1>1. IInv => TypeOK
  <2> SUFFICES ASSUME IInv PROVE TypeOK
    OBVIOUS
  <2>1. /\ shmHolder \in Threads \cup {Nobody} /\ logHolder \in Threads \cup {Nobody}
        /\ queueHolder \in Threads \cup {Nobody} /\ sentHolder \in Threads \cup {Nobody}
        /\ LocksInUse
    BY Apart DEF IInv, Locks, Singles
  <2>2. Places /\ Flags /\ Carried
    BY DEF IInv
  <2> QED
    BY <2>1, <2>2 DEF TypeOK, Places, Flags, Carried
<1> QED
  BY Inductive, <1>1, PTL

\* handle_signal(): what the platform had read from the named pipes is accounted for when
\* the ARM has ended, and no engine it knows stops in the middle of a request.
THEOREM RequestsAccountedFor == Spec => []AccountedFor
<1>1. IInv => AccountedFor
  <2> SUFFICES ASSUME IInv, pc["handler"] = "ended"
               PROVE  /\ \A id \in 1 .. received :
                            \/ id \in served \cup dropped \cup ToSet(queue) \cup {rRequest, sRequest}
                            \/ \E e \in Engines : id \in ToSet(pipe[e])
                      /\ \A e \in Recorded : eRequest[e] = NoRequest
    BY DEF AccountedFor
  <2>1. \A e \in Engines :
            eRequest[e] # NoRequest <=> pc[e] \in {"busy", "serve", "logDone", "free"}
    BY DEF IInv, Carried
  <2>2. \A e \in Recorded : pc[e] = "ended" /\ e \in Engines
    BY Apart DEF IInv, Ending, Recorded, Engines
  <2>3. \A e \in Recorded : eRequest[e] = NoRequest
    BY <2>1, <2>2
  <2>4. \A e \in Engines : eRequest[e] = NoRequest
    <3>1. backupPid \in {0, 1} /\ (backupPid = 0 => eRequest[Backup] = NoRequest)
      BY DEF IInv, Flags, BackupKnown
    <3> QED
      BY <2>3, <3>1 DEF Recorded, Engines
  <2>5. \A id \in 1 .. received : id # NoRequest /\ Somewhere(id)
    BY DEF IInv, Ledger, NoRequest
  <2> QED
    BY <2>3, <2>4, <2>5 DEF Somewhere
<1> QED
  BY Inductive, <1>1, PTL

\* sm_sigint_handler(): when the System Manager has ended, the ARM, its threads, the Monitor
\* Engine and every engine whose pid the ARM has stored have ended before it.
THEOREM LeavesNothingBehind == Spec => []NothingBehind
<1>1. IInv => NothingBehind
  BY DEF IInv, Ending, NothingBehind
<1> QED
  BY Inductive, <1>1, PTL

===========================================================================
