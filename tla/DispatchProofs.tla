-------------------------- MODULE DispatchProofs --------------------------
(***************************************************************************)
(* Theorems about module Dispatch, for every number of engines, every      *)
(* queue capacity and every bound on arrivals.  The inductive invariant is *)
(* the conjunction of the invariants that MCDispatch.cfg checks, but for   *)
(* the bookkeeping of requests, which RequestProofs adds on top of it.     *)
(***************************************************************************)
EXTENDS Dispatch, TLAPS

IInv == TypeOK /\ ShmExclusion /\ BusyFlagHonest /\ BackupConsistent /\ NoStaleChoice

USE DEF Engines, Backup

---------------------------------------------------------------------------
\* THE QUEUE OPERATORS

LEMMA NoRequestIsNone == NoRequest \notin Request
BY DEF NoRequest, Request

LEMMA ElementsType ==
    ASSUME NEW queue \in Seq(Request)
    PROVE  Elements(queue) \subseteq Request
BY DEF Elements

\* drop() returns a request or NoRequest, and leaves a queue of requests.
LEMMA DropType ==
    ASSUME NEW queue \in Seq(Request), NEW l
    PROVE  /\ Kept(queue, l) \in Seq(Request)
           /\ AfterDrop(queue, l) \in Seq(Request)
           /\ Dropped(queue, l) \in Request \cup {NoRequest}
<1>1. Kept(queue, l) \in {<< >>, queue}
  BY DEF Kept
<1>2. CASE Kept(queue, l) = << >>
  BY <1>2 DEF AfterDrop, Dropped, IsEmpty
<1>3. CASE Kept(queue, l) = queue /\ queue # << >>
  <2>1. Head(queue) \in Request /\ Tail(queue) \in Seq(Request)
    BY <1>3
  <2> QED
    BY <1>3, <2>1 DEF AfterDrop, Dropped, IsEmpty
<1> QED
  BY <1>1, <1>2, <1>3

---------------------------------------------------------------------------
\* TYPES

LEMMA TypeInit == Init => TypeOK
BY ConfigAssumption
DEF Init, TypeOK, ReceiverPcs, SenderPcs, ArmPcs, EnginePcs

\* Every step of the Receiver keeps the types.
LEMMA ReceiverType == TypeOK /\ Receiver => TypeOK'
<1> SUFFICES ASSUME TypeOK, Receiver PROVE TypeOK'
  OBVIOUS
<1> USE ConfigAssumption DEF TypeOK, ReceiverPcs, SenderPcs, ArmPcs, EnginePcs
<1>1. ASSUME NEW kind \in Arrivals, Receive(kind) PROVE TypeOK'
  BY <1>1 DEF Receive, Request, Kinds, queueVars, fullFlags, senderVars, armVars, engineVars,
              shmVars, historyVars
<1>2. CASE ReceiverInsert
  <2>1. rRequest \in Request
    BY <1>2 DEF ReceiverInsert
  <2>2. /\ Append(videoQueue, rRequest) \in Seq(Request)
        /\ Append(othersQueue, rRequest) \in Seq(Request)
    BY <2>1
  <2>3. /\ videoQueue' \in Seq(Request) /\ othersQueue' \in Seq(Request)
        /\ lost' \subseteq Request
    BY <1>2, <2>1, <2>2 DEF ReceiverInsert
  <2>4. /\ rPc' = "signal" /\ rRequest' = NoRequest
        /\ UNCHANGED <<received, late, sentRequest, fullFlags, senderVars, armVars,
                       engineVars, shmVars, served>>
    BY <1>2 DEF ReceiverInsert
  <2> QED
    BY <2>3, <2>4
    DEF fullFlags, senderVars, armVars, engineVars, shmVars
<1>3. CASE ReceiverSignal
  BY <1>3 DEF ReceiverSignal, queueVars, fullFlags, senderVars, armVars, engineVars,
              shmVars, historyVars
<1> QED
  BY <1>1, <1>2, <1>3 DEF Receiver

\* Every step of the Sender keeps the types: it posts shm_sem only when it is 0.
LEMMA SenderType == TypeOK /\ ShmExclusion /\ Sender => TypeOK'
<1> SUFFICES ASSUME TypeOK, ShmExclusion, Sender PROVE TypeOK'
  OBVIOUS
<1> USE ConfigAssumption
    DEF TypeOK, ReceiverPcs, SenderPcs, ArmPcs, EnginePcs, receiverVars, queueVars,
        fullFlags, senderVars, armVars, engineVars, shmVars, historyVars
<1>1. CASE SenderAwake
  BY <1>1 DEF SenderAwake
<1>2. CASE SenderFindEngine
  <2>1. shmSem' = 1 /\ availableEngine' \in Engines /\ sPc' = "checkFull"
    BY <1>2 DEF SenderFindEngine, ShmExclusion, SenderInside
  <2> QED
    BY <1>2, <2>1 DEF SenderFindEngine
<1>3. CASE SenderCheckFull
  BY <1>3 DEF SenderCheckFull
<1>4. CASE SenderReportFull
  BY <1>4 DEF SenderReportFull
<1>5. CASE SenderTryVideo
  <2>1. Elements(videoQueue) \subseteq Request
    BY ElementsType
  <2>2. /\ AfterDrop(videoQueue, late) \in Seq(Request)
        /\ Dropped(videoQueue, late) \in Request \cup {NoRequest}
    BY DropType
  <2> QED
    BY <1>5, <2>1, <2>2 DEF SenderTryVideo, TakeFrom
<1>6. CASE SenderTryOthers
  <2>1. Elements(othersQueue) \subseteq Request
    BY ElementsType
  <2>2. /\ AfterDrop(othersQueue, late) \in Seq(Request)
        /\ Dropped(othersQueue, late) \in Request \cup {NoRequest}
    BY DropType
  <2> QED
    BY <1>6, <2>1, <2>2 DEF SenderTryOthers, TakeFrom
<1>7. CASE SenderCheckHalf
  BY <1>7 DEF SenderCheckHalf
<1>8. CASE SenderCheckNotified
  BY <1>8 DEF SenderCheckNotified
<1>9. CASE SenderReportHalf
  BY <1>9 DEF SenderReportHalf
<1>10. CASE SenderWrite
  <2>1. request \in Request /\ availableEngine \in Engines
    BY <1>10 DEF SenderWrite
  <2>2. Append(pipe[availableEngine], request) \in Seq(Request)
    BY <2>1
  <2>3. pipe' \in [Engines -> Seq(Request)] /\ lost' \subseteq Request
    BY <1>10, <2>1, <2>2 DEF SenderWrite
  <2>4. /\ request' = NoRequest /\ sPc' \in {"reset", "quit"}
        /\ UNCHANGED <<receiverVars, queueVars, sentRequest, fullFlags, availableEngine,
                       armVars, ePc, eRequest, shmVars, served>>
    BY <1>10 DEF SenderWrite
  <2> QED
    BY <2>1, <2>3, <2>4
<1>11. CASE SenderReset
  BY <1>11 DEF SenderReset
<1> QED
  BY <1>1, <1>2, <1>3, <1>4, <1>5, <1>6, <1>7, <1>8, <1>9, <1>10, <1>11 DEF Sender

\* Every step of the ARM keeps the types.
LEMMA ArmType == TypeOK /\ Arm => TypeOK'
<1> SUFFICES ASSUME TypeOK, Arm PROVE TypeOK'
  OBVIOUS
<1> USE ConfigAssumption
    DEF TypeOK, ReceiverPcs, SenderPcs, ArmPcs, EnginePcs, ArmGoto, receiverVars,
        queueVars, fullFlags, senderVars, armVars, engineVars, shmVars, historyVars
<1>1. CASE ArmSeeFull
  BY <1>1 DEF ArmSeeFull
<1>2. CASE ArmForkBackup
  BY <1>2 DEF ArmForkBackup
<1>3. CASE ArmMarkBackup
  BY <1>3 DEF ArmMarkBackup, ArmSetBackupFlag
<1>4. CASE ArmClearFull
  BY <1>4 DEF ArmClearFull
<1>5. CASE ArmCheckFull
  BY <1>5 DEF ArmCheckFull
<1>6. CASE ArmCheckHalf
  BY <1>6 DEF ArmCheckHalf
<1>7. CASE ArmClosePipe
  BY <1>7 DEF ArmClosePipe
<1>8. CASE ArmKillBackup
  <2>1. Elements(pipe[Backup]) \subseteq Request
    BY ElementsType
  <2> QED
    BY <1>8, <2>1 DEF ArmKillBackup
<1>9. CASE ArmKillGroup
  <2>1. Pending \subseteq Request \cup {NoRequest}
    <3>1. /\ Elements(videoQueue) \subseteq Request
          /\ Elements(othersQueue) \subseteq Request
          /\ \A e \in Engines : Elements(pipe[e]) \subseteq Request
      BY ElementsType
    <3> QED
      BY <3>1 DEF Pending
  <2> QED
    BY <1>9, <2>1 DEF ArmKillGroup
<1>10. CASE ArmUnmarkBackup
  BY <1>10 DEF ArmUnmarkBackup, ArmSetBackupFlag
<1>11. CASE ArmResetHalf
  BY <1>11 DEF ArmResetHalf
<1>12. CASE ArmResetFull
  BY <1>12 DEF ArmResetFull
<1>13. CASE ArmResetNotified
  BY <1>13 DEF ArmResetNotified
<1> QED
  BY <1>1, <1>2, <1>3, <1>4, <1>5, <1>6, <1>7, <1>8, <1>9, <1>10, <1>11, <1>12, <1>13
  DEF Arm

\* Every step of an engine keeps the types: it posts shm_sem only when it is 0.
LEMMA EngineType ==
    ASSUME TypeOK, ShmExclusion, NEW e \in Engines, Engine(e)
    PROVE  TypeOK'
<1> USE ConfigAssumption
    DEF TypeOK, ReceiverPcs, SenderPcs, ArmPcs, EnginePcs, EngineGoto, receiverVars,
        queueVars, fullFlags, senderVars, armVars, engineVars, shmVars, historyVars
<1>0. CASE EngineReady(e)
  BY <1>0 DEF EngineReady
<1>1. CASE EngineRead(e)
  <2>1. Head(pipe[e]) \in Request /\ Tail(pipe[e]) \in Seq(Request)
    BY <1>1 DEF EngineRead
  <2> QED
    BY <1>1, <2>1 DEF EngineRead
<1>2. CASE EngineAcquire(e)
  <2>1. shmSem' \in {0, 1}
    BY <1>2 DEF EngineAcquire
  <2>2. ePc[e] \in {"mark", "serve", "free"} /\ eRequest[e] \in Request
    BY <1>2 DEF EngineAcquire
  <2>3. \E to \in {"marking", "serving", "freeing"} : ePc' = [ePc EXCEPT ![e] = to]
    BY <1>2 DEF EngineAcquire
  <2>4. ePc' \in [Engines -> EnginePcs]
    BY <2>3
  <2>5. eRequest' = eRequest
    BY <1>2 DEF EngineAcquire
  <2>6. ASSUME NEW f \in Engines, ePc'[f] \notin {"absent", "ready", "idle"}
        PROVE  eRequest'[f] \in Request
    BY <2>2, <2>3, <2>5, <2>6
  <2> QED
    BY <1>2, <2>1, <2>4, <2>5, <2>6 DEF EngineAcquire
<1>3. CASE EngineMark(e)
  BY <1>3 DEF EngineMark, ShmExclusion, EngineInside
<1>4. CASE EngineServe(e)
  <2>1. shmSem' \in {0, 1}
    BY <1>4 DEF EngineServe, ShmExclusion, EngineInside
  <2>2. eRequest[e] \in Request
    BY <1>4 DEF EngineServe
  <2>3. served' \subseteq Request
    BY <1>4, <2>2 DEF EngineServe
  <2>4. /\ ePc' = [ePc EXCEPT ![e] = "free"]
        /\ UNCHANGED <<receiverVars, queueVars, sentRequest, fullFlags, senderVars,
                       armVars, eRequest, pipe, enginesAvailable, logSem, lost>>
    BY <1>4 DEF EngineServe
  <2> QED
    BY <2>1, <2>2, <2>3, <2>4
<1>5. CASE EngineFree(e)
  <2>1. shmSem' \in {0, 1}
    BY <1>5 DEF EngineFree, ShmExclusion, EngineInside
  <2>2. /\ ePc' = [ePc EXCEPT ![e] = "idle"]
        /\ eRequest' = [eRequest EXCEPT ![e] = NoRequest]
        /\ enginesAvailable' = [enginesAvailable EXCEPT ![e] = 1]
        /\ UNCHANGED <<receiverVars, queueVars, sentRequest, fullFlags, senderVars,
                       armVars, pipe, logSem, historyVars>>
    BY <1>5 DEF EngineFree
  <2>3. /\ ePc' \in [Engines -> EnginePcs]
        /\ eRequest' \in [Engines -> Request \cup {NoRequest}]
        /\ enginesAvailable' \in [Engines -> {0, 1}]
        /\ \A f \in Engines :
              ePc'[f] \notin {"absent", "ready", "idle"} => eRequest'[f] \in Request
    BY <2>2
  <2> QED
    BY <2>1, <2>2, <2>3
<1> QED
  BY <1>0, <1>1, <1>2, <1>3, <1>4, <1>5 DEF Engine

LEMMA TypeStep == TypeOK /\ ShmExclusion /\ [Next]_vars => TypeOK'
<1> SUFFICES ASSUME TypeOK, ShmExclusion, [Next]_vars PROVE TypeOK'
  OBVIOUS
<1>1. CASE Tick
  <2> USE ConfigAssumption DEF TypeOK
  <2>1. late' \subseteq Request
    BY <1>1 DEF Tick, Expire
  <2> QED
    BY <1>1, <2>1
    DEF Tick, receiverVars, fullFlags, senderVars, armVars, engineVars, shmVars, historyVars
<1>2. CASE UNCHANGED vars
  BY <1>2 DEF TypeOK, vars, receiverVars, queueVars, fullFlags, senderVars, armVars,
              engineVars, shmVars, historyVars
<1> QED
  BY <1>1, <1>2, ReceiverType, SenderType, ArmType, EngineType DEF Next

---------------------------------------------------------------------------
\* MUTUAL EXCLUSION ON shm_sem

InsidePcs == {"marking", "serving", "freeing"}

\* A step that moves nobody across the border of a critical section, and does not
\* take the ARM away from its wait for an orphaned semaphore, keeps ShmExclusion.
LEMMA ShmFrame ==
    ASSUME ShmExclusion, shmSem' = shmSem, sPc' = "search" <=> sPc = "search",
           \A e \in Engines : ePc'[e] \in InsidePcs <=> ePc[e] \in InsidePcs,
           shmSem = 0 /\ aPc \in {"unmarkBackup", "groupKilled"} => aPc' = aPc
    PROVE  ShmExclusion'
<1>1. shmSem' = 0 /\ NobodyInside' => aPc' \in {"unmarkBackup", "groupKilled"}
  BY DEF ShmExclusion, NobodyInside, SenderInside, EngineInside, InsidePcs
<1> QED
  BY <1>1 DEF ShmExclusion, SenderInside, EngineInside, InsidePcs

\* The common case of a step by which neither shm_sem nor a program counter of its
\* users changes.
LEMMA ShmSame ==
    ASSUME ShmExclusion, shmSem' = shmSem, sPc' = sPc, ePc' = ePc, aPc' = aPc
    PROVE  ShmExclusion'
BY ShmFrame

LEMMA ShmStep == IInv /\ [Next]_vars => ShmExclusion'
<1> SUFFICES ASSUME IInv, [Next]_vars PROVE ShmExclusion'
  OBVIOUS
<1> USE ConfigAssumption
    DEF IInv, receiverVars, queueVars, fullFlags, senderVars, armVars, engineVars, shmVars,
        historyVars
<1>1. CASE Receiver
  <2>1. shmSem' = shmSem /\ sPc' = sPc /\ ePc' = ePc /\ aPc' = aPc
    BY <1>1 DEF Receiver, Receive, ReceiverInsert, ReceiverSignal
  <2> QED
    BY <2>1, ShmSame
<1>2. CASE SenderAwake
  <2>1. shmSem = 1 /\ shmSem' = 0 /\ SenderInside' /\ ePc' = ePc
    BY <1>2 DEF SenderAwake, TypeOK, SenderInside
  <2>2. \A e \in Engines : ~EngineInside(e)'
    BY <2>1 DEF ShmExclusion, EngineInside
  <2> QED
    BY <2>1, <2>2 DEF ShmExclusion, NobodyInside
<1>3. CASE SenderFindEngine
  <2>1. shmSem' = 1 /\ ~SenderInside' /\ ePc' = ePc
    BY <1>3 DEF SenderFindEngine, ShmExclusion, SenderInside
  <2>2. \A e \in Engines : ~EngineInside(e)'
    BY <1>3, <2>1 DEF SenderFindEngine, ShmExclusion, EngineInside, SenderInside
  <2> QED
    BY <2>1, <2>2 DEF ShmExclusion
<1>4. CASE Sender /\ ~SenderAwake /\ ~SenderFindEngine
  <2> DEFINE Outside == /\ shmSem' = shmSem /\ ePc' = ePc /\ aPc' = aPc
                        /\ sPc # "search" /\ sPc' # "search"
  <2>1. Outside
    <3>1. CASE SenderTryVideo \/ SenderTryOthers
      BY <3>1 DEF SenderTryVideo, SenderTryOthers, TakeFrom
    <3>2. CASE SenderCheckFull \/ SenderReportFull \/ SenderCheckHalf
               \/ SenderCheckNotified \/ SenderReportHalf
      BY <3>2 DEF SenderCheckFull, SenderReportFull, SenderCheckHalf,
                  SenderCheckNotified, SenderReportHalf
    <3>3. CASE SenderWrite \/ SenderReset
      BY <3>3 DEF SenderWrite, SenderReset
    <3> QED
      BY <1>4, <3>1, <3>2, <3>3 DEF Sender
  <2> QED
    BY <2>1, ShmFrame
<1>5. CASE Arm
  <2> USE DEF ArmGoto, SenderInside, EngineInside, InsidePcs
  <2>1. CASE ArmMarkBackup \/ ArmUnmarkBackup
    <3>1. shmSem = 1 /\ shmSem' = shmSem /\ ePc' = ePc /\ sPc' = sPc
      BY <2>1 DEF ArmMarkBackup, ArmUnmarkBackup, ArmSetBackupFlag, TypeOK
    <3> QED
      BY <3>1, ShmFrame
  <2>2. CASE ArmForkBackup
    <3>1. ePc[Backup] = "absent" /\ ePc' = [ePc EXCEPT ![Backup] = "ready"]
      BY <2>2 DEF ArmForkBackup, BackupConsistent, TypeOK
    <3>2. shmSem' = shmSem /\ sPc' = sPc /\ aPc = "fork"
      BY <2>2 DEF ArmForkBackup
    <3> QED
      BY <3>1, <3>2, ShmFrame DEF TypeOK
  <2>3. CASE ArmKillBackup
    <3>1. /\ aPc' = "unmarkBackup" /\ shmSem' = shmSem /\ sPc' = sPc
          /\ ePc' = [ePc EXCEPT ![Backup] = "absent"]
      BY <2>3 DEF ArmKillBackup
    <3>2. \A e \in Engines : EngineInside(e)' => EngineInside(e)
      BY <3>1 DEF TypeOK
    <3> QED
      BY <3>1, <3>2 DEF ShmExclusion
  <2>4. CASE ArmKillGroup
    <3>1. aPc' = "groupKilled" /\ sPc' = "killed" /\ \A e \in Engines : ePc'[e] = "absent"
      BY <2>4 DEF ArmKillGroup
    <3> QED
      BY <3>1 DEF ShmExclusion
  <2>5. CASE \/ ArmSeeFull \/ ArmClearFull \/ ArmCheckFull \/ ArmCheckHalf \/ ArmClosePipe
             \/ ArmResetHalf \/ ArmResetFull \/ ArmResetNotified
    <3>1. /\ shmSem' = shmSem /\ ePc' = ePc /\ sPc' = sPc
          /\ aPc # "unmarkBackup" /\ aPc # "groupKilled"
      BY <2>5 DEF ArmSeeFull, ArmClearFull, ArmCheckFull, ArmCheckHalf, ArmClosePipe,
                  ArmResetHalf, ArmResetFull, ArmResetNotified
    <3> QED
      BY <3>1, ShmFrame
  <2> QED
    BY <1>5, <2>1, <2>2, <2>3, <2>4, <2>5 DEF Arm
<1>6. ASSUME NEW e \in Engines, Engine(e) PROVE ShmExclusion'
  <2> USE DEF EngineGoto, EngineInside, SenderInside
  <2>1. sPc' = sPc /\ aPc' = aPc
    BY <1>6 DEF Engine, EngineReady, EngineRead, EngineAcquire, EngineMark, EngineServe,
                EngineFree
  <2>2. \E to \in EnginePcs : ePc' = [ePc EXCEPT ![e] = to]
    BY <1>6 DEF Engine, EngineReady, EngineRead, EngineAcquire, EngineMark, EngineServe,
                EngineFree,
                EnginePcs
  <2>3. CASE EngineReady(e) \/ EngineRead(e)
    <3>1. /\ ePc[e] \in {"ready", "idle"} /\ ePc'[e] \in {"idle", "mark"}
          /\ shmSem' = shmSem
      BY <2>2, <2>3 DEF EngineReady, EngineRead, TypeOK
    <3>2. \A f \in Engines : ePc'[f] \in InsidePcs <=> ePc[f] \in InsidePcs
      BY <2>2, <3>1 DEF TypeOK, InsidePcs
    <3> QED
      BY <2>1, <3>1, <3>2, ShmFrame
  <2>4. CASE EngineAcquire(e)
    <3>1. shmSem = 1 /\ shmSem' = 0 /\ EngineInside(e)'
      BY <2>2, <2>4 DEF EngineAcquire, TypeOK
    <3>2. ~SenderInside /\ \A f \in Engines : ~EngineInside(f)
      BY <3>1 DEF ShmExclusion
    <3>3. ~SenderInside' /\ \A f \in Engines : EngineInside(f)' => f = e
      BY <2>1, <2>2, <3>2 DEF TypeOK
    <3> QED
      BY <3>1, <3>3 DEF ShmExclusion, NobodyInside
  <2>5. CASE EngineMark(e) \/ EngineServe(e) \/ EngineFree(e)
    <3>1. EngineInside(e) /\ ~EngineInside(e)' /\ shmSem' = shmSem + 1
      BY <2>2, <2>5 DEF EngineMark, EngineServe, EngineFree, TypeOK
    <3>2. shmSem' = 1 /\ ~SenderInside /\ \A f \in Engines : EngineInside(f) => f = e
      BY <3>1 DEF ShmExclusion
    <3>3. ~SenderInside' /\ \A f \in Engines : ~EngineInside(f)'
      BY <2>1, <2>2, <3>1, <3>2 DEF TypeOK
    <3> QED
      BY <3>2, <3>3 DEF ShmExclusion
  <2> QED
    BY <1>6, <2>3, <2>4, <2>5 DEF Engine
<1>7. CASE Tick \/ UNCHANGED vars
  <2>1. shmSem' = shmSem /\ sPc' = sPc /\ ePc' = ePc /\ aPc' = aPc
    BY <1>7 DEF Tick, vars
  <2> QED
    BY <2>1, ShmSame
<1> QED
  BY <1>1, <1>2, <1>3, <1>4, <1>5, <1>6, <1>7 DEF Next, Sender

---------------------------------------------------------------------------
\* THE BACKUP ENGINE

\* Only the ARM and the engines move the ARM, the engines and their flags.
LEMMA FrontFrame ==
    ASSUME Receiver \/ Sender \/ Tick \/ UNCHANGED vars
    PROVE  UNCHANGED <<aPc, backupPid, backupPipeOpen, isArmNotified, ePc, enginesAvailable>>
<1> USE DEF fullFlags, armVars, engineVars, shmVars
<1>1. CASE Receiver \/ Tick \/ UNCHANGED vars
  BY <1>1 DEF Receiver, Receive, ReceiverInsert, ReceiverSignal, Tick, vars
<1>2. CASE SenderAwake \/ SenderFindEngine \/ SenderCheckFull \/ SenderReportFull
  BY <1>2 DEF SenderAwake, SenderFindEngine, SenderCheckFull, SenderReportFull
<1>3. CASE SenderTryVideo \/ SenderTryOthers
  BY <1>3 DEF SenderTryVideo, SenderTryOthers
<1>4. CASE SenderCheckHalf \/ SenderCheckNotified \/ SenderReportHalf
  BY <1>4 DEF SenderCheckHalf, SenderCheckNotified, SenderReportHalf
<1>5. CASE SenderWrite \/ SenderReset
  BY <1>5 DEF SenderWrite, SenderReset
<1> QED
  BY <1>1, <1>2, <1>3, <1>4, <1>5 DEF Sender

LEMMA BackupStep == IInv /\ [Next]_vars => BackupConsistent'
<1> SUFFICES ASSUME IInv, [Next]_vars PROVE BackupConsistent'
  OBVIOUS
<1> USE ConfigAssumption
    DEF IInv, receiverVars, queueVars, fullFlags, senderVars, armVars, engineVars, shmVars,
        historyVars, Creating, Removing, Gone
<1>1. CASE Receiver \/ Sender \/ Tick \/ UNCHANGED vars
  BY <1>1, FrontFrame DEF BackupConsistent
<1>2. CASE Arm
  <2> USE DEF ArmGoto, BackupConsistent
  <2>1. CASE ArmSeeFull
    BY <2>1 DEF ArmSeeFull, TypeOK
  <2>2. CASE ArmForkBackup
    BY <2>2 DEF ArmForkBackup, TypeOK
  <2>3. CASE ArmMarkBackup
    BY <2>3 DEF ArmMarkBackup, ArmSetBackupFlag
  <2>4. CASE ArmClearFull \/ ArmCheckFull \/ ArmCheckHalf \/ ArmClosePipe
    BY <2>4 DEF ArmClearFull, ArmCheckFull, ArmCheckHalf, ArmClosePipe
  <2>5. CASE ArmKillBackup
    BY <2>5 DEF ArmKillBackup, TypeOK
  <2>6. CASE ArmKillGroup
    BY <2>6 DEF ArmKillGroup, TypeOK
  <2>7. CASE ArmUnmarkBackup
    BY <2>7 DEF ArmUnmarkBackup, ArmSetBackupFlag
  <2>8. CASE ArmResetHalf \/ ArmResetFull \/ ArmResetNotified
    BY <2>8 DEF ArmResetHalf, ArmResetFull, ArmResetNotified
  <2> QED
    BY <1>2, <2>1, <2>2, <2>3, <2>4, <2>5, <2>6, <2>7, <2>8 DEF Arm
<1>3. ASSUME NEW e \in Engines, Engine(e) PROVE BackupConsistent'
  <2>1. UNCHANGED <<aPc, backupPid, backupPipeOpen, isArmNotified>>
    BY <1>3 DEF Engine, EngineReady, EngineRead, EngineAcquire, EngineMark, EngineServe,
                EngineFree
  <2>2. /\ ePc[e] # "absent"
        /\ \E to \in EnginePcs \ {"absent"} : ePc' = [ePc EXCEPT ![e] = to]
    BY <1>3 DEF Engine, EngineReady, EngineRead, EngineAcquire, EngineMark, EngineServe,
                EngineFree,
                EngineGoto, EnginePcs
  <2>3. ePc'[Backup] # "absent" <=> ePc[Backup] # "absent"
    BY <2>2 DEF TypeOK
  <2> QED
    BY <2>1, <2>3 DEF BackupConsistent
<1> QED
  BY <1>1, <1>2, <1>3 DEF Next

LEMMA NoStaleStep == IInv /\ [Next]_vars => NoStaleChoice'
<1> SUFFICES ASSUME IInv, [Next]_vars PROVE NoStaleChoice'
  OBVIOUS
<1> USE ConfigAssumption
    DEF IInv, receiverVars, queueVars, fullFlags, senderVars, armVars, engineVars, shmVars,
        historyVars, NoStaleChoice, BackupChosen
<1>1. CASE Receiver \/ Tick \/ UNCHANGED vars
  BY <1>1 DEF Receiver, Receive, ReceiverInsert, ReceiverSignal, Tick, vars
<1>2. CASE Sender
  <2> USE FrontFrame
  \* A choice can only be made of an engine whose flag is 1.
  <2>1. CASE SenderFindEngine
    <3>1. enginesAvailable[availableEngine'] = 1
      BY <2>1 DEF SenderFindEngine
    <3>2. availableEngine' = Backup => backupPid = 1 \/ aPc = "unmarkBackup"
      BY <3>1 DEF BusyFlagHonest, TypeOK
    <3>3. availableEngine' = Backup => aPc \notin Creating
      BY <3>1
    <3>4. UNCHANGED <<aPc, backupPid, enginesAvailable, ePc, pipe>>
      BY <2>1 DEF SenderFindEngine
    <3> QED
      BY <3>2, <3>3, <3>4
  <2>2. CASE SenderAwake \/ SenderReportFull
    BY <2>2 DEF SenderAwake, SenderReportFull
  <2>3. CASE SenderCheckFull
    BY <2>3 DEF SenderCheckFull
  <2>4. CASE SenderTryVideo \/ SenderTryOthers
    BY <2>4 DEF SenderTryVideo, SenderTryOthers, TakeFrom
  <2>5. CASE SenderCheckHalf \/ SenderCheckNotified \/ SenderReportHalf
    BY <2>5 DEF SenderCheckHalf, SenderCheckNotified, SenderReportHalf
  <2>6. CASE SenderWrite
    <3>1. aPc = "markBackup" => availableEngine # Backup
      BY <2>6 DEF SenderWrite, Creating
    <3>2. aPc = "markBackup" => pipe'[Backup] = pipe[Backup]
      BY <2>6, <3>1 DEF SenderWrite, TypeOK
    <3> QED
      BY <2>6, <3>2 DEF SenderWrite
  <2>7. CASE SenderReset
    BY <2>7 DEF SenderReset
  <2> QED
    BY <1>2, <2>1, <2>2, <2>3, <2>4, <2>5, <2>6, <2>7 DEF Sender
<1>3. CASE Arm
  <2> USE DEF ArmGoto, Creating, Removing, Gone
  <2>1. CASE ArmSeeFull
    <3>1. UNCHANGED <<sPc, availableEngine, backupPid, enginesAvailable, isQueueFull>>
      BY <2>1 DEF ArmSeeFull
    <3>2. CASE aPc' = "fork"
      <4>1. isQueueFull = 1 /\ backupPid = 0 /\ aPc = "top"
        BY <2>1, <3>2 DEF ArmSeeFull
      <4>2. ~BackupChosen /\ enginesAvailable[Backup] = 0
        BY <4>1 DEF BusyFlagHonest
      <4> QED
        BY <3>1, <3>2, <4>2
    <3>3. CASE aPc' # "fork"
      BY <2>1, <3>1, <3>3 DEF ArmSeeFull
    <3> QED
      BY <3>2, <3>3
  <2>2. CASE ArmForkBackup
    BY <2>2 DEF ArmForkBackup, TypeOK
  <2>3. CASE ArmMarkBackup
    BY <2>3 DEF ArmMarkBackup, ArmSetBackupFlag, BackupConsistent
  <2>4. CASE ArmClearFull \/ ArmCheckFull \/ ArmCheckHalf \/ ArmClosePipe
    BY <2>4 DEF ArmClearFull, ArmCheckFull, ArmCheckHalf, ArmClosePipe, BackupConsistent
  <2>5. CASE ArmKillBackup
    BY <2>5 DEF ArmKillBackup
  <2>6. CASE ArmKillGroup
    BY <2>6 DEF ArmKillGroup
  <2>7. CASE ArmUnmarkBackup
    BY <2>7 DEF ArmUnmarkBackup, ArmSetBackupFlag
  <2>8. CASE ArmResetHalf \/ ArmResetFull \/ ArmResetNotified
    BY <2>8 DEF ArmResetHalf, ArmResetFull, ArmResetNotified
  <2> QED
    BY <1>3, <2>1, <2>2, <2>3, <2>4, <2>5, <2>6, <2>7, <2>8 DEF Arm
<1>4. ASSUME NEW e \in Engines, Engine(e) PROVE NoStaleChoice'
  <2>1. UNCHANGED <<aPc, backupPid, isQueueFull, sPc, availableEngine>>
    BY <1>4 DEF Engine, EngineReady, EngineRead, EngineAcquire, EngineMark, EngineServe,
                EngineFree
  \* While the new backup engine is being created all it can do is get ready.
  <2>2. aPc = "markBackup" /\ e = Backup =>
           /\ ePc'[Backup] = "idle"
           /\ pipe' = pipe /\ enginesAvailable' = enginesAvailable
    <3> SUFFICES ASSUME aPc = "markBackup", e = Backup
                 PROVE  /\ ePc'[Backup] = "idle"
                        /\ pipe' = pipe /\ enginesAvailable' = enginesAvailable
      OBVIOUS
    <3>1. ePc[e] \in {"ready", "idle"} /\ pipe[e] = << >>
      OBVIOUS
    <3>2. EngineReady(e)
      BY <1>4, <3>1 DEF Engine, EngineRead, EngineAcquire, EngineMark, EngineServe,
                        EngineFree, EngineGoto
    <3> QED
      BY <3>2 DEF EngineReady, EngineGoto, TypeOK
  <2>3. aPc = "fork" => e # Backup
    BY <1>4 DEF Engine, EngineReady, EngineRead, EngineAcquire, EngineMark, EngineServe,
                EngineFree,
                EngineGoto, BackupConsistent, TypeOK
  <2>4. e # Backup => /\ ePc'[Backup] = ePc[Backup] /\ pipe'[Backup] = pipe[Backup]
                      /\ enginesAvailable'[Backup] = enginesAvailable[Backup]
    <3> SUFFICES ASSUME e # Backup
                 PROVE  /\ ePc'[Backup] = ePc[Backup] /\ pipe'[Backup] = pipe[Backup]
                        /\ enginesAvailable'[Backup] = enginesAvailable[Backup]
      OBVIOUS
    <3>1. /\ ePc \in [Engines -> EnginePcs] /\ DOMAIN pipe = Engines
          /\ enginesAvailable \in [Engines -> {0, 1}] /\ Backup \in Engines
      BY DEF TypeOK
    <3>2. \E to \in EnginePcs : ePc' = [ePc EXCEPT ![e] = to]
      BY <1>4 DEF Engine, EngineReady, EngineRead, EngineAcquire, EngineMark, EngineServe,
                EngineFree,
                  EngineGoto, EnginePcs
    <3>3. pipe' = pipe \/ pipe' = [pipe EXCEPT ![e] = Tail(@)]
      BY <1>4 DEF Engine, EngineReady, EngineRead, EngineAcquire, EngineMark, EngineServe,
                EngineFree
    <3>4. \/ enginesAvailable' = enginesAvailable
          \/ \E flag \in {0, 1} : enginesAvailable' = [enginesAvailable EXCEPT ![e] = flag]
      BY <1>4 DEF Engine, EngineReady, EngineRead, EngineAcquire, EngineMark, EngineServe,
                EngineFree
    <3> QED
      BY <3>1, <3>2, <3>3, <3>4
  <2> QED
    BY <2>1, <2>2, <2>3, <2>4 DEF Creating
<1> QED
  BY <1>1, <1>2, <1>3, <1>4 DEF Next

---------------------------------------------------------------------------
\* THE BUSY FLAGS

LEMMA BusyStep == IInv /\ [Next]_vars => BusyFlagHonest'
<1> SUFFICES ASSUME IInv, [Next]_vars PROVE BusyFlagHonest'
  OBVIOUS
<1> USE ConfigAssumption
    DEF IInv, receiverVars, queueVars, fullFlags, senderVars, armVars, engineVars, shmVars,
        historyVars
<1>1. CASE Receiver \/ Sender \/ Tick \/ UNCHANGED vars
  BY <1>1, FrontFrame DEF BusyFlagHonest
<1>2. CASE Arm
  <2> USE DEF ArmGoto, Creating, BusyFlagHonest
  <2>1. CASE ArmSeeFull
    BY <2>1 DEF ArmSeeFull, BackupConsistent, Removing
  <2>2. CASE ArmForkBackup
    BY <2>2 DEF ArmForkBackup, TypeOK
  <2>3. CASE ArmMarkBackup
    <3>1. aPc = "markBackup" /\ aPc' = "clearFull" /\ backupPid' = backupPid /\ ePc' = ePc
      BY <2>3 DEF ArmMarkBackup, ArmSetBackupFlag
    <3>2. enginesAvailable' = [enginesAvailable EXCEPT ![Backup] = 1]
      BY <2>3 DEF ArmMarkBackup, ArmSetBackupFlag
    <3>3. backupPid = 1 /\ ePc[Backup] \in {"ready", "idle"}
      BY <3>1 DEF BackupConsistent, NoStaleChoice
    <3> QED
      BY <3>1, <3>2, <3>3 DEF TypeOK
  <2>4. CASE ArmClearFull \/ ArmCheckFull \/ ArmCheckHalf \/ ArmClosePipe
    BY <2>4 DEF ArmClearFull, ArmCheckFull, ArmCheckHalf, ArmClosePipe
  <2>5. CASE ArmKillBackup
    BY <2>5 DEF ArmKillBackup, TypeOK
  <2>6. CASE ArmKillGroup
    BY <2>6 DEF ArmKillGroup
  <2>7. CASE ArmUnmarkBackup
    <3>1. backupPid = 0 /\ backupPid' = 0 /\ ePc' = ePc /\ aPc' = "resetHalf"
      BY <2>7 DEF ArmUnmarkBackup, ArmSetBackupFlag, BackupConsistent, Gone
    <3>2. enginesAvailable' = [enginesAvailable EXCEPT ![Backup] = 0]
      BY <2>7 DEF ArmUnmarkBackup, ArmSetBackupFlag
    <3> QED
      BY <2>7, <3>1, <3>2 DEF TypeOK, ArmUnmarkBackup, ArmSetBackupFlag
  <2>8. CASE ArmResetHalf \/ ArmResetFull \/ ArmResetNotified
    BY <2>8 DEF ArmResetHalf, ArmResetFull, ArmResetNotified
  <2> QED
    BY <1>2, <2>1, <2>2, <2>3, <2>4, <2>5, <2>6, <2>7, <2>8 DEF Arm
<1>3. ASSUME NEW e \in Engines, Engine(e) PROVE BusyFlagHonest'
  <2> USE DEF EngineGoto, BusyFlagHonest
  <2>1. aPc' = aPc /\ backupPid' = backupPid
    BY <1>3 DEF Engine, EngineReady, EngineRead, EngineAcquire, EngineMark, EngineServe,
                EngineFree
  \* An engine that takes a step exists.
  <2>2. e = Backup => backupPid = 1
    BY <1>3 DEF Engine, EngineReady, EngineRead, EngineAcquire, EngineMark, EngineServe,
                EngineFree,
                BackupConsistent
  <2>3. CASE EngineReady(e) \/ EngineRead(e)
    BY <2>1, <2>3 DEF EngineReady, EngineRead, TypeOK
  <2>4. CASE EngineAcquire(e)
    BY <2>1, <2>4 DEF EngineAcquire, TypeOK
  <2>5. CASE EngineMark(e)
    BY <2>1, <2>2, <2>5 DEF EngineMark, TypeOK
  <2>6. CASE EngineServe(e)
    BY <2>1, <2>6 DEF EngineServe, TypeOK
  <2>7. CASE EngineFree(e)
    BY <2>1, <2>2, <2>7 DEF EngineFree, TypeOK
  <2> QED
    BY <1>3, <2>3, <2>4, <2>5, <2>6, <2>7 DEF Engine
<1> QED
  BY <1>1, <1>2, <1>3 DEF Next

---------------------------------------------------------------------------
\* THE THEOREMS

LEMMA IInvInit == Init => IInv
<1> SUFFICES ASSUME Init PROVE IInv
  OBVIOUS
<1>1. TypeOK
  BY TypeInit
<1>2. ShmExclusion
  BY ConfigAssumption DEF Init, ShmExclusion, SenderInside, EngineInside
<1>3. BusyFlagHonest /\ BackupConsistent /\ NoStaleChoice
  BY ConfigAssumption
  DEF Init, BusyFlagHonest, BackupConsistent, NoStaleChoice, BackupChosen, Creating,
      Removing, Gone
<1> QED
  BY <1>1, <1>2, <1>3 DEF IInv

LEMMA IInvStep == IInv /\ [Next]_vars => IInv'
BY TypeStep, ShmStep, BackupStep, NoStaleStep, BusyStep DEF IInv

\* The conjunction of the five invariants is inductive.
THEOREM Inductive == Spec => []IInv
<1>1. Init => IInv
  BY IInvInit
<1>2. IInv /\ [Next]_vars => IInv'
  BY IInvStep
<1> QED
  BY <1>1, <1>2, PTL DEF Spec

\* Every variable keeps its type.
THEOREM TypeCorrect == Spec => []TypeOK
<1>1. IInv => TypeOK
  BY DEF IInv
<1> QED
  BY <1>1, Inductive, PTL

\* shm_sem is a lock for any number of engines, whatever the ARM kills, and 0 with
\* nobody inside only after the ARM has killed its holder.
THEOREM MutualExclusion == Spec => []ShmExclusion
<1>1. IInv => ShmExclusion
  BY DEF IInv
<1> QED
  BY <1>1, Inductive, PTL

\* engines_available never lies about a running engine after its first instruction
\* on a request, and never advertises a backup engine that does not exist, except
\* while the ARM is removing it.
THEOREM HonestFlags == Spec => []BusyFlagHonest
<1>1. IInv => BusyFlagHonest
  BY DEF IInv
<1> QED
  BY <1>1, Inductive, PTL

\* The ARM's flag, pid, pipe and the backup process agree outside its creation and
\* removal code, so at most one backup engine exists and its pid is never lost.
THEOREM BackupAgreement == Spec => []BackupConsistent
<1>1. IInv => BackupConsistent
  BY DEF IInv
<1> QED
  BY <1>1, Inductive, PTL

\* No choice of a removed backup engine reaches its replacement.
THEOREM FreshBackup == Spec => []NoStaleChoice
<1>1. IInv => NoStaleChoice
  BY DEF IInv
<1> QED
  BY <1>1, Inductive, PTL

===========================================================================
