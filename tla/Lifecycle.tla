---------------------------- MODULE Lifecycle -----------------------------
(***************************************************************************)
(* What outlives a process: the named semaphores, the shared memory        *)
(* segment, the message queue and the named pipes.  The platform creates   *)
(* them one system call after another, is killed at any point or closes    *)
(* cleanly, and starts again; mobiles register and live through all that;  *)
(* backoffices come and go.  main() and sm_sigint_handler() of             *)
(* src/system_manager/system_manager.c, create_log_file() and close_log()  *)
(* of src/log/log.c, src/shared_memory/shm_lib.c, the creation and removal *)
(* functions of src/system_manager/sm_lib.c, and the start and the end of  *)
(* src/mobile/mobile.c and src/backoffice/backoffice.c.                    *)
(*                                                                         *)
(* One platform at a time: nobody starts a second one beside the first.    *)
(***************************************************************************)
EXTENDS Config, FiniteSets

CONSTANTS
    Mobiles,        (* mobile processes, each started once                  *)
    Backoffices,    (* backoffice processes, each started once              *)
    Files,          (* the configuration files somebody starts with         *)
    MaxStarts       (* bound: starts of the platform                        *)

ASSUME LifecycleAssumption ==
    /\ IsFiniteSet(Mobiles) /\ MaxStarts \in Nat
    /\ Mobiles \cap Backoffices = {} /\ {"nobody", "platform"} \cap Backoffices = {}
    /\ "nobody" \notin Mobiles

ASSUME FilesAssumption ==
    Files \subseteq Seq(Seq(0 .. 9 \cup {NotADigit}))

Nobody   == "nobody"
Platform == "platform"

MAX_SIZE == 100

\* The other names in the file system; the two named pipes count as one.
Names == {"shm_sem", "sem_msg_queue", "pipes"}

NoSegment == [size |-> 0, file |-> << >>, users |-> 0, mobile |-> << >>]

\* Positions of mobile_data that are looked at: one more than there are mobiles.
Positions == 1 .. Cardinality(Mobiles) + 1

VARIABLES
    pc,             \* how far the platform has started or closed
    file, config,   \* the file it was started with and the values it has
    starts,
    outcome,        \* how its last run ended, "none" before the first end
    semOwner,       \* who created the semaphore that has the name "sem" now
    names,          \* the other names that exist
    msgQueue,       \* the message queue exists
    segment,        \* its size, current_mobile_users and mobile_data[].mobile_id
    mobile,         \* "new", "waiting", "logged" or "ended"
    asking,         \* mobiles whose REGISTER is on its way in the platform
    backoffice,     \* "new", "running" or "ended"
    orphans,        \* children that their backoffice or the Monitor left behind
    \* ---- history
    abandoned,      \* a run has ended otherwise than by closing, none has closed since
    recreated,      \* a client has created the message queue again after its removal
    aliased,        \* the segment has been used with AUTH_SERVERS >= MAX_SIZE
    registered,     \* mobiles that got an account in this segment
    displaced       \* backoffices whose "sem" somebody else has unlinked

platformVars == <<pc, file, config, starts, outcome>>
clientVars   == <<mobile, asking, backoffice, orphans>>
historyVars  == <<abandoned, recreated, aliased, registered, displaced>>
vars == <<platformVars, semOwner, names, msgQueue, segment, clientVars, historyVars>>

Init ==
    /\ pc = "down" /\ file = << >> /\ config = Rejected
    /\ starts = 0 /\ outcome = "none"
    /\ semOwner = Nobody /\ names = {} /\ msgQueue = FALSE /\ segment = NoSegment
    /\ mobile = [m \in Mobiles |-> "new"] /\ asking = {}
    /\ backoffice = [b \in Backoffices |-> "new"] /\ orphans = FALSE
    /\ abandoned = FALSE /\ recreated = FALSE /\ aliased = FALSE
    /\ registered = {} /\ displaced = {}

Goto(from, to) == pc = from /\ pc' = to

Running(b) == backoffice[b] = "running"

\* sem_unlink("sem") by somebody.
UnlinkSem(who) ==
    /\ semOwner' = Nobody
    /\ displaced' = displaced \cup {b \in Backoffices \ {who} : b = semOwner /\ Running(b)}

---------------------------------------------------------------------------
\* START

\* create_log_file(): the name is unlinked and created in two system calls.
SmStart ==
    /\ Goto("down", "log")
    /\ starts < MaxStarts /\ starts' = starts + 1        \* bound
    /\ file' \in Files
    /\ UnlinkSem(Platform)
    /\ UNCHANGED <<config, outcome, names, msgQueue, segment, clientVars, abandoned,
                   recreated, aliased, registered>>

\* A backoffice may have taken the name in between: then create_log_file() returns
\* without a semaphore and the next update_log() ends the program.
SmOpenLog ==
    /\ pc = "log"
    /\ IF semOwner = Nobody
       THEN pc' = "config" /\ semOwner' = Platform /\ UNCHANGED outcome
       ELSE pc' = "down" /\ outcome' = "no log" /\ UNCHANGED semOwner
    /\ UNCHANGED <<file, config, starts, names, msgQueue, segment, clientVars, historyVars>>

\* Faulty variant: a file that is not accepted leaves the name "sem".
ConfigureLeavesLog ==
    /\ pc = "config"
    /\ config' = ReadConfig(file)
    /\ IF config' = Rejected
       THEN pc' = "down" /\ outcome' = "config"
       ELSE pc' = "segment" /\ UNCHANGED outcome
    /\ UNCHANGED <<semOwner, file, starts, names, msgQueue, segment, clientVars,
                   historyVars>>

\* A file that is not accepted ends the program with close_log().
SmConfigure ==
    /\ pc = "config"
    /\ config' = ReadConfig(file)
    /\ IF config' = Rejected
       THEN pc' = "down" /\ outcome' = "config" /\ UnlinkSem(Platform)
       ELSE pc' = "segment" /\ UNCHANGED <<outcome, semOwner, displaced>>
    /\ UNCHANGED <<file, starts, names, msgQueue, segment, clientVars, abandoned, recreated,
                   aliased, registered>>

MOBILE_USERS == config[1]
AUTH_SERVERS == config[3]

\* total_size: the system data, one int for each engine, the accounts.
TotalSize == 428 + 4 * (AUTH_SERVERS + 1) + 24 * MOBILE_USERS

\* Faulty variant: the size of a segment that is there does not matter.
SegmentTaken ==
    /\ Goto("segment", "shmSem")
    /\ segment' = IF segment # NoSegment THEN segment
                  ELSE [size |-> TotalSize, file |-> file, users |-> 0,
                        mobile |-> [i \in Positions |-> Nobody]]
    /\ UNCHANGED <<file, config, starts, outcome, semOwner, names, msgQueue, clientVars,
                   historyVars>>

\* shmget(IPC_CREAT) takes the segment that is there, with its contents, if it is large
\* enough; if not, the program ends, without close_log().
SmSegment ==
    /\ pc = "segment"
    /\ IF segment # NoSegment
       THEN UNCHANGED segment
       ELSE segment' = [size |-> TotalSize, file |-> file, users |-> 0,
                        mobile |-> [i \in Positions |-> Nobody]]
    /\ IF segment'.size < TotalSize
       THEN pc' = "down" /\ outcome' = "segment" /\ abandoned' = TRUE
       ELSE pc' = "shmSem" /\ UNCHANGED <<outcome, abandoned>>
    /\ UNCHANGED <<file, config, starts, semOwner, names, msgQueue, clientVars, recreated,
                   aliased, registered, displaced>>

\* Faulty variant: O_CREAT|O_EXCL without the sem_unlink() before it.
OpenExclusive(from, name, to) ==
    /\ pc = from
    /\ IF name \in names
       THEN pc' = "down" /\ outcome' = "semaphore" /\ UNCHANGED names
       ELSE pc' = to /\ names' = names \cup {name} /\ UNCHANGED outcome
    /\ UNCHANGED <<file, config, starts, semOwner, msgQueue, segment, clientVars,
                   historyVars>>

\* sem_unlink() and sem_open(O_CREAT|O_EXCL) of a name that only the platform uses.
OpenSemaphore(from, name, to) ==
    /\ Goto(from, to)
    /\ names' = names \cup {name}
    /\ UNCHANGED <<file, config, starts, outcome, semOwner, msgQueue, segment, clientVars,
                   historyVars>>

SmMessageQueue ==
    /\ Goto("msgGet", "flags")
    /\ msgQueue' = TRUE
    /\ UNCHANGED <<file, config, starts, outcome, semOwner, names, segment, clientVars,
                   historyVars>>

\* Faulty variant: the ARM starts with no accounts.
FlagsAndUsers ==
    /\ Goto("flags", "pipes")
    /\ segment' = [segment EXCEPT !.users = 0]
    /\ UNCHANGED <<file, config, starts, outcome, semOwner, names, msgQueue, clientVars,
                   historyVars>>

\* The ARM initialises engines_available[0 .. AUTH_SERVERS] and nothing else, but the
\* field after engines_available[MAX_SIZE - 1] is current_mobile_users.
ArmFlags ==
    /\ Goto("flags", "pipes")
    /\ aliased' = (aliased \/ AUTH_SERVERS >= MAX_SIZE)
    /\ segment' = [segment EXCEPT !.users = IF AUTH_SERVERS = MAX_SIZE THEN 0
                                            ELSE IF AUTH_SERVERS > MAX_SIZE THEN 1 ELSE @]
    /\ UNCHANGED <<file, config, starts, outcome, semOwner, names, msgQueue, clientVars,
                   abandoned, recreated, registered, displaced>>

\* mkfifo(): pipes that exist are taken.
ArmPipes ==
    /\ Goto("pipes", "running")
    /\ names' = names \cup {"pipes"}
    /\ UNCHANGED <<file, config, starts, outcome, semOwner, msgQueue, segment, clientVars,
                   historyVars>>

---------------------------------------------------------------------------
\* THE END

\* Everything of the platform is killed (by the kill(0, SIGKILL) of the ARM, or from
\* outside): what it has created stays.
Crash ==
    /\ pc # "down"
    /\ pc' = "down" /\ outcome' = "crash"
    /\ abandoned' = TRUE /\ asking' = {}
    /\ UNCHANGED <<file, config, starts, semOwner, names, msgQueue, segment, mobile,
                   backoffice, orphans, recreated, aliased, registered, displaced>>

\* SIGINT before there is an ARM: sm_sigint_handler() signals its own group, for auth_pid
\* is 0, waits for nobody and ends with close_log(); nothing else is removed.  SIGINT
\* before there is a log, or inside update_log(), ends or stops it there: Crash.
Interrupted ==
    /\ pc \in {"config", "segment", "shmSem", "msgSem", "msgGet"}
    /\ pc' = "down" /\ outcome' = "interrupted"
    /\ abandoned' = (abandoned \/ pc \notin {"config", "segment"})
    /\ UnlinkSem(Platform)
    /\ UNCHANGED <<file, config, starts, names, msgQueue, segment, clientVars, recreated,
                   aliased, registered>>

\* cleanup_resources() of the ARM after SIGINT, with the Monitor Engine gone.  Its child
\* ends too if SIGINT was ^C.
CloseMessageQueue ==
    /\ Goto("running", "rmSegment")
    /\ msgQueue' = FALSE /\ recreated' = FALSE
    /\ names' = names \ {"sem_msg_queue"}
    /\ asking' = {}
    /\ orphans' \in {orphans, TRUE}
    /\ UNCHANGED <<file, config, starts, outcome, semOwner, segment, mobile, backoffice,
                   abandoned, aliased, registered, displaced>>

CloseSegment ==
    /\ Goto("rmSegment", "rmPipes")
    /\ segment' = NoSegment
    /\ names' = names \ {"shm_sem"}
    /\ registered' = {} /\ aliased' = FALSE
    /\ UNCHANGED <<file, config, starts, outcome, semOwner, msgQueue, clientVars,
                   abandoned, recreated, displaced>>

ClosePipes ==
    /\ Goto("rmPipes", "rmLog")
    /\ names' = names \ {"pipes"}
    /\ UNCHANGED <<file, config, starts, outcome, semOwner, msgQueue, segment, clientVars,
                   historyVars>>

\* close_log() of the System Manager, once the ARM has ended.
CloseLog ==
    /\ Goto("rmLog", "down")
    /\ outcome' = "closed" /\ abandoned' = FALSE
    /\ UnlinkSem(Platform)
    /\ UNCHANGED <<file, config, starts, names, msgQueue, segment, clientVars, recreated,
                   aliased, registered>>

---------------------------------------------------------------------------
\* MOBILES

\* The REGISTER message is lost when nobody has the pipe open for reading, and may be
\* lost later on its way.
MobileStart(m) ==
    /\ mobile[m] = "new"
    /\ mobile' = [mobile EXCEPT ![m] = "waiting"]
    /\ asking' \in {asking, IF pc = "running" THEN asking \cup {m} ELSE asking}
    /\ UNCHANGED <<platformVars, semOwner, names, msgQueue, segment, backoffice, orphans,
                   historyVars>>

\* An engine registers the mobile; SIGUSR1 finds it waiting or gone.
Register(m) ==
    /\ pc = "running" /\ m \in asking
    /\ segment' = [segment EXCEPT !.mobile[segment.users + 1] = m, !.users = @ + 1]
    /\ asking' = asking \ {m} /\ registered' = registered \cup {m}
    /\ mobile' = [mobile EXCEPT ![m] = IF @ = "waiting" THEN "logged" ELSE @]
    /\ UNCHANGED <<platformVars, semOwner, names, msgQueue, backoffice, orphans,
                   abandoned, recreated, aliased, displaced>>

\* With AUTH_SERVERS = MAX_SIZE the busy flag of the backup engine is the number of
\* accounts.
BackupFlag ==
    /\ pc = "running" /\ AUTH_SERVERS = MAX_SIZE
    /\ segment' \in {[segment EXCEPT !.users = flag] : flag \in {0, 1}}
    /\ UNCHANGED <<platformVars, semOwner, names, msgQueue, clientVars, historyVars>>

MobileEnd(m) ==
    /\ mobile[m] \in {"waiting", "logged"}
    /\ mobile' = [mobile EXCEPT ![m] = "ended"]
    /\ UNCHANGED <<platformVars, semOwner, names, msgQueue, segment, asking, backoffice,
                   orphans, historyVars>>

---------------------------------------------------------------------------
\* BACKOFFICES

\* Faulty variant: O_CREAT without O_EXCL.
BackofficeOpens(b) ==
    /\ backoffice[b] = "new"
    /\ semOwner' = IF semOwner = Nobody THEN b ELSE semOwner
    /\ backoffice' = [backoffice EXCEPT ![b] = "running"]
    /\ UNCHANGED <<platformVars, names, msgQueue, segment, mobile, asking, orphans,
                   historyVars>>

\* "Another instance of the program is already running", unless the name is free.
BackofficeStart(b) ==
    /\ backoffice[b] = "new" /\ semOwner = Nobody
    /\ semOwner' = b
    /\ backoffice' = [backoffice EXCEPT ![b] = "running"]
    /\ UNCHANGED <<platformVars, names, msgQueue, segment, mobile, asking, orphans,
                   historyVars>>

\* ^C, a wrong command, or a message queue that is gone: the name is unlinked,
\* whoever has it by then.  A wrong command leaves the child behind.
BackofficeEnd(b) ==
    /\ Running(b)
    /\ backoffice' = [backoffice EXCEPT ![b] = "ended"]
    /\ UnlinkSem(b)
    /\ orphans' \in {orphans, TRUE}
    /\ UNCHANGED <<platformVars, names, msgQueue, segment, mobile, asking, abandoned,
                   recreated, aliased, registered>>

\* The end of its input: main() returns, the name and the child stay.
BackofficeEof(b) ==
    /\ Running(b)
    /\ backoffice' = [backoffice EXCEPT ![b] = "ended"]
    /\ orphans' = TRUE
    /\ UNCHANGED <<platformVars, semOwner, names, msgQueue, segment, mobile, asking,
                   historyVars>>

\* Children of mobiles and backoffices, and the Monitor Engine's orphan, look the
\* message queue up with IPC_CREAT.
Poll ==
    /\ \/ \E m \in Mobiles : mobile[m] = "logged"
       \/ \E b \in Backoffices : Running(b)
       \/ orphans
    /\ ~msgQueue /\ msgQueue' = TRUE
    /\ recreated' = TRUE
    /\ UNCHANGED <<platformVars, semOwner, names, segment, clientVars, abandoned, aliased,
                   registered, displaced>>

---------------------------------------------------------------------------
Start ==
    \/ SmStart \/ SmOpenLog \/ SmConfigure \/ SmSegment
    \/ OpenSemaphore("shmSem", "shm_sem", "msgSem")
    \/ OpenSemaphore("msgSem", "sem_msg_queue", "msgGet")
    \/ SmMessageQueue \/ ArmFlags \/ ArmPipes

Close == CloseMessageQueue \/ CloseSegment \/ ClosePipes \/ CloseLog

Next ==
    \/ Start \/ Crash \/ Interrupted \/ Close \/ BackupFlag \/ Poll
    \/ \E m \in Mobiles : MobileStart(m) \/ Register(m) \/ MobileEnd(m)
    \/ \E b \in Backoffices : BackofficeStart(b) \/ BackofficeEnd(b) \/ BackofficeEof(b)

Spec == Init /\ [][Next]_vars

---------------------------------------------------------------------------
\* PROPERTIES

Starting == {"log", "config", "segment", "shmSem", "msgSem", "msgGet", "flags", "pipes"}
Closing  == {"rmSegment", "rmPipes", "rmLog"}

\* Every variable keeps its type, and the platform has what the step it is at needs.
TypeOK ==
    /\ pc \in {"down", "running"} \cup Starting \cup Closing
    /\ file \in Files \cup {<< >>} /\ starts \in 0 .. MaxStarts
    /\ outcome \in {"none", "closed", "crash", "config", "no log", "segment", "interrupted"}
    /\ semOwner \in {Nobody, Platform} \cup Backoffices
    /\ names \subseteq Names /\ msgQueue \in BOOLEAN
    /\ segment.users \in 0 .. Cardinality(Mobiles) + 1
    /\ pc \in {"shmSem", "msgSem", "msgGet", "flags", "pipes", "running"} =>
          segment # NoSegment /\ segment.size >= TotalSize
    /\ mobile \in [Mobiles -> {"new", "waiting", "logged", "ended"}]
    /\ asking \subseteq Mobiles /\ (asking # {} => pc = "running")
    /\ backoffice \in [Backoffices -> {"new", "running", "ended"}]
    /\ orphans \in BOOLEAN /\ abandoned \in BOOLEAN /\ recreated \in BOOLEAN
    /\ aliased \in BOOLEAN /\ registered \subseteq Mobiles /\ displaced \subseteq Backoffices

\* system_manager.c: a file is six lines, one number each, none 0.  The platform works
\* with what the file says whenever every line fits into one piece with its line break.
ConfigFaithful ==
    pc = "running" /\ (\A k \in DOMAIN file : Len(file[k]) <= 7)
       => config = Meant(file)

\* Whatever a killed platform has left behind, a start with the same file gets as far as
\* running: it fails only for its configuration, for a backoffice that takes the name
\* "sem" between two system calls, or for a segment left by a run with a smaller one.
StartRecovers ==
    /\ outcome # "semaphore"
    /\ outcome = "no log"  => \E b \in Backoffices : backoffice[b] # "new"
    /\ outcome = "segment" /\ pc = "down" => abandoned /\ segment.file # file

\* Accounts survive the platform: a mobile that was registered has its account exactly
\* once, through crashes and restarts with any file, until a clean close removes the
\* segment; unless the busy flag of the backup engine is stored over their number.
AccountsSurvive ==
    segment # NoSegment /\ ~aliased =>
       \A m \in registered :
          Cardinality({i \in 1 .. segment.users : segment.mobile[i] = m}) = 1

\* A platform that closed leaves nothing behind, even what an earlier crash had left,
\* but a message queue that its clients have created again.  The name "sem"
\* belongs to a backoffice then: to one that runs or that has ended at the end of its
\* input.
NothingLeft ==
    pc = "down" /\ ~abandoned =>
       /\ names = {} /\ segment = NoSegment
       /\ msgQueue => recreated
       /\ semOwner # Platform

\* backoffice.c: the semaphore ensures "that only one process is running".  Two
\* backoffices run only when somebody else, the platform or a backoffice before them,
\* has unlinked the name of one of them.
OneBackoffice ==
    \A b, c \in Backoffices : Running(b) /\ Running(c) /\ b # c =>
       b \in displaced \/ c \in displaced

===========================================================================
