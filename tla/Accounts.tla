----------------------------- MODULE Accounts -----------------------------
(***************************************************************************)
(* The accounts of the mobile users in shared memory: the engines register *)
(* mobiles and grant their requests, the Monitor Engine alerts a mobile at *)
(* 80, 90 and 100% of its plafond through the message queue and removes it *)
(* at 100%, and reports of the data used go to the backoffice through the  *)
(* same queue.  Processes: the mobiles (src/mobile/mobile.c), the engines, *)
(* the Monitor Engine and its child (src/system_manager/sm_lib.c).         *)
(*                                                                         *)
(* Grain of atomicity: a critical section of shm_sem is one step, except   *)
(* the Monitor Engine's, which calls msgsnd() and may wait inside.  How a  *)
(* request gets from a mobile to an engine is module Dispatch; here it is  *)
(* in flight, may be overtaken by others and may be lost.                  *)
(***************************************************************************)
EXTENDS Integers, Sequences, FiniteSetsExt

CONSTANTS
    Mobiles,        (* the pids of the mobiles that are ever started        *)
    Arguments,      (* the command line of each mobile                      *)
    Services,       (* of VIDEO, SOCIAL and MUSIC, those that are asked for *)
    AuthEngines,    (* the engines                                          *)
    QueueCapacity,  (* messages the message queue has room for              *)
    MaxReports,     (* bound: periodic reports                              *)
    MaxCommands     (* bound: commands of the backoffice                    *)

\* main() of mobile.c refuses arguments that are not positive; it asks for three services.
ASSUME ArgumentsAssumption ==
    /\ IsFiniteSet(Mobiles)
    /\ Arguments \in [Mobiles -> [initial : Nat \ {0}, data : Nat \ {0},
                                  requests : Nat \ {0}]]
    /\ Services \subseteq {"VIDEO", "SOCIAL", "MUSIC"}
    /\ QueueCapacity \in Nat \ {0}
    /\ MaxReports \in Nat /\ MaxCommands \in Nat

VARIABLES
    \* ---- shared memory
    accounts,        \* mobile_data[0 .. current_mobile_users - 1]
    plafondUsed,     \* video_plafond_used, social_plafond_used, music_plafond_used
    requests,        \* video_requests, social_requests, music_requests
    \* ---- mobiles
    mobilePc, asked,
    inFlight,        \* requests between a mobile or the backoffice and an engine
    \* ---- message queue: alerts by addressee, and reports to the backoffice
    inbox, reports, msgQueueSem,
    \* ---- Monitor Engine
    monitorPc, index,
    \* ---- processes that send reports: the engines and the Monitor's child
    reporterPc,
    wakeUps, commands, \* bounds: periodic reports begun, commands given
    \* ---- history
    registered,      \* mobiles whose REGISTER has been served
    granted,         \* requests that were granted
    sinceReset,      \* those granted since the last reset
    alerts           \* the alerts triggered for each mobile, in order

shmVars     == <<accounts, plafondUsed, requests>>
mobileVars  == <<mobilePc, asked>>
queueVars   == <<inbox, reports, msgQueueSem>>
monitorVars == <<monitorPc, index>>
boundVars   == <<wakeUps, commands>>
grantVars   == <<registered, granted, sinceReset>>

vars == <<shmVars, mobileVars, inFlight, queueVars, monitorVars, reporterPc, boundVars,
          grantVars, alerts>>

Backoffice == "backoffice"
Periodic   == "periodic"
Reporters  == AuthEngines \cup {Periodic}

Init ==
    /\ accounts = << >>
    /\ plafondUsed = [s \in Services |-> 0] /\ requests = [s \in Services |-> 0]
    /\ mobilePc = [m \in Mobiles |-> "new"] /\ asked = [m \in Mobiles |-> 0]
    /\ inFlight = {}
    /\ inbox = [m \in Mobiles |-> << >>] /\ reports = 0 /\ msgQueueSem = 1
    /\ monitorPc = "outside" /\ index = 1
    /\ reporterPc = [r \in Reporters |-> "idle"]
    /\ wakeUps = 0 /\ commands = 0
    /\ registered = {} /\ granted = {} /\ sinceReset = {}
    /\ alerts = [m \in Mobiles |-> << >>]

---------------------------------------------------------------------------
\* THE MOBILES

\* A mobile asks to be registered and spins until SIGUSR1 tells it that it is.
MobileRegister(m) ==
    /\ mobilePc[m] = "new"
    /\ mobilePc' = [mobilePc EXCEPT ![m] = "registering"]
    /\ inFlight' = inFlight \cup {[from |-> m, type |-> "REGISTER", number |-> 0]}
    /\ UNCHANGED <<shmVars, asked, queueVars, monitorVars, reporterPc, boundVars,
                   grantVars, alerts>>

\* One more request, up to MAX_AUTH_REQUESTS.
MobileAsk(m, service) ==
    /\ mobilePc[m] = "running"
    /\ asked[m] < Arguments[m].requests
    /\ asked' = [asked EXCEPT ![m] = @ + 1]
    /\ inFlight' = inFlight \cup {[from |-> m, type |-> service, number |-> asked'[m]]}
    /\ UNCHANGED <<shmVars, mobilePc, queueVars, monitorVars, reporterPc, boundVars,
                   grantVars, alerts>>

\* The mobile has sent all its requests, or is interrupted by SIGINT.  It says
\* nothing to the system: its account and the alerts in its inbox stay.
MobileEnd(m) ==
    /\ mobilePc[m] \in {"registering", "running"}
    /\ mobilePc' = [mobilePc EXCEPT ![m] = "ended"]
    /\ UNCHANGED <<shmVars, asked, inFlight, queueVars, monitorVars, reporterPc,
                   boundVars, grantVars, alerts>>

\* The child of a registered mobile reads its alerts; ALERT 0 ends the mobile.
MobileRead(m) ==
    /\ mobilePc[m] = "running"
    /\ inbox[m] # << >>
    /\ inbox' = [inbox EXCEPT ![m] = Tail(@)]
    /\ mobilePc' = IF Head(inbox[m]) = 0 THEN [mobilePc EXCEPT ![m] = "ended"] ELSE mobilePc
    /\ UNCHANGED <<shmVars, asked, inFlight, reports, msgQueueSem, monitorVars,
                   reporterPc, boundVars, grantVars, alerts>>

---------------------------------------------------------------------------
\* THE BACKOFFICE

BackofficeAsk(command) ==
    /\ commands < MaxCommands                            \* bound
    /\ commands' = commands + 1
    /\ inFlight' = inFlight \cup {[from |-> Backoffice, type |-> command,
                                   number |-> commands']}
    /\ UNCHANGED <<shmVars, mobileVars, queueVars, monitorVars, reporterPc, wakeUps,
                   grantVars, alerts>>

\* The backoffice reads a report, if anyone has started it.
BackofficeRead ==
    /\ reports > 0
    /\ reports' = reports - 1
    /\ UNCHANGED <<shmVars, mobileVars, inFlight, inbox, msgQueueSem, monitorVars,
                   reporterPc, boundVars, grantVars, alerts>>

\* On its way through the platform a request may be lost: the queue is full, it is
\* evicted, or the backup engine is killed with it.
Lose(r) ==
    /\ r \in inFlight
    /\ inFlight' = inFlight \ {r}
    /\ UNCHANGED <<shmVars, mobileVars, queueVars, monitorVars, reporterPc, boundVars,
                   grantVars, alerts>>

---------------------------------------------------------------------------
\* THE MESSAGE QUEUE

\* Faulty variant: the Monitor Engine gives shm_sem up while it sends an alert.
ShmFreeInSend == monitorPc # "scan"

\* Nobody else keeps shm_sem for more than a step.
ShmFree == monitorPc = "outside"

Messages == reports + SumFunction([m \in Mobiles |-> Len(inbox[m])])
HasRoom  == Messages < QueueCapacity

---------------------------------------------------------------------------
\* THE ENGINES: serving a request, under shm_sem

\* Engine e has read request r from its pipe, and its turn with shm_sem has come.
Serve(e, r) ==
    /\ reporterPc[e] = "idle"
    /\ r \in inFlight
    /\ ShmFree
    /\ inFlight' = inFlight \ {r}

\* A new account, and SIGUSR1 to the mobile if it is still there.
EngineRegister(e, r) ==
    /\ r.type = "REGISTER"
    /\ Serve(e, r)
    /\ accounts' = Append(accounts,
           [mobile_id |-> r.from, initial_plafond |-> Arguments[r.from].initial,
            current_plafond |-> Arguments[r.from].initial, alert_sent |-> {}])
    /\ mobilePc' = IF mobilePc[r.from] = "registering"
                   THEN [mobilePc EXCEPT ![r.from] = "running"] ELSE mobilePc
    /\ registered' = registered \cup {r.from}
    /\ UNCHANGED <<plafondUsed, requests, asked, queueVars, monitorVars, reporterPc,
                   boundVars, granted, sinceReset, alerts>>

\* The accounts of mobile m: the search takes the first one.
Positions(m) == {i \in 1 .. Len(accounts) : accounts[i].mobile_id = m}

\* current_plafond <= 0 and current_plafond - request_data < 0 both deny.
Affordable(i, data) ==
    accounts[i].current_plafond > 0 /\ accounts[i].current_plafond - data >= 0

\* The account's plafond and the service's totals change together.
Charge(i, r) ==
    LET data == Arguments[r.from].data IN
    /\ accounts' = [accounts EXCEPT ![i].current_plafond = @ - data]
    /\ plafondUsed' = [plafondUsed EXCEPT ![r.type] = @ + data]
    /\ requests' = [requests EXCEPT ![r.type] = @ + 1]
    /\ granted' = granted \cup {r} /\ sinceReset' = sinceReset \cup {r}

\* Faulty variant: the plafond is not compared with the data asked for.
AuthorizeUnchecked(e, r) ==
    /\ r.type \in Services
    /\ Serve(e, r)
    /\ IF \E i \in Positions(r.from) : accounts[i].current_plafond > 0
       THEN Charge(Min(Positions(r.from)), r)
       ELSE UNCHANGED <<shmVars, granted, sinceReset>>
    /\ UNCHANGED <<mobileVars, queueVars, monitorVars, reporterPc, boundVars, registered,
                   alerts>>

EngineAuthorize(e, r) ==
    /\ r.type \in Services
    /\ Serve(e, r)
    /\ IF /\ Positions(r.from) # {}
          /\ Affordable(Min(Positions(r.from)), Arguments[r.from].data)
       THEN Charge(Min(Positions(r.from)), r)
       ELSE UNCHANGED <<shmVars, granted, sinceReset>>
    /\ UNCHANGED <<mobileVars, queueVars, monitorVars, reporterPc, boundVars, registered,
                   alerts>>

\* Faulty variant: reset forgets the request counters.
ResetKeepsRequests(e, r) ==
    /\ r.type = "reset"
    /\ Serve(e, r)
    /\ plafondUsed' = [s \in Services |-> 0]
    /\ sinceReset' = {}
    /\ UNCHANGED <<accounts, requests, mobileVars, queueVars, monitorVars, reporterPc,
                   boundVars, registered, granted, alerts>>

EngineReset(e, r) ==
    /\ r.type = "reset"
    /\ Serve(e, r)
    /\ plafondUsed' = [s \in Services |-> 0] /\ requests' = [s \in Services |-> 0]
    /\ sinceReset' = {}
    /\ UNCHANGED <<accounts, mobileVars, queueVars, monitorVars, reporterPc, boundVars,
                   registered, granted, alerts>>

\* data_stats: the report is written under shm_sem and sent after it is released.
EngineStats(e, r) ==
    /\ r.type = "data_stats"
    /\ Serve(e, r)
    /\ reporterPc' = [reporterPc EXCEPT ![e] = "acquire"]
    /\ UNCHANGED <<shmVars, mobileVars, queueVars, monitorVars, boundVars, grantVars, alerts>>

---------------------------------------------------------------------------
\* REPORTS: send_data_to_backoffice()

\* Every 30 seconds the Monitor Engine's child writes a report.
PeriodicWake ==
    /\ reporterPc[Periodic] = "idle"
    /\ wakeUps < MaxReports                              \* bound
    /\ ShmFree
    /\ wakeUps' = wakeUps + 1
    /\ reporterPc' = [reporterPc EXCEPT ![Periodic] = "acquire"]
    /\ UNCHANGED <<shmVars, mobileVars, inFlight, queueVars, monitorVars, commands,
                   grantVars, alerts>>

\* sem_wait(msg_queue_sem).
ReporterAcquire(x) ==
    /\ reporterPc[x] = "acquire"
    /\ msgQueueSem > 0
    /\ msgQueueSem' = msgQueueSem - 1
    /\ reporterPc' = [reporterPc EXCEPT ![x] = "send"]
    /\ UNCHANGED <<shmVars, mobileVars, inFlight, inbox, reports, monitorVars, boundVars,
                   grantVars, alerts>>

\* msgsnd() waits for room with msg_queue_sem held.
ReporterSend(x) ==
    /\ reporterPc[x] = "send"
    /\ HasRoom
    /\ reports' = reports + 1
    /\ msgQueueSem' = msgQueueSem + 1
    /\ reporterPc' = [reporterPc EXCEPT ![x] = "idle"]
    /\ UNCHANGED <<shmVars, mobileVars, inFlight, inbox, monitorVars, boundVars, grantVars,
                   alerts>>

---------------------------------------------------------------------------
\* THE MONITOR ENGINE: send_plafond_alerts()

\* round_number().
Rounded(number) ==
    CASE number > 25                  -> number
      [] number > 15 /\ number <= 25  -> 20
      [] number > 0  /\ number <= 15  -> 10
      [] number <= 0                  -> 0

\* The float division of the code, truncated to an int, and the integer division
\* agree on every percentage up to 25.
Remaining(account) ==
    Rounded((account.current_plafond * 100) \div account.initial_plafond)

\* alert_sent[remaining / 10 - 1] is 1.  For 0% the index is -1, and the int before
\* alert_sent[0] is current_plafond.
AlertSent(account) ==
    IF Remaining(account) = 0 THEN account.current_plafond = 1
                              ELSE Remaining(account) \in account.alert_sent

Due(account) == Remaining(account) \in {0, 10, 20} /\ ~AlertSent(account)

\* Faulty variant: the loop over the accounts starts at 1, not 0.
EnterAtSecond ==
    /\ monitorPc = "outside"
    /\ accounts # << >>
    /\ monitorPc' = "scan"
    /\ index' = 2
    /\ UNCHANGED <<shmVars, mobileVars, inFlight, queueVars, reporterPc, boundVars,
                   grantVars, alerts>>

\* sem_wait(shm_sem); without mobiles the pass ends at once.
MonitorEnter ==
    /\ monitorPc = "outside"
    /\ accounts # << >>
    /\ monitorPc' = "scan"
    /\ index' = 1
    /\ UNCHANGED <<shmVars, mobileVars, inFlight, queueVars, reporterPc, boundVars,
                   grantVars, alerts>>

\* One iteration of the loop, up to the sending of an alert; after the last one
\* shm_sem is posted.
MonitorScan ==
    /\ monitorPc = "scan"
    /\ \/ /\ index > Len(accounts)
          /\ monitorPc' = "outside" /\ index' = 1
       \/ /\ index <= Len(accounts) /\ ~Due(accounts[index])
          /\ index' = index + 1 /\ UNCHANGED monitorPc
       \/ /\ index <= Len(accounts) /\ Due(accounts[index])
          /\ monitorPc' = "acquire" /\ UNCHANGED index
    /\ UNCHANGED <<shmVars, mobileVars, inFlight, queueVars, reporterPc, boundVars,
                   grantVars, alerts>>

\* sem_wait(msg_queue_sem), with shm_sem held.
MonitorAcquire ==
    /\ monitorPc = "acquire"
    /\ msgQueueSem > 0
    /\ msgQueueSem' = msgQueueSem - 1
    /\ monitorPc' = "send"
    /\ UNCHANGED <<shmVars, mobileVars, inFlight, inbox, reports, index, reporterPc,
                   boundVars, grantVars, alerts>>

\* msgsnd() waits for room, with both semaphores held.
MonitorSend ==
    /\ monitorPc = "send"
    /\ HasRoom
    /\ LET account == accounts[index]
           m       == account.mobile_id
       IN /\ inbox'  = [inbox EXCEPT ![m] = Append(@, Remaining(account))]
          /\ alerts' = [alerts EXCEPT ![m] = Append(@, Remaining(account))]
    /\ msgQueueSem' = msgQueueSem + 1
    /\ monitorPc' = "mark"
    /\ UNCHANGED <<shmVars, mobileVars, inFlight, reports, index, reporterPc, boundVars,
                   grantVars>>

\* The accounts after position i move down one place.
Without(i) ==
    [k \in 1 .. Len(accounts) - 1 |-> IF k < i THEN accounts[k] ELSE accounts[k + 1]]

\* Faulty variant: the counter goes down, but nothing is moved.
MarkDropsLast ==
    /\ monitorPc = "mark"
    /\ accounts' = IF Remaining(accounts[index]) = 0
                   THEN SubSeq(accounts, 1, Len(accounts) - 1)
                   ELSE [accounts EXCEPT ![index].alert_sent =
                                            @ \cup {Remaining(accounts[index])}]
    /\ monitorPc' = "scan" /\ index' = index + 1
    /\ UNCHANGED <<plafondUsed, requests, mobileVars, inFlight, queueVars, reporterPc,
                   boundVars, grantVars, alerts>>

\* The alert is remembered, or at 0% the account is removed.  What is written to
\* alert_sent[-1] then is overwritten by the move or cut off with the last account.
\* The account that moves to this position is not looked at in this pass.
MonitorMark ==
    /\ monitorPc = "mark"
    /\ accounts' = IF Remaining(accounts[index]) = 0 THEN Without(index)
                   ELSE [accounts EXCEPT ![index].alert_sent =
                                            @ \cup {Remaining(accounts[index])}]
    /\ monitorPc' = "scan" /\ index' = index + 1
    /\ UNCHANGED <<plafondUsed, requests, mobileVars, inFlight, queueVars, reporterPc,
                   boundVars, grantVars, alerts>>

---------------------------------------------------------------------------
Mobile(m) ==
    \/ MobileRegister(m) \/ MobileEnd(m) \/ MobileRead(m)
    \/ \E service \in Services : MobileAsk(m, service)

BackofficeUser ==
    BackofficeRead \/ \E command \in {"data_stats", "reset"} : BackofficeAsk(command)

Engine(e) ==
    \E r \in inFlight : \/ EngineRegister(e, r) \/ EngineAuthorize(e, r)
                        \/ EngineReset(e, r) \/ EngineStats(e, r)

Reporter(x) == ReporterAcquire(x) \/ ReporterSend(x)

Monitor == MonitorEnter \/ MonitorScan \/ MonitorAcquire \/ MonitorSend \/ MonitorMark

Next ==
    \/ \E m \in Mobiles : Mobile(m)
    \/ BackofficeUser
    \/ \E r \in inFlight : Lose(r)
    \/ \E e \in AuthEngines : Engine(e)
    \/ PeriodicWake
    \/ \E x \in Reporters : Reporter(x)
    \/ Monitor

Spec == Init /\ [][Next]_vars

\* Processes that can run do run, and sem_wait(msg_queue_sem) is not starved for
\* ever.  Nothing makes a mobile send or a user start the backoffice.
Fairness ==
    /\ WF_vars(Monitor) /\ SF_vars(MonitorAcquire)
    /\ \A x \in Reporters : WF_vars(ReporterSend(x)) /\ SF_vars(ReporterAcquire(x))
    /\ \A m \in Mobiles : WF_vars(MobileRead(m))

FairSpec == Spec /\ Fairness

---------------------------------------------------------------------------
\* TYPES

Account == [mobile_id : Mobiles, initial_plafond : Nat \ {0}, current_plafond : Nat,
            alert_sent : SUBSET {10, 20}]

MobileRequest     == [from : Mobiles, type : Services \cup {"REGISTER"}, number : Nat]
BackofficeRequest == [from : {Backoffice}, type : {"data_stats", "reset"}, number : Nat]

\* No plafond is ever negative, both semaphores stay 0 or 1, and the queue never holds
\* more than it has room for.
TypeOK ==
    /\ accounts \in Seq(Account)
    /\ plafondUsed \in [Services -> Nat] /\ requests \in [Services -> Nat]
    /\ mobilePc \in [Mobiles -> {"new", "registering", "running", "ended"}]
    /\ asked \in [Mobiles -> Nat]
    /\ \A m \in Mobiles : asked[m] <= Arguments[m].requests
    /\ \A r \in inFlight : r \in MobileRequest \/ r \in BackofficeRequest
    /\ inbox \in [Mobiles -> Seq({0, 10, 20})]
    /\ reports \in Nat /\ msgQueueSem \in {0, 1}
    /\ Messages <= QueueCapacity
    /\ monitorPc \in {"outside", "scan", "acquire", "send", "mark"}
    /\ index \in 1 .. Len(accounts) + 2
    /\ reporterPc \in [Reporters -> {"idle", "acquire", "send"}]
    /\ wakeUps \in 0 .. MaxReports /\ commands \in 0 .. MaxCommands
    /\ registered \subseteq Mobiles
    /\ \A r \in granted : r \in MobileRequest
    /\ sinceReset \subseteq granted
    /\ alerts \in [Mobiles -> Seq({0, 10, 20})]

---------------------------------------------------------------------------
\* SAFETY

GrantedTo(m)    == {r \in granted : r.from = m}
DataOf(set)     == MapThenSumSet(LAMBDA r : Arguments[r.from].data, set)
Triggered(m)    == {alerts[m][k] : k \in 1 .. Len(alerts[m])}

\* The books balance: what an account has lost is the data granted to its mobile,
\* and the totals of a service are the data and the number of the requests granted
\* since the last reset, whatever the order of requests, resets and removals.
BooksBalance ==
    /\ \A i \in 1 .. Len(accounts) :
          accounts[i].initial_plafond - accounts[i].current_plafond
             = DataOf(GrantedTo(accounts[i].mobile_id))
    /\ \A s \in Services :
          LET ofService == {r \in sinceReset : r.type = s}
          IN plafondUsed[s] = DataOf(ofService) /\ requests[s] = Cardinality(ofService)

\* A registered mobile has exactly one account until its 100% alert, and none after:
\* the move that closes the gap of a removed account loses and doubles no other one.
OneAccountEach ==
    \A m \in Mobiles :
       IF m \in registered /\ (0 \in Triggered(m) =>
                                  monitorPc = "mark" /\ accounts[index].mobile_id = m)
       THEN \E i \in Positions(m) : Positions(m) = {i}
       ELSE Positions(m) = {}

\* A mobile gets each alert at most once and in the order 80%, 90%, 100%.  Its account
\* remembers those it got, through every move of the accounts, and the alert being
\* sent is still true of the account when it is marked or removed for it.
AlertsOnce ==
    /\ \A m \in Mobiles : \A j, k \in 1 .. Len(alerts[m]) :
          j < k => alerts[m][j] > alerts[m][k]
    /\ \A i \in 1 .. Len(accounts) :
          accounts[i].alert_sent
             \cup (IF monitorPc = "mark" /\ i = index THEN {Remaining(accounts[i])} ELSE {})
             = Triggered(accounts[i].mobile_id)

---------------------------------------------------------------------------
\* LIVENESS

NeedsAlert(m) == \E i \in Positions(m) : Due(accounts[i])

\* The message queue is full of messages nobody will read.
Clogged == ~HasRoom

\* A mobile that has reached a threshold is alerted, unless the queue stays full.
AlertComes ==
    \A m \in Mobiles : NeedsAlert(m) ~> (~NeedsAlert(m) \/ []Clogged)

===========================================================================
