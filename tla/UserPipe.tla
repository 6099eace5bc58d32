----------------------------- MODULE UserPipe -----------------------------
(***************************************************************************)
(* The named pipe between the mobiles (src/mobile/mobile.c) and the        *)
(* Receiver (src/system_manager/sm_lib.c): a mobile writes a whole message *)
(* at a time and does not look whether it got through; the Receiver reads  *)
(* up to 100 bytes at a time and uses the first string in them.            *)
(*                                                                         *)
(* The pipe is a sequence of units, a few to a message; the last unit of a *)
(* message has its terminating NUL.  What the queues, the Sender and the   *)
(* engines do with a request (modules Dispatch and Accounts) is one step   *)
(* here, Serve or Drop.                                                    *)
(***************************************************************************)
EXTENDS Integers, SequencesExt

CONSTANTS
    Mobiles,
    Stranger,      (* a process id that no mobile has                       *)
    Units,         (* units of a message                                    *)
    ReadUnits,     (* MESSAGE_SIZE, what one read() takes                   *)
    PipeUnits,     (* capacity of the pipe                                  *)
    MaxAuthRequests,  (* the argument of every mobile: how often it asks *)
    MaxStarts      (* bound: starts of the platform                         *)

ASSUME UserPipeAssumption ==
    /\ Stranger \notin Mobiles
    /\ Units \in Nat \ {0} /\ ReadUnits \in Nat /\ ReadUnits >= Units
    /\ PipeUnits \in Nat /\ PipeUnits >= Units
    /\ MaxAuthRequests \in Nat \ {0}   \* main() refuses an argument that is not > 0
    /\ MaxStarts \in Nat

VARIABLES
    up, starts,    \* the Receiver has the pipe open; starts of the platform
    pipe,          \* units [from, number, unit]; number 0 is the REGISTER message
    inFlight,      \* requests [from, number] between the Receiver and an engine
    accounts,      \* mobile ids that an engine has registered
    mobile,        \* "new", "waiting" in while(!logged), "logged" or "ended"
    asked,         \* auth_requests of each mobile
    \* ---- history
    refused,       \* mobiles whose REGISTER write() failed
    behind,        \* mobiles whose REGISTER was read behind something else
    dropped,       \* mobiles whose REGISTER a queue refused or evicted
    cutOff,        \* mobiles that waited when the platform ended
    strange,       \* the Receiver has taken a fragment for a message
    overfull       \* a read() found more in the pipe than it could take

mobileVars  == <<mobile, asked>>
historyVars == <<refused, behind, dropped, cutOff, strange, overfull>>
vars == <<up, starts, pipe, inFlight, accounts, mobileVars, historyVars>>

Init ==
    /\ up = FALSE /\ starts = 0
    /\ pipe = << >> /\ inFlight = {} /\ accounts = {}
    /\ mobile = [m \in Mobiles |-> "new"] /\ asked = [m \in Mobiles |-> 0]
    /\ refused = {} /\ behind = {} /\ dropped = {} /\ cutOff = {}
    /\ strange = FALSE /\ overfull = FALSE

---------------------------------------------------------------------------
\* MOBILES

Message(m, n) == [u \in 1 .. Units |-> [from |-> m, number |-> n, unit |-> u]]

\* write_to_user_pipe(): neither open() without a reader nor write() without room
\* is noticed.
CanWrite    == up /\ Len(pipe) + Units <= PipeUnits
Write(m, n) == pipe' = IF CanWrite THEN pipe \o Message(m, n) ELSE pipe

\* Faulty variant: no while(!logged).
StartAtOnce(m) ==
    /\ mobile[m] = "new"
    /\ mobile' = [mobile EXCEPT ![m] = "logged"]
    /\ Write(m, 0)
    /\ UNCHANGED <<up, starts, inFlight, accounts, asked, historyVars>>

MobileStart(m) ==
    /\ mobile[m] = "new"
    /\ mobile' = [mobile EXCEPT ![m] = "waiting"]
    /\ Write(m, 0)
    /\ refused' = IF CanWrite THEN refused ELSE refused \cup {m}
    /\ UNCHANGED <<up, starts, inFlight, accounts, asked, behind, dropped, cutOff, strange,
                   overfull>>

\* A request counts even if it was not written.
MobileRequest(m) ==
    /\ mobile[m] = "logged" /\ asked[m] < MaxAuthRequests
    /\ asked' = [asked EXCEPT ![m] = @ + 1]
    /\ Write(m, asked[m] + 1)
    /\ UNCHANGED <<up, starts, inFlight, accounts, mobile, historyVars>>

\* The last request is made, or SIGINT, while waiting too.
MobileEnd(m) ==
    /\ mobile[m] \in {"waiting", "logged"}
    /\ mobile' = [mobile EXCEPT ![m] = "ended"]
    /\ UNCHANGED <<up, starts, pipe, inFlight, accounts, asked, historyVars>>

---------------------------------------------------------------------------
\* THE RECEIVER

\* Faulty variant: the size of the pointer instead of the size of the buffer.
TakenShort == Min({Len(pipe), Units - 1})

\* read() takes what there is, up to the size of the buffer.
Taken == Min({Len(pipe), ReadUnits})

\* The string at the beginning of the buffer: up to the first NUL, or what there is.
StringEnd ==
    Min({Taken} \cup {i \in 1 .. Taken : pipe[i].unit = Units})

\* strtok() splits the string at '#'.  A fragment has another id in it or none (0), which
\* the Sender takes for nothing to send; a single token counts as a registration.
Parsed ==
    IF pipe[1].unit = 1 /\ pipe[StringEnd].unit = Units
    THEN {{[from |-> pipe[1].from, number |-> pipe[1].number]}}
    ELSE {{}} \cup {{[from |-> Stranger, number |-> n]} : n \in {0, 1}}

\* What stands behind the string in the buffer is lost; what the buffer had no room for
\* is the beginning of the next read.
Receive ==
    /\ up /\ pipe # << >>
    /\ \E requests \in Parsed : inFlight' = inFlight \cup requests
    /\ pipe' = SubSeq(pipe, Taken + 1, Len(pipe))
    /\ behind' = behind \cup {m \in Mobiles : \E i \in 2 .. Taken :
                    /\ pipe[i] = [from |-> m, number |-> 0, unit |-> 1]}
    /\ strange' = (strange \/ pipe[1].unit # 1 \/ pipe[StringEnd].unit # Units)
    /\ overfull' = (overfull \/ Len(pipe) > ReadUnits)
    /\ UNCHANGED <<up, starts, accounts, mobileVars, refused, dropped, cutOff>>

---------------------------------------------------------------------------
\* THE REST OF THE PLATFORM

Registers(r) == r.number = 0

\* Faulty variant: the account is made, but no SIGUSR1 sent.
ServeSilently(r) ==
    /\ up /\ r \in inFlight
    /\ inFlight' = inFlight \ {r}
    /\ accounts' = IF Registers(r) THEN accounts \cup {r.from} ELSE accounts
    /\ UNCHANGED <<up, starts, pipe, mobileVars, historyVars>>

\* An engine registers a mobile and sends SIGUSR1 to it, or answers a request.
Serve(r) ==
    /\ up /\ r \in inFlight
    /\ inFlight' = inFlight \ {r}
    /\ IF Registers(r)
       THEN /\ accounts' = accounts \cup {r.from}
            /\ mobile' = [m \in Mobiles |->
                             IF m = r.from /\ mobile[m] = "waiting" THEN "logged"
                             ELSE mobile[m]]
       ELSE UNCHANGED <<accounts, mobile>>
    /\ UNCHANGED <<up, starts, pipe, asked, historyVars>>

\* A full queue refuses a request, an overdue head takes it along.
Drop(r) ==
    /\ up /\ r \in inFlight
    /\ inFlight' = inFlight \ {r}
    /\ dropped' = IF Registers(r) THEN dropped \cup {r.from} ELSE dropped
    /\ UNCHANGED <<up, starts, pipe, accounts, mobileVars, refused, behind, cutOff, strange,
                   overfull>>

PlatformStart ==
    /\ ~up /\ starts < MaxStarts                         \* bound
    /\ up' = TRUE /\ starts' = starts + 1
    /\ UNCHANGED <<pipe, inFlight, accounts, mobileVars, historyVars>>

\* With its last reader gone the pipe loses its contents.
PlatformEnd ==
    /\ up
    /\ up' = FALSE /\ pipe' = << >> /\ inFlight' = {}
    /\ cutOff' = cutOff \cup {m \in Mobiles : mobile[m] = "waiting"}
    /\ UNCHANGED <<starts, accounts, mobileVars, refused, behind, dropped, strange,
                   overfull>>

---------------------------------------------------------------------------
Next ==
    \/ \E m \in Mobiles : MobileStart(m) \/ MobileRequest(m) \/ MobileEnd(m)
    \/ Receive
    \/ \E r \in inFlight : Serve(r) \/ Drop(r)
    \/ PlatformStart \/ PlatformEnd

Spec == Init /\ [][Next]_vars

\* The Receiver reads what is there and the platform gets through with a request, for
\* better or worse.
Fairness ==
    /\ WF_vars(Receive)
    /\ \A m \in Mobiles :
          LET r == [from |-> m, number |-> 0] IN WF_vars(Serve(r) \/ Drop(r))

FairSpec == Spec /\ Fairness

---------------------------------------------------------------------------
\* PROPERTIES

Request == [from : Mobiles \cup {Stranger}, number : 0 .. MaxAuthRequests]

\* Every variable keeps its type; requests are asked only by mobiles that are, or were,
\* registered, and the pipe is empty when nobody reads it.
TypeOK ==
    /\ up \in BOOLEAN /\ starts \in 0 .. MaxStarts
    /\ pipe \in Seq([from : Mobiles, number : 0 .. MaxAuthRequests, unit : 1 .. Units])
    /\ Len(pipe) <= PipeUnits /\ (~up => pipe = << >>)
    /\ inFlight \subseteq Request
    /\ accounts \subseteq Mobiles \cup {Stranger}
    /\ mobile \in [Mobiles -> {"new", "waiting", "logged", "ended"}]
    /\ asked \in [Mobiles -> 0 .. MaxAuthRequests]
    /\ \A m \in Mobiles : mobile[m] = "logged" \/ asked[m] > 0 => m \in accounts
    /\ refused \cup behind \cup cutOff \subseteq Mobiles
    /\ dropped \subseteq Mobiles \cup {Stranger}
    /\ strange \in BOOLEAN /\ overfull \in BOOLEAN

\* Nobody but a mobile is registered, and no request comes from anybody else, as long as
\* the pipe has never held more than one read() takes.
StrangersNeedOverflow ==
    strange \/ Stranger \in accounts \cup {r.from : r \in inFlight} => overfull

\* A mobile waits for SIGUSR1 for ever only when its REGISTER message could not be written,
\* was read behind another one, was dropped by a queue, or went down with the platform:
\* in particular a message at the head of the pipe gets through, whatever
\* follows it or was cut before it.
RegistrationEnds ==
    \A m \in Mobiles :
       (mobile[m] = "waiting")
          ~> (mobile[m] # "waiting" \/ m \in refused \cup behind \cup dropped \cup cutOff)

===========================================================================
