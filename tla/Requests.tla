----------------------------- MODULE Requests -----------------------------
(***************************************************************************)
(* What the request path promises of the messages it reads, whatever its   *)
(* threads do in between: each has one place at a time, goes from the      *)
(* Receiver to a queue, to the Sender, to one engine, and is served there; *)
(* a queue gives its requests away in the order they came; and a           *)
(* request is lost in six ways only.  Module Dispatch implements it.       *)
(***************************************************************************)
EXTENDS Integers, FiniteSets

CONSTANTS
    Engines, Backup,   (* the engines, and the one that the ARM may kill    *)
    QUEUE_POS,         (* capacity of each of the two queues                *)
    MaxRequests        (* bound: messages that ever arrive                  *)

VARIABLE at            \* the place of each message, by number

Engine(e) == <<"engine", e>>
Outside   == <<"outside", 0>>
Receiver  == <<"receiver", 0>>
Sender    == <<"sender", 0>>
Served    == <<"served", 0>>
Lost      == <<"lost", 0>>
Queues    == {<<"video", 0>>, <<"others", 0>>}

Ids   == 1 .. MaxRequests
In(p) == {id \in Ids : at[id] = p}

Init == at = [id \in Ids |-> Outside]

\* Those of ids change their place, nobody else does.
Move(ids, p) == at' = [id \in Ids |-> IF id \in ids THEN p ELSE at[id]]

Arrive(id) ==
    /\ In(Receiver) = {} /\ at[id] = Outside
    /\ \A earlier \in 1 .. id - 1 : at[earlier] # Outside
    /\ Move({id}, Receiver)

Insert(id) ==
    /\ at[id] = Receiver
    /\ \E q \in Queues : Cardinality(In(q)) < QUEUE_POS /\ Move({id}, q)

\* Only a full queue refuses a request.
Refuse(id) ==
    /\ at[id] = Receiver
    /\ \E q \in Queues : Cardinality(In(q)) = QUEUE_POS
    /\ Move({id}, Lost)

\* The Sender takes the oldest request of a queue, one at a time.
Take(id) ==
    /\ In(Sender) = {}
    /\ \E q \in Queues : at[id] = q /\ \A other \in In(q) : id <= other
    /\ Move({id}, Sender)

\* An overdue head takes its whole queue along.
Evict(q) == In(q) # {} /\ Move(In(q), Lost)

Assign(id, e) == at[id] = Sender /\ Move({id}, Engine(e))

\* Only a request for the backup engine may fail to be written.
Fail(id) == at[id] = Sender /\ Move({id}, Lost)

Serve(id, e) == at[id] = Engine(e) /\ Move({id}, Served)

\* The backup engine is killed with all that it has not served.
KillBackup == In(Engine(Backup)) # {} /\ Move(In(Engine(Backup)), Lost)

\* The group is killed: what is not served is lost, and nothing arrives any more.
KillAll == Move({id \in Ids : at[id] \notin {Outside, Served}}, Lost)

Next ==
    /\ at' # at
    /\ \/ \E id \in Ids :
             \/ Arrive(id) \/ Insert(id) \/ Refuse(id) \/ Take(id) \/ Fail(id)
             \/ \E e \in Engines : Assign(id, e) \/ Serve(id, e)
       \/ \E q \in Queues : Evict(q)
       \/ KillBackup \/ KillAll

Spec == Init /\ [][Next]_at

===========================================================================
