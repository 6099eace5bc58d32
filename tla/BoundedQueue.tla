--------------------------- MODULE BoundedQueue ---------------------------
(***************************************************************************)
(* What one request queue promises to its callers, the Receiver and the    *)
(* Sender: insert(), drop() and destroy_queue() as single steps on a       *)
(* sequence, in the operators of RequestQueue that module Dispatch is      *)
(* built from.                                                             *)
(***************************************************************************)
EXTENDS RequestQueue

CONSTANTS
    MaxSize,      (* max_size of the queue                         *)
    Arrivals,     (* the kinds of request that this queue receives *)
    MaxRequests   (* bound: requests that are ever inserted        *)

VARIABLES
    queue,      \* the requests in the queue, oldest first
    late,       \* those that have waited their limit
    arrived,    \* how many requests have been handed to insert()
    returned,   \* what the last drop() returned
    destroyed   \* destroy_queue() has run

vars == <<queue, late, arrived, returned, destroyed>>

Init ==
    /\ queue = << >> /\ late = {} /\ arrived = 0
    /\ returned = NoRequest /\ destroyed = FALSE

Insert(kind) ==
    /\ ~destroyed /\ arrived < MaxRequests
    /\ arrived' = arrived + 1
    /\ queue' = IF HasRoom(queue, MaxSize)
                THEN Append(queue, [id |-> arrived + 1, kind |-> kind]) ELSE queue
    /\ UNCHANGED <<late, returned, destroyed>>

Drop ==
    /\ ~destroyed
    /\ returned' = Dropped(queue, late)
    /\ queue' = AfterDrop(queue, late)
    /\ UNCHANGED <<late, arrived, destroyed>>

\* The oldest request that has a limit exceeds it first.
Expire ==
    /\ \E i \in 1 .. Len(queue) :
          /\ queue[i].kind # "REGISTER" /\ queue[i] \notin late
          /\ \A j \in 1 .. i - 1 : queue[j].kind # "REGISTER" => queue[j] \in late
          /\ late' = late \cup {queue[i]}
    /\ UNCHANGED <<queue, arrived, returned, destroyed>>

Destroy ==
    /\ ~destroyed
    /\ destroyed' = TRUE
    /\ queue' = << >>
    /\ UNCHANGED <<late, arrived, returned>>

Next == (\E kind \in Arrivals : Insert(kind)) \/ Drop \/ Expire \/ Destroy

Spec == Init /\ [][Next]_vars

===========================================================================
