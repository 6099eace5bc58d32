--------------------------- MODULE RequestQueue ---------------------------
(***************************************************************************)
(* The bounded request queue of src/queue/queue.c as operators on a        *)
(* sequence.  Video_Streaming_Queue and Others_Services_Queue are two      *)
(* values of this type.  queue_t's linked list (head, tail, size) is the   *)
(* sequence itself here; module QueueList keeps the pointers and shows     *)
(* that they implement these operators.                                    *)
(***************************************************************************)
EXTENDS Naturals, Sequences

\* What the two queues tell apart: REGISTER and VIDEO requests share the video
\* queue and only REGISTER is exempt from the waiting limit; OTHER stands for
\* SOCIAL, MUSIC and the backoffice commands data_stats and reset.
Kinds == {"REGISTER", "VIDEO", "OTHER"}

\* id stands for the request's identity: its mobile_id, data and creation_time.
Request == [id : Nat \ {0}, kind : Kinds]

\* drop() says "nothing to send" with a request whose mobile_id is 0.
NoRequest == [id |-> 0, kind |-> "NONE"]

---------------------------------------------------------------------------

IsEmpty(queue) == queue = << >>

IsFull(queue, maxSize) == Len(queue) = maxSize

\* half_max is max_size / 2 rounded up.
IsQueueHalfFull(queue, maxSize) ==
    Len(queue) <= (maxSize \div 2) + (maxSize % 2)

\* insert() refuses when size >= max_size.
HasRoom(queue, maxSize) == Len(queue) < maxSize

---------------------------------------------------------------------------

\* `late` is the set of requests that have waited MAX_VIDEO_WAIT or
\* MAX_OTHERS_WAIT; a REGISTER request is never measured.
Overdue(r, late) == r.kind # "REGISTER" /\ r \in late

\* The eviction loop of drop(): while the head is overdue it calls
\* remove_last_node(), which frees the TAIL, so the head stays where it is and
\* the loop only ends with the queue empty.
Kept(queue, late) ==
    IF ~IsEmpty(queue) /\ Overdue(Head(queue), late) THEN << >> ELSE queue

\* What drop() returns ...
Dropped(queue, late) ==
    IF IsEmpty(Kept(queue, late)) THEN NoRequest ELSE Head(queue)

\* Faulty variant: drop() returns the head and leaves it in the queue.
AfterPeek(queue, late) == Kept(queue, late)

\* ... and what it leaves in the queue.
AfterDrop(queue, late) ==
    IF IsEmpty(Kept(queue, late)) THEN << >> ELSE Tail(queue)

\* The requests a sequence holds.
Elements(seq) == {seq[i] : i \in 1 .. Len(seq)}

===========================================================================
