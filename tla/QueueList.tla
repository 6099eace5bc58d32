---------------------------- MODULE QueueList -----------------------------
(***************************************************************************)
(* The linked list of src/queue/queue.c, node by node: the heap cells that *)
(* malloc() has handed out, their next pointers, and the head, tail and    *)
(* size of queue_t.  drop() is a loop, one step per iteration; its callers *)
(* hold the queue's mutex from its first step to its last, so nothing else *)
(* happens in between, and it looks at the clock once, before the loop.    *)
(***************************************************************************)
EXTENDS RequestQueue, FiniteSets

CONSTANTS
    Cells,        (* the heap: malloc() fails when all are taken   *)
    NULL,
    MaxSize,      (* max_size of the queue                         *)
    Arrivals,     (* the kinds of request that this queue receives *)
    MaxRequests   (* bound: requests that are ever inserted        *)

ASSUME ListAssumption ==
    /\ IsFiniteSet(Cells) /\ NULL \notin Cells
    /\ MaxSize \in Nat \ {0} /\ MaxRequests \in Nat
    /\ Arrivals \subseteq Kinds

VARIABLES
    pc,            \* "idle", "evict" inside the loop of drop(), or "destroyed"
    head, tail,    \* cells or NULL
    size,
    node,          \* what each cell holds, freed or not: [request, next]
    allocated,     \* the cells between their malloc() and their free()
    late,          \* the requests that have waited their limit
    arrived,       \* how many requests have been handed to insert()
    returned,      \* what the last drop() returned
    before         \* history: the contents when the running drop() began

listVars    == <<head, tail, size, node, allocated>>
vars        == <<pc, listVars, late, arrived, returned, before>>

---------------------------------------------------------------------------
\* The cells that following next from head visits, in order, NULL at the end.
Visit == [i \in 0 .. Cardinality(Cells) |->
            LET walk[n \in 0 .. Cardinality(Cells)] ==
                    IF n = 0 THEN head
                    ELSE IF walk[n - 1] = NULL THEN NULL ELSE node[walk[n - 1]].next
            IN walk[i]]

Length   == Cardinality({i \in DOMAIN Visit : Visit[i] # NULL})
Contents == [i \in 1 .. Length |-> node[Visit[i - 1]].request]

---------------------------------------------------------------------------
\* create_queue()
Init ==
    /\ pc = "idle"
    /\ head = NULL /\ tail = NULL /\ size = 0
    /\ node = [c \in Cells |-> [request |-> NoRequest, next |-> NULL]]
    /\ allocated = {}
    /\ late = {} /\ arrived = 0 /\ returned = NoRequest
    /\ before = << >>

---------------------------------------------------------------------------
\* insert(): refused when the size has reached the maximum or malloc() fails.
InsertRefused ==
    /\ size >= MaxSize \/ allocated = Cells
    /\ UNCHANGED listVars

\* Faulty variant: the test of the size is off by one.
InsertOneTooMany(r) ==
    /\ size <= MaxSize
    /\ \E new \in Cells \ allocated :
          /\ allocated' = allocated \cup {new}
          /\ head' = IF head = NULL THEN new ELSE head
          /\ node' = [c \in Cells |->
                        IF c = new THEN [request |-> r, next |-> NULL]
                        ELSE IF head # NULL /\ c = tail THEN [node[c] EXCEPT !.next = new]
                        ELSE node[c]]
          /\ tail' = new
    /\ size' = size + 1

\* Faulty variant: the new node is linked in front of the list.
InsertInFront(r) ==
    /\ size < MaxSize
    /\ \E new \in Cells \ allocated :
          /\ allocated' = allocated \cup {new}
          /\ head' = new
          /\ node' = [node EXCEPT ![new] = [request |-> r, next |-> head]]
          /\ tail' = IF head = NULL THEN new ELSE tail
    /\ size' = size + 1

\* insert(): the new node becomes the tail, and the head of an empty list.
InsertLinked(r) ==
    /\ size < MaxSize
    /\ \E new \in Cells \ allocated :
          /\ allocated' = allocated \cup {new}
          /\ head' = IF head = NULL THEN new ELSE head
          /\ node' = [c \in Cells |->
                        IF c = new THEN [request |-> r, next |-> NULL]
                        ELSE IF head # NULL /\ c = tail THEN [node[c] EXCEPT !.next = new]
                        ELSE node[c]]
          /\ tail' = new
    /\ size' = size + 1

Insert(kind) ==
    /\ pc = "idle" /\ arrived < MaxRequests
    /\ arrived' = arrived + 1
    /\ InsertRefused \/ InsertLinked([id |-> arrived + 1, kind |-> kind])
    /\ UNCHANGED <<pc, late, returned, before>>

---------------------------------------------------------------------------
\* drop() of an empty queue.
DropNothing ==
    /\ pc = "idle" /\ head = NULL
    /\ returned' = NoRequest
    /\ UNCHANGED <<pc, listVars, late, arrived, before>>

DropStart ==
    /\ pc = "idle" /\ head # NULL
    /\ before' = Contents
    /\ pc' = "evict"
    /\ UNCHANGED <<listVars, late, arrived, returned>>

\* Faulty variant: remove_last_node() forgets to move the tail back.
RemoveKeepsTail ==
    LET temp == Visit[Length - 1]
    IN /\ allocated' = allocated \ {temp}
       /\ size' = size - 1
       /\ IF Length > 1
          THEN /\ node' = [node EXCEPT ![Visit[Length - 2]].next = NULL]
               /\ UNCHANGED <<head, tail>>
          ELSE /\ head' = NULL /\ tail' = NULL
               /\ UNCHANGED node

\* remove_last_node() frees the node that temp ends on and cuts it off prev.
RemoveLastNode ==
    LET temp == Visit[Length - 1]
    IN /\ allocated' = allocated \ {temp}
       /\ size' = size - 1
       /\ IF Length > 1
          THEN LET prev == Visit[Length - 2]
               IN /\ node' = [node EXCEPT ![prev].next = NULL]
                  /\ tail' = prev
                  /\ UNCHANGED head
          ELSE /\ head' = NULL /\ tail' = NULL
               /\ UNCHANGED node

\* An iteration of the loop: the head is overdue and the last node is removed.
DropEvict ==
    /\ pc = "evict"
    /\ head # NULL /\ Overdue(node[head].request, late)
    /\ RemoveLastNode
    /\ UNCHANGED <<pc, late, arrived, returned, before>>

\* The loop has emptied the queue.
DropEmptied ==
    /\ pc = "evict" /\ head = NULL
    /\ returned' = NoRequest
    /\ pc' = "idle" /\ before' = << >>
    /\ UNCHANGED <<listVars, late, arrived>>

\* The head is in time: it is unlinked, freed and returned.
DropHead ==
    /\ pc = "evict"
    /\ head # NULL /\ ~Overdue(node[head].request, late)
    /\ returned' = node[head].request
    /\ head' = node[head].next
    /\ tail' = IF node[head].next = NULL THEN NULL ELSE tail
    /\ size' = size - 1
    /\ allocated' = allocated \ {head}
    /\ pc' = "idle" /\ before' = << >>
    /\ UNCHANGED <<node, late, arrived>>

---------------------------------------------------------------------------
\* destroy_queue() frees every node it can reach.
Destroy ==
    /\ pc = "idle"
    /\ pc' = "destroyed"
    /\ allocated' = allocated \ {Visit[i] : i \in DOMAIN Visit}
    /\ head' = NULL /\ tail' = NULL
    /\ UNCHANGED <<size, node, late, arrived, returned, before>>

\* Time passes between two calls: the oldest request with a limit is late first.
Expire ==
    /\ pc = "idle"
    /\ \E i \in 1 .. Length :
          /\ Contents[i].kind # "REGISTER" /\ Contents[i] \notin late
          /\ \A j \in 1 .. i - 1 : Contents[j].kind # "REGISTER" => Contents[j] \in late
          /\ late' = late \cup {Contents[i]}
    /\ UNCHANGED <<pc, listVars, arrived, returned, before>>

---------------------------------------------------------------------------
Next ==
    \/ \E kind \in Arrivals : Insert(kind)
    \/ DropNothing \/ DropStart \/ DropEvict \/ DropEmptied \/ DropHead
    \/ Destroy \/ Expire

Spec == Init /\ [][Next]_vars

---------------------------------------------------------------------------
\* Pointers are cells or NULL, what a cell holds is a node, counts are in range.
TypeOK ==
    /\ pc \in {"idle", "evict", "destroyed"}
    /\ head \in Cells \cup {NULL} /\ tail \in Cells \cup {NULL}
    /\ size \in 0 .. MaxSize
    /\ node \in [Cells -> [request : Request \cup {NoRequest}, next : Cells \cup {NULL}]]
    /\ allocated \subseteq Cells
    /\ late \subseteq Request /\ arrived \in 0 .. MaxRequests
    /\ returned \in Request \cup {NoRequest}

\* The list is sound after every iteration of every loop: next reaches NULL, tail is
\* the last node and NULL only with head, size counts the nodes, and the nodes in
\* the list are exactly the allocated ones, so nothing leaks and no freed cell is
\* reachable, not even after destroy_queue().
WellFormed ==
    /\ Visit[Cardinality(Cells)] = NULL
    /\ tail = IF head = NULL THEN NULL ELSE Visit[Length - 1]
    /\ pc # "destroyed" => size = Length
    /\ allocated = {Visit[i] : i \in DOMAIN Visit} \ {NULL}

\* The list implements the bounded queue: a whole drop(), loop included, is one Drop
\* of BoundedQueue, and malloc() never fails as long as the heap holds MaxSize nodes.
Abstract == INSTANCE BoundedQueue WITH
    queue     <- IF pc = "evict" THEN before ELSE Contents,
    destroyed <- pc = "destroyed"

ImplementsBoundedQueue == Abstract!Spec

===========================================================================
