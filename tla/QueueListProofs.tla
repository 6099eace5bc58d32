-------------------------- MODULE QueueListProofs --------------------------
(***************************************************************************)
(* Theorems about module QueueList, for every heap, every size of the      *)
(* queue and every number of requests: TypeOK, WellFormed, and that the    *)
(* linked list implements BoundedQueue.  The list is described by the      *)
(* sequence of its cells: what a step does to the pointers is what it does *)
(* to that sequence.                                                       *)
(***************************************************************************)
EXTENDS QueueList, SequenceTheorems, SumProofs

---------------------------------------------------------------------------
\* THE INDUCTIVE INVARIANT

NodeType == [request : Request \cup {NoRequest}, next : Cells \cup {NULL}]

\* The sequence of the cells of the list.
IsList(list) ==
    /\ list \in Seq(Cells)
    /\ \A i, j \in 1 .. Len(list) : list[i] = list[j] => i = j
    /\ head = IF Len(list) = 0 THEN NULL ELSE list[1]
    /\ tail = IF Len(list) = 0 THEN NULL ELSE list[Len(list)]
    /\ \A i \in 1 .. Len(list) :
          /\ node[list[i]].next = IF i = Len(list) THEN NULL ELSE list[i + 1]
          /\ node[list[i]].request \in Request
    /\ allocated = {list[i] : i \in 1 .. Len(list)}
    /\ pc # "destroyed" => size = Len(list)

\* While drop() runs, the list is what it was, or its head is late and the same.
Evicting(list) ==
    pc = "evict" =>
       /\ before \in Seq(Request) /\ Len(before) > 0
       /\ \/ /\ Len(list) = Len(before)
             /\ \A i \in 1 .. Len(list) : node[list[i]].request = before[i]
          \/ /\ Overdue(before[1], late)
             /\ Len(list) > 0 => node[list[1]].request = before[1]

IInv == TypeOK /\ \E list : IsList(list) /\ Evicting(list)

---------------------------------------------------------------------------
\* WALKING THE LIST

\* What the recursive function of Visit has to satisfy.
Walks(walk) ==
    walk = [n \in 0 .. Cardinality(Cells) |->
               IF n = 0 THEN head
               ELSE IF walk[n - 1] = NULL THEN NULL ELSE node[walk[n - 1]].next]

Steps(list) ==
    [n \in 0 .. Cardinality(Cells) |-> IF n < Len(list) THEN list[n + 1] ELSE NULL]

LEMMA HeapSize == IsFiniteSet(Cells) /\ Cardinality(Cells) \in Nat
BY ListAssumption, FS_CardinalityType

\* A list without repetitions is no longer than the heap.
LEMMA ListFits ==
    ASSUME NEW list, IsList(list)
    PROVE  /\ Len(list) \in Nat /\ Len(list) <= Cardinality(Cells)
           /\ Cardinality(allocated) = Len(list)
<1>1. list \in Seq(Cells) /\ Len(list) \in Nat /\ list \in [1 .. Len(list) -> Cells]
  BY DEF IsList
<1>2. list \in Injection(1 .. Len(list), allocated)
  BY <1>1 DEF IsList, Injection, IsInjective
<1>3. list \in Surjection(1 .. Len(list), allocated)
  BY <1>1 DEF IsList, Surjection
<1>4. ExistsBijection(1 .. Len(list), allocated)
  BY <1>2, <1>3 DEF ExistsBijection, Bijection
<1>5. Cardinality(allocated) = Len(list)
  BY <1>1, <1>4, FS_CountingElements
<1>6. allocated \subseteq Cells
  BY <1>1 DEF IsList
<1>7. Cardinality(allocated) <= Cardinality(Cells)
  BY <1>6, HeapSize, FS_Subset
<1> QED
  BY <1>1, <1>5, <1>7

\* The steps along the list are such a function ...
LEMMA StepsWalk ==
    ASSUME NEW list, IsList(list)
    PROVE  Walks(Steps(list))
<1>1. Len(list) \in Nat /\ Len(list) <= Cardinality(Cells) /\ Cardinality(Cells) \in Nat
  BY ListFits, HeapSize
<1> DEFINE walk == Steps(list)
<1>2. ASSUME NEW n \in 0 .. Cardinality(Cells)
      PROVE  walk[n] = IF n = 0 THEN head
                       ELSE IF walk[n - 1] = NULL THEN NULL ELSE node[walk[n - 1]].next
  <2>1. walk[n] = IF n < Len(list) THEN list[n + 1] ELSE NULL
    BY DEF Steps
  <2>2. CASE n = 0
    BY <1>1, <2>1, <2>2 DEF IsList
  <2>3. CASE n # 0
    <3>1. n - 1 \in 0 .. Cardinality(Cells) /\ (n - 1) + 1 = n
      BY <1>1, <2>3
    <3>2. walk[n - 1] = IF n - 1 < Len(list) THEN list[n] ELSE NULL
      BY <3>1 DEF Steps
    <3>3. CASE n <= Len(list)
      <4>1. n \in 1 .. Len(list) /\ n - 1 < Len(list)
        BY <1>1, <2>3, <3>3
      <4>2. walk[n - 1] = list[n] /\ list[n] # NULL
        BY <3>2, <4>1, ListAssumption DEF IsList
      <4>3. node[list[n]].next = IF n = Len(list) THEN NULL ELSE list[n + 1]
        BY <4>1 DEF IsList
      <4>4. walk[n] = IF n = Len(list) THEN NULL ELSE list[n + 1]
        BY <1>1, <2>1, <4>1
      <4> HIDE DEF walk
      <4> QED
        BY <2>3, <4>2, <4>3, <4>4
    <3>4. CASE ~(n <= Len(list))
      <4>1. walk[n - 1] = NULL /\ walk[n] = NULL
        BY <1>1, <2>1, <3>2, <3>4
      <4> QED
        BY <2>3, <4>1
    <3> QED
      BY <3>3, <3>4
  <2> QED
    BY <2>2, <2>3
<1>3. DOMAIN walk = 0 .. Cardinality(Cells) /\ walk = [n \in 0 .. Cardinality(Cells) |-> walk[n]]
  BY DEF Steps
<1> HIDE DEF walk
<1>4. Walks(walk)
  BY <1>2, <1>3 DEF Walks
<1> QED
  BY <1>4 DEF walk

\* ... and there is no other: if two differed, they would at a first step.
LEMMA OnlyStepsWalk ==
    ASSUME NEW v, NEW w, Walks(v), Walks(w)
    PROVE  v = w
<1> DEFINE wrong == {n \in 0 .. Cardinality(Cells) : v[n] # w[n]}
<1>1. Cardinality(Cells) \in Nat
  BY HeapSize
<1>2. wrong = {}
  <2> SUFFICES ASSUME wrong # {} PROVE FALSE
    OBVIOUS
  <2>1. wrong \in SUBSET Nat
    BY <1>1
  <2>2. PICK n \in wrong : \A k \in wrong : n <= k
    BY <2>1, LeastNumber
  <2>3. n \in 0 .. Cardinality(Cells) /\ v[n] # w[n]
    BY <2>2
  <2>4. /\ v[n] = IF n = 0 THEN head
                  ELSE IF v[n - 1] = NULL THEN NULL ELSE node[v[n - 1]].next
        /\ w[n] = IF n = 0 THEN head
                  ELSE IF w[n - 1] = NULL THEN NULL ELSE node[w[n - 1]].next
    BY <2>3 DEF Walks
  <2>5. n # 0
    BY <2>3, <2>4
  <2>6. n - 1 \in 0 .. Cardinality(Cells) /\ ~(n <= n - 1)
    BY <1>1, <2>3, <2>5
  <2>7. v[n - 1] = w[n - 1]
    BY <2>2, <2>6
  <2> QED
    BY <2>3, <2>4, <2>7
<1>3. \A n \in 0 .. Cardinality(Cells) : v[n] = w[n]
  BY <1>2
<1> QED
  BY <1>3 DEF Walks

\* So Visit goes through the list.
LEMMA VisitList ==
    ASSUME NEW list, IsList(list)
    PROVE  Visit = Steps(list)
<1>1. \E walk : Walks(walk)
  BY StepsWalk
<1>2. \A walk : Walks(walk) => walk = Steps(list)
  BY StepsWalk, OnlyStepsWalk
<1> DEFINE walk == CHOOSE f : Walks(f)
<1>3. walk = Steps(list)
  BY <1>1, <1>2
<1>4. Visit = [i \in 0 .. Cardinality(Cells) |-> walk[i]]
  BY DEF Visit, Walks
<1> HIDE DEF walk
<1> QED
  BY <1>3, <1>4 DEF Steps

LEMMA LengthList ==
    ASSUME NEW list, IsList(list)
    PROVE  Length = Len(list)
<1>1. Len(list) \in Nat /\ Len(list) <= Cardinality(Cells) /\ Cardinality(Cells) \in Nat
  BY ListFits, HeapSize
<1>2. Visit = Steps(list)
  BY VisitList
<1>3. {i \in DOMAIN Visit : Visit[i] # NULL} = 0 .. Len(list) - 1
  <2>1. ASSUME NEW i \in 0 .. Cardinality(Cells)
        PROVE  Steps(list)[i] # NULL <=> i < Len(list)
    <3>1. Steps(list)[i] = IF i < Len(list) THEN list[i + 1] ELSE NULL
      BY DEF Steps
    <3>2. i < Len(list) => list[i + 1] \in Cells
      BY <1>1 DEF IsList
    <3> QED
      BY <3>1, <3>2, ListAssumption
  <2>2. DOMAIN Steps(list) = 0 .. Cardinality(Cells)
    BY DEF Steps
  <2> QED
    BY <1>1, <1>2, <2>1, <2>2
<1>4. Cardinality(0 .. Len(list) - 1) = Len(list)
  <2>1. Cardinality(0 .. Len(list) - 1)
           = IF 0 > Len(list) - 1 THEN 0 ELSE (Len(list) - 1) - 0 + 1
    <3>1. 0 \in Int /\ Len(list) - 1 \in Int
      BY <1>1
    <3> QED
      BY <3>1, FS_Interval, Zenon
  <2> QED
    BY <1>1, <2>1
<1> QED
  BY <1>3, <1>4 DEF Length

\* Contents is what the cells hold.
Requests(list) == [i \in 1 .. Len(list) |-> node[list[i]].request]

LEMMA ContentsList ==
    ASSUME NEW list, IsList(list)
    PROVE  /\ Contents = Requests(list)
           /\ Contents \in Seq(Request) /\ Len(Contents) = Len(list)
<1>1. Length = Len(list) /\ Visit = Steps(list)
  BY LengthList, VisitList
<1>2. Len(list) \in Nat /\ Len(list) <= Cardinality(Cells) /\ Cardinality(Cells) \in Nat
  BY ListFits, HeapSize
<1>3. \A i \in 1 .. Len(list) : Visit[i - 1] = list[i]
  <2> SUFFICES ASSUME NEW i \in 1 .. Len(list) PROVE Visit[i - 1] = list[i]
    OBVIOUS
  <2>1. i - 1 \in 0 .. Cardinality(Cells) /\ i - 1 < Len(list) /\ (i - 1) + 1 = i
    BY <1>2
  <2> QED
    BY <1>1, <2>1 DEF Steps
<1>4. Contents = Requests(list)
  BY <1>1, <1>3 DEF Contents, Requests
<1>5. Requests(list) \in Seq(Request) /\ Len(Requests(list)) = Len(list)
  BY <1>2 DEF Requests, IsList
<1> QED
  BY <1>4, <1>5

---------------------------------------------------------------------------
\* WHAT A STEP DOES TO THE LIST

LEMMA ListFacts ==
    ASSUME NEW list, IsList(list)
    PROVE  /\ Len(list) \in Nat
           /\ \A i \in 1 .. Len(list) : list[i] \in Cells /\ list[i] # NULL
           /\ head = NULL <=> Len(list) = 0
BY ListAssumption DEF IsList

\* Nothing.
LEMMA SameList ==
    ASSUME NEW list, IsList(list), UNCHANGED listVars, pc' = "destroyed" \/ pc # "destroyed"
    PROVE  IsList(list)'
BY DEF IsList, listVars

\* insert(): one cell more at the end.
LEMMA InsertList ==
    ASSUME TypeOK, NEW list, IsList(list), NEW r \in Request, InsertLinked(r), pc # "destroyed"
    PROVE  \E new \in Cells : IsList(Append(list, new))' /\ node'[new].request = r
              /\ \A i \in 1 .. Len(list) : node'[list[i]].request = node[list[i]].request
<1>1. PICK new \in Cells \ allocated :
          /\ allocated' = allocated \cup {new}
          /\ head' = IF head = NULL THEN new ELSE head
          /\ node' = [c \in Cells |->
                        IF c = new THEN [request |-> r, next |-> NULL]
                        ELSE IF head # NULL /\ c = tail THEN [node[c] EXCEPT !.next = new]
                        ELSE node[c]]
          /\ tail' = new
  BY DEF InsertLinked
<1>2. size' = size + 1
  BY DEF InsertLinked
<1> DEFINE more == Append(list, new)
           n == Len(list)
<1>3. /\ list \in Seq(Cells) /\ n \in Nat /\ new # NULL
      /\ \A i \in 1 .. n : list[i] \in Cells /\ list[i] # new
      /\ head = NULL <=> n = 0
  BY <1>1, ListFacts, ListAssumption DEF IsList
<1>4. /\ more \in Seq(Cells) /\ Len(more) = n + 1 /\ more[n + 1] = new
      /\ \A i \in 1 .. n : more[i] = list[i]
  BY <1>1, <1>3, AppendProperties
<1> HIDE DEF more
<1>5. \A i, j \in 1 .. Len(more) : more[i] = more[j] => i = j
  BY <1>3, <1>4 DEF IsList
<1>6. /\ head' = IF Len(more) = 0 THEN NULL ELSE more[1]
      /\ tail' = IF Len(more) = 0 THEN NULL ELSE more[Len(more)]
  <2>1. CASE n = 0
    BY <1>1, <1>3, <1>4, <2>1
  <2>2. CASE n # 0
    <3>1. head = list[1] /\ 1 \in 1 .. n
      BY <1>3, <2>2 DEF IsList
    <3> QED
      BY <1>1, <1>3, <1>4, <2>2, <3>1
  <2> QED
    BY <2>1, <2>2
<1>7. node'[new] = [request |-> r, next |-> NULL]
  BY <1>1
<1>8. ASSUME NEW i \in 1 .. n
      PROVE  /\ node'[list[i]].next = more[i + 1]
             /\ node'[list[i]].request = node[list[i]].request
  <2>1. list[i] \in Cells /\ list[i] # new /\ head # NULL
    BY <1>3
  <2>2. node'[list[i]] = IF list[i] = tail THEN [node[list[i]] EXCEPT !.next = new]
                         ELSE node[list[i]]
    BY <1>1, <2>1
  <2>3. node[list[i]] \in NodeType
    BY <2>1 DEF TypeOK, NodeType
  <2>4. tail = list[n] /\ n \in 1 .. n
    BY <1>3 DEF IsList
  <2>5. list[i] = tail <=> i = n
    BY <2>4 DEF IsList
  <2>6. CASE i = n
    BY <1>4, <2>2, <2>3, <2>5, <2>6 DEF NodeType
  <2>7. CASE i # n
    <3>1. node[list[i]].next = list[i + 1] /\ i + 1 \in 1 .. n
      BY <1>3, <2>7 DEF IsList
    <3> QED
      BY <1>4, <2>2, <2>5, <2>7, <3>1
  <2> QED
    BY <2>6, <2>7
<1>9. \A i \in 1 .. Len(more) :
          /\ node'[more[i]].next = IF i = Len(more) THEN NULL ELSE more[i + 1]
          /\ node'[more[i]].request \in Request
  <2> SUFFICES ASSUME NEW i \in 1 .. Len(more)
               PROVE  /\ node'[more[i]].next = IF i = Len(more) THEN NULL ELSE more[i + 1]
                      /\ node'[more[i]].request \in Request
    OBVIOUS
  <2>1. CASE i = n + 1
    BY <1>4, <1>7, <2>1
  <2>2. CASE i \in 1 .. n
    BY <1>3, <1>4, <1>8, <2>2 DEF IsList
  <2> QED
    BY <1>3, <1>4, <2>1, <2>2
<1>10. allocated' = {more[i] : i \in 1 .. Len(more)}
  <2>1. 1 .. Len(more) = (1 .. n) \cup {n + 1}
    BY <1>3, <1>4
  <2> QED
    BY <1>1, <1>4, <2>1 DEF IsList
<1>11. size' = Len(more)
  BY <1>2, <1>4 DEF IsList
<1>12. IsList(more)'
  BY <1>4, <1>5, <1>6, <1>9, <1>10, <1>11 DEF IsList
<1>13. node'[new].request = r
  BY <1>7
<1> QED
  BY <1>8, <1>12, <1>13 DEF more

\* remove_last_node(): the last cell is cut off.
Shorter(list) == SubSeq(list, 1, Len(list) - 1)

LEMMA ShorterFacts ==
    ASSUME NEW list, IsList(list), Len(list) > 0
    PROVE  /\ Shorter(list) \in Seq(Cells) /\ Len(Shorter(list)) = Len(list) - 1
           /\ \A i \in 1 .. Len(list) - 1 : Shorter(list)[i] = list[i]
<1> DEFINE n == Len(list) - 1
<1>1. list \in Seq(Cells) /\ n \in Nat /\ n <= Len(list) /\ Len(list) \in Nat
  BY DEF IsList
<1>2. /\ \A i \in 1 .. n : i \in 1 .. Len(list) /\ list[i] \in Cells
      /\ SubSeq(list, 1, n) = [i \in 1 .. n |-> list[i]]
  BY <1>1
<1>3. /\ [i \in 1 .. n |-> list[i]] \in Seq(Cells)
      /\ Len([i \in 1 .. n |-> list[i]]) = n
  BY <1>1, <1>2
<1> QED
  BY <1>2, <1>3 DEF Shorter

LEMMA RemoveList ==
    ASSUME TypeOK, NEW list, IsList(list), head # NULL, RemoveLastNode, pc # "destroyed"
    PROVE  /\ IsList(Shorter(list))'
           /\ \A i \in 1 .. Len(list) - 1 : node'[list[i]].request = node[list[i]].request
<1> DEFINE n == Len(list)
           less == Shorter(list)
           temp == Visit[Length - 1]
<1>1. Length = n /\ Visit = Steps(list) /\ n \in Nat /\ n <= Cardinality(Cells) /\ n > 0
      /\ Cardinality(Cells) \in Nat
  BY LengthList, VisitList, ListFits, ListFacts, HeapSize
<1>2. temp = list[n]
  <2>1. n - 1 \in 0 .. Cardinality(Cells) /\ n - 1 < n /\ (n - 1) + 1 = n
    BY <1>1
  <2> QED
    BY <1>1, <2>1 DEF Steps
<1>3. n > 1 => Visit[Length - 2] = list[n - 1]
  <2> SUFFICES ASSUME n > 1 PROVE Visit[Length - 2] = list[n - 1]
    OBVIOUS
  <2>1. n - 2 \in 0 .. Cardinality(Cells) /\ n - 2 < n /\ (n - 2) + 1 = n - 1
    BY <1>1
  <2> QED
    BY <1>1, <2>1 DEF Steps
<1>4. /\ less \in Seq(Cells) /\ Len(less) = n - 1
      /\ \A i \in 1 .. n - 1 : less[i] = list[i]
  BY <1>1, ShorterFacts
<1>5. /\ \A i \in 1 .. n : list[i] \in Cells
      /\ \A i, j \in 1 .. n : list[i] = list[j] => i = j
  BY ListFacts DEF IsList
<1>6. allocated' = allocated \ {list[n]} /\ size' = size - 1
  BY <1>2 DEF RemoveLastNode
<1> HIDE DEF less, temp
<1>7. \A i, j \in 1 .. Len(less) : less[i] = less[j] => i = j
  BY <1>1, <1>4, <1>5
<1>8. allocated' = {less[i] : i \in 1 .. Len(less)}
  <2>1. 1 .. n = (1 .. n - 1) \cup {n} /\ n \notin 1 .. n - 1 /\ n \in 1 .. n
    BY <1>1
  <2>2. allocated = {list[i] : i \in 1 .. n - 1} \cup {list[n]}
    BY <2>1 DEF IsList
  <2>3. list[n] \notin {list[i] : i \in 1 .. n - 1}
    BY <1>5, <2>1
  <2> QED
    BY <1>4, <1>6, <2>2, <2>3
<1>9. size' = Len(less)
  BY <1>4, <1>6 DEF IsList
<1>10. CASE n > 1
  <2>1. /\ node' = [node EXCEPT ![list[n - 1]].next = NULL]
        /\ tail' = list[n - 1] /\ head' = head
    BY <1>1, <1>3, <1>10 DEF RemoveLastNode
  <2>2. node \in [Cells -> NodeType] /\ n - 1 \in 1 .. n
    BY <1>1, <1>10 DEF TypeOK, NodeType
  <2>3. ASSUME NEW i \in 1 .. n - 1
        PROVE  /\ node'[list[i]].next = IF i = n - 1 THEN NULL ELSE list[i + 1]
               /\ node'[list[i]].request = node[list[i]].request
               /\ node'[list[i]].request \in Request
    <3>1. i \in 1 .. n /\ i # n
      BY <1>1
    <3>2. list[i] \in Cells /\ list[i] = list[n - 1] <=> i = n - 1
      BY <1>5, <2>2, <3>1
    <3>3. node[list[i]].next = list[i + 1] /\ node[list[i]].request \in Request
      BY <3>1 DEF IsList
    <3>4. CASE i = n - 1
      BY <1>5, <2>1, <2>2, <3>1, <3>3, <3>4 DEF NodeType
    <3>5. CASE i # n - 1
      <4>1. list[i] # list[n - 1] /\ list[i] \in Cells
        BY <1>5, <2>2, <3>1, <3>5
      <4>2. node'[list[i]] = node[list[i]]
        BY <2>1, <2>2, <4>1
      <4> QED
        BY <3>3, <3>5, <4>2
    <3> QED
      BY <3>4, <3>5
  <2>4. \A i \in 1 .. Len(less) :
            /\ node'[less[i]].next = IF i = Len(less) THEN NULL ELSE less[i + 1]
            /\ node'[less[i]].request \in Request
    <3> SUFFICES ASSUME NEW i \in 1 .. n - 1
                 PROVE  /\ node'[less[i]].next = IF i = n - 1 THEN NULL ELSE less[i + 1]
                        /\ node'[less[i]].request \in Request
      BY <1>4
    <3>1. i # n - 1 => i + 1 \in 1 .. n - 1
      BY <1>1
    <3> QED
      BY <1>4, <2>3, <3>1
  <2>5. /\ head' = IF Len(less) = 0 THEN NULL ELSE less[1]
        /\ tail' = IF Len(less) = 0 THEN NULL ELSE less[Len(less)]
    <3>1. 1 \in 1 .. n - 1 /\ n - 1 \in 1 .. n - 1 /\ head = list[1] /\ n - 1 # 0
      BY <1>1, <1>10 DEF IsList
    <3> QED
      BY <1>4, <2>1, <3>1
  <2>6. IsList(less)'
    BY <1>4, <1>7, <1>8, <1>9, <2>4, <2>5 DEF IsList
  <2> QED
    BY <2>3, <2>6 DEF less
<1>11. CASE n = 1
  <2>1. head' = NULL /\ tail' = NULL /\ node' = node
    BY <1>1, <1>11 DEF RemoveLastNode
  <2>2. Len(less) = 0 /\ 1 .. Len(less) = {}
    BY <1>4, <1>11
  <2>3. IsList(less)'
    BY <1>4, <1>7, <1>8, <1>9, <2>1, <2>2 DEF IsList
  <2> QED
    BY <2>1, <2>3 DEF less
<1> QED
  BY <1>1, <1>10, <1>11

\* The head of the list leaves it.
LEMMA TailFacts ==
    ASSUME NEW list, IsList(list), Len(list) > 0
    PROVE  /\ Tail(list) \in Seq(Cells) /\ Len(Tail(list)) = Len(list) - 1
           /\ \A i \in 1 .. Len(list) - 1 : Tail(list)[i] = list[i + 1]
<1>1. list \in Seq(Cells) /\ list # << >>
  BY DEF IsList
<1> QED
  BY <1>1

LEMMA HeadList ==
    ASSUME NEW list, IsList(list), head # NULL, DropHead
    PROVE  IsList(Tail(list))'
<1> DEFINE n == Len(list)
           less == Tail(list)
<1>1. n \in Nat /\ n > 0 /\ head = list[1] /\ 1 \in 1 .. n /\ n \in 1 .. n
  BY ListFacts DEF IsList
<1>2. /\ less \in Seq(Cells) /\ Len(less) = n - 1
      /\ \A i \in 1 .. n - 1 : less[i] = list[i + 1]
  BY <1>1, TailFacts
<1>3. /\ \A i \in 1 .. n : list[i] \in Cells /\ list[i] # NULL
      /\ \A i, j \in 1 .. n : list[i] = list[j] => i = j
  BY ListFacts DEF IsList
<1>4. /\ head' = node[head].next /\ node' = node
      /\ tail' = IF node[head].next = NULL THEN NULL ELSE tail
      /\ size' = size - 1 /\ allocated' = allocated \ {head}
      /\ pc = "evict"
  BY DEF DropHead
<1> HIDE DEF less
<1>5. \A i, j \in 1 .. Len(less) : less[i] = less[j] => i = j
  <2> SUFFICES ASSUME NEW i \in 1 .. n - 1, NEW j \in 1 .. n - 1, less[i] = less[j]
               PROVE  i = j
    BY <1>2
  <2>1. i + 1 \in 1 .. n /\ j + 1 \in 1 .. n /\ list[i + 1] = list[j + 1]
    BY <1>1, <1>2
  <2>2. i + 1 = j + 1
    BY <1>3, <2>1
  <2> QED
    BY <2>2
<1>6. allocated' = {less[i] : i \in 1 .. Len(less)}
  <2>1. allocated = {list[i] : i \in 1 .. n}
    BY DEF IsList
  <2>2. ASSUME NEW c \in allocated' PROVE \E i \in 1 .. n - 1 : c = less[i]
    <3>1. PICK k \in 1 .. n : c = list[k]
      BY <1>4, <2>1, <2>2
    <3>2. k # 1
      BY <1>1, <1>4, <2>2, <3>1
    <3>3. k - 1 \in 1 .. n - 1 /\ (k - 1) + 1 = k
      BY <1>1, <3>2
    <3>4. less[k - 1] = list[k]
      BY <1>2, <3>3
    <3> QED
      BY <3>1, <3>3, <3>4
  <2>3. ASSUME NEW i \in 1 .. n - 1 PROVE less[i] \in allocated'
    <3>1. i + 1 \in 1 .. n /\ i + 1 # 1 /\ less[i] = list[i + 1]
      BY <1>1, <1>2
    <3>2. list[i + 1] # list[1]
      BY <1>1, <1>3, <3>1
    <3> QED
      BY <1>1, <1>4, <2>1, <3>1, <3>2
  <2> QED
    BY <1>2, <2>2, <2>3
<1>7. size' = Len(less)
  BY <1>2, <1>4 DEF IsList
<1>8. node[list[1]].next = IF n = 1 THEN NULL ELSE list[2]
  <2>1. \A i \in 1 .. n : node[list[i]].next = IF i = n THEN NULL ELSE list[i + 1]
    BY DEF IsList
  <2>2. node[list[1]].next = IF 1 = n THEN NULL ELSE list[1 + 1]
    BY <1>1, <2>1
  <2>3. 1 + 1 = 2
    OBVIOUS
  <2> QED
    BY <2>2, <2>3
<1>9. tail = list[n]
  BY <1>1 DEF IsList
<1>10. /\ head' = IF Len(less) = 0 THEN NULL ELSE less[1]
       /\ tail' = IF Len(less) = 0 THEN NULL ELSE less[Len(less)]
  <2>1. CASE n = 1
    BY <1>1, <1>2, <1>4, <1>8, <2>1
  <2>2. CASE n # 1
    <3> HIDE DEF n
    <3>1. 1 \in 1 .. n - 1 /\ n - 1 \in 1 .. n - 1 /\ (n - 1) + 1 = n /\ 2 \in 1 .. n
      BY <1>1, <2>2
    <3>2. less[1] = list[2] /\ less[n - 1] = list[n] /\ list[2] # NULL
      BY <1>2, <1>3, <3>1
    <3> QED
      BY <1>1, <1>2, <1>4, <1>8, <1>9, <2>2, <3>1, <3>2
  <2> QED
    BY <2>1, <2>2
<1>11. \A i \in 1 .. Len(less) :
           /\ node'[less[i]].next = IF i = Len(less) THEN NULL ELSE less[i + 1]
           /\ node'[less[i]].request \in Request
  <2> SUFFICES ASSUME NEW i \in 1 .. n - 1
               PROVE  /\ node[less[i]].next = IF i = n - 1 THEN NULL ELSE less[i + 1]
                      /\ node[less[i]].request \in Request
    BY <1>2, <1>4
  <2>1. i + 1 \in 1 .. n /\ less[i] = list[i + 1] /\ (i + 1 = n <=> i = n - 1)
    BY <1>1, <1>2
  <2>2. /\ node[list[i + 1]].next = IF i + 1 = n THEN NULL ELSE list[(i + 1) + 1]
        /\ node[list[i + 1]].request \in Request
    BY <2>1 DEF IsList
  <2>3. i # n - 1 => less[i + 1] = list[(i + 1) + 1]
    <3> SUFFICES ASSUME i # n - 1 PROVE less[i + 1] = list[(i + 1) + 1]
      OBVIOUS
    <3>1. i + 1 \in 1 .. n - 1
      BY <1>1
    <3> QED
      BY <1>2, <3>1
  <2> QED
    BY <2>1, <2>2, <2>3
<1>12. IsList(less)'
  BY <1>2, <1>5, <1>6, <1>7, <1>10, <1>11 DEF IsList
<1> QED
  BY <1>12 DEF less

\* destroy_queue() frees every cell of the list.
LEMMA DestroyList ==
    ASSUME NEW list, IsList(list), Destroy
    PROVE  IsList(<< >>)'
<1>1. /\ allocated' = allocated \ {Visit[i] : i \in DOMAIN Visit}
      /\ head' = NULL /\ tail' = NULL /\ pc' = "destroyed"
  BY DEF Destroy
<1>2. Visit = Steps(list) /\ DOMAIN Steps(list) = 0 .. Cardinality(Cells)
  BY VisitList DEF Steps
<1>3. Len(list) \in Nat /\ Len(list) <= Cardinality(Cells) /\ Cardinality(Cells) \in Nat
  BY ListFits, HeapSize
<1>4. ASSUME NEW i \in 1 .. Len(list)
      PROVE  \E k \in 0 .. Cardinality(Cells) : Steps(list)[k] = list[i]
  <2>1. i - 1 \in 0 .. Cardinality(Cells) /\ i - 1 < Len(list) /\ (i - 1) + 1 = i
    BY <1>3
  <2>2. Steps(list)[i - 1] = list[i]
    BY <2>1 DEF Steps
  <2> QED
    BY <2>1, <2>2
<1>5. allocated' = {}
  <2>1. allocated = {list[i] : i \in 1 .. Len(list)}
    BY DEF IsList
  <2> QED
    BY <1>1, <1>2, <1>4, <2>1
<1>6. << >> \in Seq(Cells) /\ Len(<< >>) = 0 /\ 1 .. Len(<< >>) = {}
  OBVIOUS
<1> QED
  BY <1>1, <1>5, <1>6 DEF IsList

---------------------------------------------------------------------------
\* THE INVARIANT IS INDUCTIVE

\* The counters and histories.
Counted ==
    /\ pc \in {"idle", "evict", "destroyed"}
    /\ size \in 0 .. MaxSize
    /\ node \in [Cells -> NodeType]
    /\ late \subseteq Request /\ arrived \in 0 .. MaxRequests
    /\ returned \in Request \cup {NoRequest}

\* What the list settles of the types after a step.
LEMMA ListTypesNext ==
    ASSUME NEW list, IsList(list)'
    PROVE  /\ head' \in Cells \cup {NULL} /\ tail' \in Cells \cup {NULL}
           /\ allocated' \subseteq Cells
<1>1. list \in Seq(Cells) /\ Len(list) \in Nat /\ \A i \in 1 .. Len(list) : list[i] \in Cells
  BY DEF IsList
<1>2. Len(list) # 0 => 1 \in 1 .. Len(list) /\ Len(list) \in 1 .. Len(list)
  BY <1>1
<1> QED
  BY <1>1, <1>2 DEF IsList

LEMMA NextIInv ==
    ASSUME Counted', NEW list, IsList(list)', Evicting(list)'
    PROVE  IInv'
<1>1. /\ head' \in Cells \cup {NULL} /\ tail' \in Cells \cup {NULL}
      /\ allocated' \subseteq Cells
  BY ListTypesNext
<1>2. TypeOK'
  BY <1>1 DEF TypeOK, Counted, NodeType
<1> QED
  BY <1>2 DEF IInv

\* The actions one by one.  Outside the loop of drop(), Evicting asks for nothing.
LEMMA InsertStep ==
    ASSUME IInv, NEW kind \in Arrivals, Insert(kind)
    PROVE  IInv'
<1>1. PICK list : IsList(list) /\ Evicting(list)
  BY DEF IInv
<1>2. /\ pc = "idle" /\ pc' = "idle" /\ arrived' = arrived + 1 /\ arrived < MaxRequests
      /\ late' = late /\ returned' = returned
  BY DEF Insert
<1> DEFINE r == [id |-> arrived + 1, kind |-> kind]
<1>3. r \in Request
  BY <1>2, ListAssumption DEF IInv, TypeOK, Request
<1>4. TypeOK /\ arrived' \in 0 .. MaxRequests
  BY <1>2, ListAssumption DEF IInv, TypeOK
<1>5. \A any : Evicting(any)'
  BY <1>2 DEF Evicting
<1> HIDE DEF r
<1>6. CASE InsertRefused
  <2>1. IsList(list)'
    BY <1>1, <1>2, <1>6, SameList DEF InsertRefused
  <2>2. Counted'
    BY <1>2, <1>4, <1>6 DEF InsertRefused, listVars, TypeOK, Counted, NodeType
  <2> QED
    BY <1>5, <2>1, <2>2, NextIInv
<1>7. CASE InsertLinked(r)
  <2>1. PICK new \in Cells : IsList(Append(list, new))'
    BY <1>1, <1>2, <1>3, <1>4, <1>7, InsertList
  <2>2. size' \in 0 .. MaxSize
    BY <1>4, <1>7, ListAssumption DEF InsertLinked, TypeOK
  <2>3. node' \in [Cells -> NodeType]
    <3>1. PICK cell \in Cells \ allocated :
              node' = [c \in Cells |->
                        IF c = cell THEN [request |-> r, next |-> NULL]
                        ELSE IF head # NULL /\ c = tail THEN [node[c] EXCEPT !.next = cell]
                        ELSE node[c]]
      BY <1>7 DEF InsertLinked
    <3>2. ASSUME NEW c \in Cells PROVE node'[c] \in NodeType
      <4>1. node[c] \in NodeType
        BY <1>4 DEF TypeOK, NodeType
      <4>2. /\ [request |-> r, next |-> NULL] \in NodeType
            /\ [node[c] EXCEPT !.next = cell] \in NodeType
        BY <1>3, <3>1, <4>1 DEF NodeType
      <4> QED
        BY <3>1, <4>1, <4>2
    <3> QED
      BY <3>1, <3>2
  <2>4. Counted'
    BY <1>2, <1>4, <2>2, <2>3 DEF TypeOK, Counted
  <2> QED
    BY <1>5, <2>1, <2>4, NextIInv
<1>8. InsertRefused \/ InsertLinked(r)
  BY DEF Insert, r
<1> QED
  BY <1>6, <1>7, <1>8

LEMMA DropStartStep ==
    ASSUME IInv, DropStart
    PROVE  IInv'
<1>1. PICK list : IsList(list) /\ Evicting(list)
  BY DEF IInv
<1>2. /\ pc = "idle" /\ pc' = "evict" /\ before' = Contents /\ head # NULL
      /\ UNCHANGED listVars /\ late' = late /\ arrived' = arrived /\ returned' = returned
  BY DEF DropStart
<1>3. IsList(list)'
  BY <1>1, <1>2, SameList
<1>4. Contents \in Seq(Request) /\ Len(Contents) = Len(list) /\ Contents = Requests(list)
  BY <1>1, ContentsList
<1>5. Len(list) \in Nat /\ Len(list) > 0
  BY <1>1, <1>2, ListFacts
<1>6. \A i \in 1 .. Len(list) : node'[list[i]].request = before'[i]
  BY <1>2, <1>4 DEF Requests, listVars
<1>7. Evicting(list)'
  BY <1>2, <1>4, <1>5, <1>6 DEF Evicting
<1>8. Counted'
  BY <1>2 DEF IInv, TypeOK, Counted, NodeType, listVars
<1> QED
  BY <1>3, <1>7, <1>8, NextIInv

LEMMA DropEvictStep ==
    ASSUME IInv, DropEvict
    PROVE  IInv'
<1>1. PICK list : IsList(list) /\ Evicting(list)
  BY DEF IInv
<1>2. /\ pc = "evict" /\ pc' = "evict" /\ before' = before /\ head # NULL
      /\ late' = late /\ arrived' = arrived /\ returned' = returned
      /\ RemoveLastNode /\ Overdue(node[head].request, late)
  BY DEF DropEvict
<1>3. TypeOK
  BY DEF IInv
<1>4. /\ IsList(Shorter(list))'
      /\ \A i \in 1 .. Len(list) - 1 : node'[list[i]].request = node[list[i]].request
  BY <1>1, <1>2, <1>3, RemoveList
<1>5. /\ Len(list) \in Nat /\ Len(list) > 0 /\ head = list[1]
  BY <1>1, <1>2, ListFacts DEF IsList
<1>6. /\ Len(Shorter(list)) = Len(list) - 1
      /\ \A i \in 1 .. Len(list) - 1 : Shorter(list)[i] = list[i]
  BY <1>1, <1>5, ShorterFacts
<1>7. before \in Seq(Request) /\ Len(before) > 0 /\ node[list[1]].request = before[1]
  BY <1>1, <1>2, <1>5 DEF Evicting
<1>8. Len(Shorter(list)) > 0 => node'[Shorter(list)[1]].request = before[1]
  <2>1. Len(Shorter(list)) > 0 => 1 \in 1 .. Len(list) - 1
    BY <1>5, <1>6
  <2> QED
    BY <1>4, <1>6, <1>7, <2>1
<1>9. Overdue(before[1], late)
  BY <1>2, <1>5, <1>7
<1>10. Evicting(Shorter(list))'
  BY <1>2, <1>7, <1>8, <1>9 DEF Evicting
<1>11. size' \in 0 .. MaxSize
  <2>1. size' = size - 1 /\ size = Len(list)
    BY <1>1, <1>2 DEF RemoveLastNode, IsList
  <2> QED
    BY <1>3, <1>5, <2>1, ListAssumption DEF TypeOK
<1>12. node' \in [Cells -> NodeType]
  <2>1. PICK prev : node' = [node EXCEPT ![prev].next = NULL] \/ node' = node
    BY <1>2 DEF RemoveLastNode
  <2>2. ASSUME NEW c \in Cells PROVE node'[c] \in NodeType
    <3>1. node[c] \in NodeType /\ DOMAIN node = Cells
      BY <1>3 DEF TypeOK, NodeType
    <3>2. [node[c] EXCEPT !.next = NULL] \in NodeType
      BY <3>1 DEF NodeType
    <3>3. node'[c] = node[c] \/ node'[c] = [node[c] EXCEPT !.next = NULL]
      BY <2>1, <3>1
    <3> QED
      BY <3>1, <3>2, <3>3
  <2>3. node' = [c \in Cells |-> node'[c]]
    BY <1>3, <2>1 DEF TypeOK
  <2> QED
    BY <2>2, <2>3
<1>13. Counted'
  BY <1>2, <1>3, <1>11, <1>12 DEF TypeOK, Counted
<1> QED
  BY <1>4, <1>10, <1>13, NextIInv

LEMMA DropHeadStep ==
    ASSUME IInv, DropHead
    PROVE  IInv'
<1>1. PICK list : IsList(list) /\ Evicting(list)
  BY DEF IInv
<1>2. /\ pc = "evict" /\ pc' = "idle" /\ head # NULL /\ size' = size - 1
      /\ late' = late /\ arrived' = arrived /\ node' = node
      /\ returned' = node[head].request
  BY DEF DropHead
<1>3. IsList(Tail(list))'
  BY <1>1, <1>2, HeadList
<1>4. Evicting(Tail(list))'
  BY <1>2 DEF Evicting
<1>5. Len(list) \in Nat /\ Len(list) > 0 /\ 1 \in 1 .. Len(list) /\ head = list[1]
  BY <1>1, <1>2, ListFacts DEF IsList
<1>6. size' \in 0 .. MaxSize
  <2>1. size = Len(list) /\ size \in 0 .. MaxSize
    BY <1>1, <1>2 DEF IsList, IInv, TypeOK
  <2> QED
    BY <1>2, <1>5, <2>1, ListAssumption
<1>7. returned' \in Request
  BY <1>1, <1>2, <1>5 DEF IsList
<1>8. Counted'
  BY <1>2, <1>6, <1>7 DEF IInv, TypeOK, Counted, NodeType
<1> QED
  BY <1>3, <1>4, <1>8, NextIInv

LEMMA DestroyStep ==
    ASSUME IInv, Destroy
    PROVE  IInv'
<1>1. PICK list : IsList(list) /\ Evicting(list)
  BY DEF IInv
<1>2. IsList(<< >>)'
  BY <1>1, DestroyList
<1>3. Counted' /\ Evicting(<< >>)'
  BY DEF Destroy, IInv, TypeOK, Counted, NodeType, Evicting
<1> QED
  BY <1>2, <1>3, NextIInv

\* drop() of an empty queue, the end of an emptied one, and the clock.
LEMMA QuietStep ==
    ASSUME IInv, DropNothing \/ DropEmptied \/ Expire \/ UNCHANGED vars
    PROVE  IInv'
<1>1. PICK list : IsList(list) /\ Evicting(list)
  BY DEF IInv
<1>2. /\ UNCHANGED listVars
      /\ pc' = "idle" \/ UNCHANGED <<pc, before, late>>
      /\ pc = "destroyed" => pc' = "destroyed"
  BY DEF DropNothing, DropEmptied, Expire, vars
<1>3. IsList(list)'
  BY <1>1, <1>2, SameList
<1>4. Evicting(list)'
  BY <1>1, <1>2 DEF Evicting, listVars
<1>5. late' \subseteq Request
  <2>1. CASE Expire
    <3>1. PICK i \in 1 .. Length : late' = late \cup {Contents[i]}
      BY <2>1 DEF Expire
    <3>2. Contents[i] \in Request
      BY <1>1, <3>1, ContentsList, LengthList
    <3> QED
      BY <3>1, <3>2 DEF IInv, TypeOK
  <2>2. CASE late' = late
    BY <2>2 DEF IInv, TypeOK
  <2> QED
    BY <2>1, <2>2 DEF DropNothing, DropEmptied, vars
<1>6. Counted'
  <2>1. /\ pc' \in {"idle", pc} /\ arrived' = arrived
        /\ returned' = returned \/ returned' = NoRequest
    BY DEF DropNothing, DropEmptied, Expire, vars
  <2> QED
    BY <1>2, <1>5, <2>1 DEF IInv, TypeOK, Counted, NodeType, listVars
<1> QED
  BY <1>3, <1>4, <1>6, NextIInv

LEMMA InitIInv == Init => IInv
<1> SUFFICES ASSUME Init PROVE IInv
  OBVIOUS
<1>1. << >> \in Seq(Cells) /\ Len(<< >>) = 0 /\ 1 .. Len(<< >>) = {}
  OBVIOUS
<1>2. IsList(<< >>)
  BY <1>1 DEF Init, IsList
<1>3. Evicting(<< >>)
  BY DEF Init, Evicting
<1>4. TypeOK
  BY ListAssumption DEF Init, TypeOK
<1> QED
  BY <1>2, <1>3, <1>4 DEF IInv

LEMMA IInvStep == IInv /\ [Next]_vars => IInv'
<1> SUFFICES ASSUME IInv, [Next]_vars PROVE IInv'
  OBVIOUS
<1>1. ASSUME NEW kind \in Arrivals, Insert(kind) PROVE IInv'
  BY <1>1, InsertStep
<1>2. CASE DropNothing
  BY <1>2, QuietStep
<1>3. CASE DropStart
  BY <1>3, DropStartStep
<1>4. CASE DropEvict
  BY <1>4, DropEvictStep
<1>5. CASE DropEmptied
  BY <1>5, QuietStep
<1>6. CASE DropHead
  BY <1>6, DropHeadStep
<1>7. CASE Destroy
  BY <1>7, DestroyStep
<1>8. CASE Expire
  BY <1>8, QuietStep
<1>9. CASE UNCHANGED vars
  BY <1>9, QuietStep
<1> QED
  BY <1>1, <1>2, <1>3, <1>4, <1>5, <1>6, <1>7, <1>8, <1>9 DEF Next

\* The list always is the sequence of the allocated cells.
THEOREM Inductive == Spec => []IInv
<1> QED
  BY InitIInv, IInvStep, PTL DEF Spec

---------------------------------------------------------------------------
\* WHAT FOLLOWS FROM IT

\* Pointers are cells or NULL and what a cell holds is a node.
THEOREM TypeCorrect == Spec => []TypeOK
<1>1. IInv => TypeOK
  BY DEF IInv
<1> QED
  BY <1>1, Inductive, PTL

\* A list in this sense is well formed.
LEMMA SoundList == IInv => WellFormed
<1> SUFFICES ASSUME IInv PROVE WellFormed
  OBVIOUS
<1>1. PICK list : IsList(list) /\ Evicting(list)
  BY DEF IInv
<1>2. Visit = Steps(list) /\ Length = Len(list) /\ Cardinality(Cells) \in Nat
      /\ Len(list) \in Nat /\ Len(list) <= Cardinality(Cells)
  BY <1>1, VisitList, LengthList, ListFits, HeapSize
<1>3. Visit[Cardinality(Cells)] = NULL
  <2>1. Cardinality(Cells) \in 0 .. Cardinality(Cells) /\ ~(Cardinality(Cells) < Len(list))
    BY <1>2
  <2> QED
    BY <1>2, <2>1 DEF Steps
<1>4. tail = IF head = NULL THEN NULL ELSE Visit[Length - 1]
  <2>1. CASE Len(list) = 0
    BY <1>1, <2>1 DEF IsList
  <2>2. CASE Len(list) # 0
    <3>1. /\ Len(list) - 1 \in 0 .. Cardinality(Cells) /\ Len(list) - 1 < Len(list)
          /\ (Len(list) - 1) + 1 = Len(list)
      BY <1>2, <2>2
    <3>2. Visit[Length - 1] = list[Len(list)]
      BY <1>2, <3>1 DEF Steps
    <3>3. head # NULL
      BY <1>1, <2>2, ListFacts
    <3> QED
      BY <1>1, <2>2, <3>2, <3>3 DEF IsList
  <2> QED
    BY <2>1, <2>2
<1>5. pc # "destroyed" => size = Length
  BY <1>1, <1>2 DEF IsList
<1>6. allocated = {Visit[i] : i \in DOMAIN Visit} \ {NULL}
  <2>1. DOMAIN Steps(list) = 0 .. Cardinality(Cells)
    BY DEF Steps
  <2>2. allocated = {list[i] : i \in 1 .. Len(list)}
    BY <1>1 DEF IsList
  <2>3. ASSUME NEW c \in allocated PROVE c \in {Visit[i] : i \in DOMAIN Visit} \ {NULL}
    <3>1. PICK i \in 1 .. Len(list) : c = list[i]
      BY <2>2
    <3>2. i - 1 \in 0 .. Cardinality(Cells) /\ i - 1 < Len(list) /\ (i - 1) + 1 = i
      BY <1>2
    <3>3. Steps(list)[i - 1] = list[i]
      BY <3>2 DEF Steps
    <3>4. list[i] # NULL
      BY <1>1, ListFacts
    <3> QED
      BY <1>2, <2>1, <3>1, <3>2, <3>3, <3>4
  <2>4. ASSUME NEW k \in 0 .. Cardinality(Cells), Steps(list)[k] # NULL
        PROVE  Steps(list)[k] \in allocated
    <3>1. k < Len(list) /\ Steps(list)[k] = list[k + 1]
      BY <2>4 DEF Steps
    <3>2. k + 1 \in 1 .. Len(list)
      BY <1>2, <3>1
    <3> QED
      BY <2>2, <3>1, <3>2
  <2> QED
    BY <1>2, <2>1, <2>3, <2>4
<1> QED
  BY <1>3, <1>4, <1>5, <1>6 DEF WellFormed

\* next reaches NULL, tail is the last node, size counts the nodes, and the
\* allocated cells are exactly those that a walk from head reaches: insert(),
\* drop() and destroy_queue() neither leak a node nor keep one that they freed.
THEOREM ListSound == Spec => []WellFormed
<1> QED
  BY Inductive, SoundList, PTL

---------------------------------------------------------------------------
\* THE LIST IMPLEMENTS THE BOUNDED QUEUE

\* The contents, before and after a step.
LEMMA ContentsNext ==
    \A list : IsList(list)' => /\ Contents' = Requests(list)'
                               /\ Contents' \in Seq(Request) /\ Len(Contents') = Len(list)
<1>1. \A list : IsList(list) => /\ Contents = Requests(list)
                                /\ Contents \in Seq(Request) /\ Len(Contents) = Len(list)
  BY ContentsList
<1>2. (\A list : IsList(list) => /\ Contents = Requests(list)
                                 /\ Contents \in Seq(Request) /\ Len(Contents) = Len(list))'
  BY <1>1, PTL
<1> QED
  BY <1>2

\* A step that leaves the pointers alone leaves the contents alone.
LEMMA SameContents ==
    ASSUME IInv, UNCHANGED listVars, pc' = "destroyed" \/ pc # "destroyed"
    PROVE  Contents' = Contents
<1>1. PICK list : IsList(list)
  BY DEF IInv
<1>2. IsList(list)'
  BY <1>1, SameList
<1>3. Contents = Requests(list) /\ Contents' = Requests(list)'
  BY <1>1, <1>2, ContentsList, ContentsNext
<1>4. Requests(list)' = Requests(list)
  BY DEF Requests, listVars
<1> QED
  BY <1>3, <1>4

\* insert() of the list is insert() of the queue, when the heap is large enough
\* for malloc() not to be what refuses the request.
LEMMA InsertRefines ==
    ASSUME IInv, NEW kind \in Arrivals, Insert(kind), Cardinality(Cells) >= MaxSize
    PROVE  Abstract!Insert(kind)
<1>1. PICK list : IsList(list)
  BY DEF IInv
<1>2. /\ pc = "idle" /\ pc' = "idle" /\ arrived' = arrived + 1 /\ arrived < MaxRequests
      /\ late' = late /\ returned' = returned
  BY DEF Insert
<1> DEFINE r == [id |-> arrived + 1, kind |-> kind]
           n == Len(list)
<1>3. r \in Request
  BY <1>2, ListAssumption DEF IInv, TypeOK, Request
<1>4. /\ Contents = Requests(list) /\ Contents \in Seq(Request) /\ Len(Contents) = n
      /\ n \in Nat /\ size = n /\ Cardinality(allocated) = n
  BY <1>1, <1>2, ContentsList, ListFits DEF IsList
<1>5. Contents' = IF Len(Contents) < MaxSize THEN Append(Contents, r) ELSE Contents
  <2> HIDE DEF r
  <2>1. CASE InsertRefused
    <3>1. Contents' = Contents
      BY <1>2, <2>1, SameContents DEF InsertRefused
    <3>2. size >= MaxSize \/ allocated = Cells
      BY <2>1 DEF InsertRefused
    <3>3. ~(n < MaxSize)
      BY <1>4, <3>2, ListAssumption
    <3> QED
      BY <1>4, <3>1, <3>3
  <2>2. CASE InsertLinked(r)
    <3>1. PICK new \in Cells :
              /\ IsList(Append(list, new))' /\ node'[new].request = r
              /\ \A i \in 1 .. n : node'[list[i]].request = node[list[i]].request
      BY <1>1, <1>2, <1>3, <2>2, InsertList DEF IInv
    <3> DEFINE more == Append(list, new)
    <3>2. /\ Len(more) = n + 1 /\ more[n + 1] = new
          /\ \A i \in 1 .. n : more[i] = list[i]
      BY <1>1, <1>4, AppendProperties DEF IsList
    <3> HIDE DEF more
    <3>3. IsList(more)'
      BY <3>1 DEF more
    <3>4. /\ Contents' = Requests(more)' /\ Contents' \in Seq(Request)
          /\ Len(Contents') = n + 1
      BY <3>2, <3>3, ContentsNext
    <3>5. /\ Append(Contents, r) \in Seq(Request) /\ Len(Append(Contents, r)) = n + 1
          /\ Append(Contents, r)[n + 1] = r
          /\ \A i \in 1 .. n : Append(Contents, r)[i] = Contents[i]
      BY <1>3, <1>4, AppendProperties
    <3>6. ASSUME NEW i \in 1 .. n + 1 PROVE Contents'[i] = Append(Contents, r)[i]
      <4>1. Contents'[i] = node'[more[i]].request
        BY <3>2, <3>4 DEF Requests
      <4>2. CASE i = n + 1
        BY <3>1, <3>2, <3>5, <4>1, <4>2
      <4>3. CASE i \in 1 .. n
        <5>1. Contents[i] = node[list[i]].request
          BY <1>4, <4>3 DEF Requests
        <5> QED
          BY <3>1, <3>2, <3>5, <4>1, <4>3, <5>1
      <4> QED
        BY <1>4, <4>2, <4>3
    <3>7. Contents' = Append(Contents, r)
      BY <3>4, <3>5, <3>6, SeqEqual
    <3>8. n < MaxSize
      BY <1>4, <2>2 DEF InsertLinked
    <3> QED
      BY <1>4, <3>7, <3>8
  <2>3. InsertRefused \/ InsertLinked(r)
    BY DEF Insert, r
  <2> QED
    BY <2>1, <2>2, <2>3
<1> QED
  BY <1>2, <1>5 DEF Abstract!Insert, Abstract!HasRoom

\* drop() of an empty queue is one Drop ...
LEMMA DropNothingRefines ==
    ASSUME IInv, DropNothing
    PROVE  Abstract!Drop
<1>1. PICK list : IsList(list)
  BY DEF IInv
<1>2. /\ pc = "idle" /\ pc' = "idle" /\ head = NULL /\ returned' = NoRequest
      /\ UNCHANGED listVars /\ late' = late /\ arrived' = arrived
  BY DEF DropNothing
<1>3. Contents' = Contents
  BY <1>2, SameContents
<1>4. Contents = << >>
  BY <1>1, <1>2, ContentsList, ListFacts
<1> QED
  BY <1>2, <1>3, <1>4
  DEF Abstract!Drop, Abstract!Dropped, Abstract!AfterDrop, Abstract!Kept, Abstract!IsEmpty,
      Abstract!NoRequest, NoRequest

\* ... the loop before its end is none ...
LEMMA EvictStutters ==
    ASSUME IInv, DropStart \/ DropEvict
    PROVE  UNCHANGED Abstract!vars
<1>1. CASE DropStart
  BY <1>1 DEF DropStart, Abstract!vars
<1>2. CASE DropEvict
  BY <1>2 DEF DropEvict, Abstract!vars
<1> QED
  BY <1>1, <1>2

\* ... it ends with an empty queue only when the head was overdue ...
LEMMA DropEmptiedRefines ==
    ASSUME IInv, DropEmptied
    PROVE  Abstract!Drop
<1>1. PICK list : IsList(list) /\ Evicting(list)
  BY DEF IInv
<1>2. /\ pc = "evict" /\ pc' = "idle" /\ head = NULL /\ returned' = NoRequest
      /\ UNCHANGED listVars /\ late' = late /\ arrived' = arrived
  BY DEF DropEmptied
<1>3. Contents' = Contents
  BY <1>2, SameContents
<1>4. Contents = << >> /\ Len(list) = 0
  BY <1>1, <1>2, ContentsList, ListFacts
<1>5. before \in Seq(Request) /\ Len(before) > 0 /\ Overdue(before[1], late)
  BY <1>1, <1>2, <1>4 DEF Evicting
<1>6. before # << >> /\ Head(before) = before[1]
  BY <1>5
<1> QED
  BY <1>2, <1>3, <1>4, <1>5, <1>6
  DEF Abstract!Drop, Abstract!Dropped, Abstract!AfterDrop, Abstract!Kept, Abstract!IsEmpty,
      Abstract!Overdue, Overdue, Abstract!NoRequest, NoRequest

\* ... and unlinks the head only when it evicted nothing.
LEMMA DropHeadRefines ==
    ASSUME IInv, DropHead
    PROVE  Abstract!Drop
<1>1. PICK list : IsList(list) /\ Evicting(list)
  BY DEF IInv
<1> DEFINE n == Len(list)
           less == Tail(list)
<1>2. /\ pc = "evict" /\ pc' = "idle" /\ head # NULL /\ node' = node
      /\ ~Overdue(node[head].request, late) /\ returned' = node[head].request
      /\ late' = late /\ arrived' = arrived
  BY DEF DropHead
<1>3. n \in Nat /\ n > 0 /\ head = list[1] /\ 1 \in 1 .. n
  BY <1>1, <1>2, ListFacts DEF IsList
<1>4. /\ before \in Seq(Request) /\ Len(before) = n
      /\ \A i \in 1 .. n : node[list[i]].request = before[i]
  BY <1>1, <1>2, <1>3 DEF Evicting
<1>5. before # << >> /\ Head(before) = before[1] /\ returned' = before[1]
      /\ ~Overdue(before[1], late)
  BY <1>2, <1>3, <1>4
<1>6. /\ Len(less) = n - 1 /\ \A i \in 1 .. n - 1 : less[i] = list[i + 1]
  BY <1>1, <1>3, TailFacts
<1>7. IsList(less)'
  BY <1>1, <1>2, HeadList
<1> HIDE DEF less
<1>8. /\ Contents' = Requests(less)' /\ Contents' \in Seq(Request)
      /\ Len(Contents') = n - 1
  BY <1>6, <1>7, ContentsNext
<1>9. /\ Tail(before) \in Seq(Request) /\ Len(Tail(before)) = n - 1
      /\ \A i \in 1 .. n - 1 : Tail(before)[i] = before[i + 1]
  BY <1>4, <1>5
<1>10. ASSUME NEW i \in 1 .. n - 1 PROVE Contents'[i] = Tail(before)[i]
  <2>1. Contents'[i] = node[less[i]].request
    BY <1>2, <1>6, <1>8 DEF Requests
  <2>2. i + 1 \in 1 .. n /\ less[i] = list[i + 1]
    BY <1>3, <1>6
  <2> QED
    BY <1>4, <1>9, <2>1, <2>2
<1>11. Contents' = Tail(before)
  BY <1>8, <1>9, <1>10, SeqEqual
<1> QED
  BY <1>2, <1>5, <1>11
  DEF Abstract!Drop, Abstract!Dropped, Abstract!AfterDrop, Abstract!Kept, Abstract!IsEmpty,
      Abstract!Overdue, Overdue

LEMMA DestroyRefines ==
    ASSUME IInv, Destroy
    PROVE  Abstract!Destroy
<1>1. PICK list : IsList(list)
  BY DEF IInv
<1>2. IsList(<< >>)'
  BY <1>1, DestroyList
<1>3. Contents' = << >>
  BY <1>2, ContentsNext
<1>4. /\ pc = "idle" /\ pc' = "destroyed"
      /\ late' = late /\ arrived' = arrived /\ returned' = returned
  BY DEF Destroy
<1> QED
  BY <1>3, <1>4 DEF Abstract!Destroy

LEMMA ExpireRefines ==
    ASSUME IInv, Expire
    PROVE  Abstract!Expire
<1>1. PICK list : IsList(list)
  BY DEF IInv
<1>2. /\ pc = "idle" /\ UNCHANGED <<pc, listVars, arrived, returned, before>>
      /\ \E i \in 1 .. Length :
            /\ Contents[i].kind # "REGISTER" /\ Contents[i] \notin late
            /\ \A j \in 1 .. i - 1 : Contents[j].kind # "REGISTER" => Contents[j] \in late
            /\ late' = late \cup {Contents[i]}
  BY DEF Expire
<1>3. Contents' = Contents
  BY <1>2, SameContents
<1>4. Length = Len(Contents)
  BY <1>1, LengthList, ContentsList
<1> QED
  BY <1>2, <1>3, <1>4 DEF Abstract!Expire

LEMMA StepRefines ==
    ASSUME Cardinality(Cells) >= MaxSize
    PROVE  IInv /\ [Next]_vars => [Abstract!Next]_(Abstract!vars)
<1> SUFFICES ASSUME IInv, [Next]_vars PROVE Abstract!Next \/ UNCHANGED Abstract!vars
  OBVIOUS
<1>1. ASSUME NEW kind \in Arrivals, Insert(kind) PROVE Abstract!Next
  BY <1>1, InsertRefines DEF Abstract!Next
<1>2. CASE DropNothing
  BY <1>2, DropNothingRefines DEF Abstract!Next
<1>3. CASE DropStart \/ DropEvict
  BY <1>3, EvictStutters
<1>4. CASE DropEmptied
  BY <1>4, DropEmptiedRefines DEF Abstract!Next
<1>5. CASE DropHead
  BY <1>5, DropHeadRefines DEF Abstract!Next
<1>6. CASE Destroy
  BY <1>6, DestroyRefines DEF Abstract!Next
<1>7. CASE Expire
  BY <1>7, ExpireRefines DEF Abstract!Next
<1>8. CASE UNCHANGED vars
  <2>1. UNCHANGED listVars /\ pc' = pc /\ before' = before /\ late' = late
        /\ arrived' = arrived /\ returned' = returned
    BY <1>8 DEF vars
  <2>2. Contents' = Contents
    BY <2>1 DEF listVars, Contents, Length, Visit
  <2> QED
    BY <2>1, <2>2 DEF Abstract!vars
<1> QED
  BY <1>1, <1>2, <1>3, <1>4, <1>5, <1>6, <1>7, <1>8 DEF Next

LEMMA InitRefines == Init => Abstract!Init
<1> SUFFICES ASSUME Init PROVE Abstract!Init
  OBVIOUS
<1>1. PICK list : IsList(list)
  BY InitIInv DEF IInv
<1>2. Contents = << >>
  BY <1>1, ContentsList, ListFacts DEF Init
<1> QED
  BY <1>2 DEF Init, Abstract!Init, Abstract!NoRequest, NoRequest

\* queue.c's list behaves as the sequence of module BoundedQueue, for a queue of
\* any size on a heap with room for it: a drop(), its loop included, is one Drop.
THEOREM QueueImplemented ==
    ASSUME Cardinality(Cells) >= MaxSize
    PROVE  Spec => ImplementsBoundedQueue
<1>1. Init => Abstract!Init
  BY InitRefines
<1>2. IInv /\ [Next]_vars => [Abstract!Next]_(Abstract!vars)
  BY StepRefines
<1> QED
  BY <1>1, <1>2, Inductive, PTL DEF Spec, ImplementsBoundedQueue, Abstract!Spec
============================================================================
