--------------------------- MODULE RequestProofs ---------------------------
(***************************************************************************)
(* More theorems about module Dispatch, for every value of its constants:  *)
(* no request is duplicated or vanishes (EachRequestOnce), each queue is   *)
(* first come, first sent (ArrivalOrder), and every step is a step of      *)
(* module Requests (ImplementsRequests).  Every action is first reduced to *)
(* what it does to the places of requests: it moves a set of them to one   *)
(* station (Moves), or none.                                               *)
(***************************************************************************)
EXTENDS DispatchProofs, FiniteSetTheorems

USE DEF Engines, Backup

---------------------------------------------------------------------------
\* SEQUENCES OF REQUESTS

\* The sequence has a request with this number.
InSeq(seq, id) == \E i \in 1 .. Len(seq) : seq[i].id = id

\* No two of its requests have the same number.
Distinct(seq) == \A i, j \in 1 .. Len(seq) : i # j => seq[i].id # seq[j].id

\* The numbers found among a sequence's elements are those of its positions.
LEMMA InElements ==
    ASSUME NEW seq \in Seq(Request), NEW id
    PROVE  (\E r \in Elements(seq) : r.id = id) <=> InSeq(seq, id)
BY DEF Elements, InSeq

\* Append adds one number ...
LEMMA InAppend ==
    ASSUME NEW seq \in Seq(Request), NEW r \in Request, NEW id
    PROVE  InSeq(Append(seq, r), id) <=> InSeq(seq, id) \/ r.id = id
<1> DEFINE s == Append(seq, r)
<1>1. /\ Len(s) = Len(seq) + 1 /\ s[Len(seq) + 1] = r /\ Len(seq) \in Nat
      /\ \A i \in 1 .. Len(seq) : s[i] = seq[i]
  OBVIOUS
<1>2. 1 .. Len(s) = (1 .. Len(seq)) \cup {Len(seq) + 1}
  BY <1>1
<1> HIDE DEF s
<1>3. InSeq(s, id) <=> InSeq(seq, id) \/ r.id = id
  BY <1>1, <1>2 DEF InSeq
<1> QED
  BY <1>3 DEF s

\* ... and keeps the numbers distinct, or increasing, if the new one is new or larger.
LEMMA AppendKeeps ==
    ASSUME NEW seq \in Seq(Request), NEW r \in Request
    PROVE  /\ Distinct(seq) /\ ~InSeq(seq, r.id) => Distinct(Append(seq, r))
           /\ Increasing(seq) /\ (\A x \in Elements(seq) : x.id < r.id)
                 => Increasing(Append(seq, r))
<1> DEFINE s == Append(seq, r)
<1>1. /\ s \in Seq(Request)
      /\ Len(s) = Len(seq) + 1 /\ s[Len(seq) + 1] = r /\ Len(seq) \in Nat
      /\ \A i \in 1 .. Len(seq) : s[i] = seq[i]
  OBVIOUS
<1> HIDE DEF s
<1>2. Distinct(seq) /\ ~InSeq(seq, r.id) => Distinct(s)
  BY <1>1 DEF Distinct, InSeq
<1>3. ASSUME Increasing(seq), \A x \in Elements(seq) : x.id < r.id
      PROVE  Increasing(s)
  <2> SUFFICES ASSUME NEW i \in 1 .. Len(s), NEW j \in 1 .. Len(s), i < j
               PROVE  s[i].id < s[j].id
    BY DEF Increasing
  <2>1. i \in 1 .. Len(seq) /\ s[i] = seq[i] /\ seq[i] \in Elements(seq)
    BY <1>1 DEF Elements
  <2>2. CASE j \in 1 .. Len(seq)
    BY <1>1, <1>3, <2>1, <2>2 DEF Increasing
  <2>3. CASE j = Len(seq) + 1
    BY <1>1, <1>3, <2>1, <2>3
  <2> QED
    BY <1>1, <2>2, <2>3
<1> QED
  BY <1>2, <1>3 DEF s

LEMMA IncreasingDistinct ==
    ASSUME NEW seq \in Seq(Request), Increasing(seq)
    PROVE  Distinct(seq)
<1> SUFFICES ASSUME NEW i \in 1 .. Len(seq), NEW j \in 1 .. Len(seq), i # j
             PROVE  seq[i].id # seq[j].id
  BY DEF Distinct
<1>0. seq[i] \in Request /\ seq[j] \in Request
  OBVIOUS
<1>1. seq[i].id \in Nat /\ seq[j].id \in Nat
  BY <1>0 DEF Request
<1>2. i < j \/ j < i
  OBVIOUS
<1> QED
  BY <1>1, <1>2 DEF Increasing

\* Taking the head removes exactly its number, and all keep their order.
LEMMA TailKeeps ==
    ASSUME NEW seq \in Seq(Request), seq # << >>, Distinct(seq)
    PROVE  /\ Head(seq) \in Request /\ Head(seq) \in Elements(seq)
           /\ \A id : InSeq(Tail(seq), id) <=> InSeq(seq, id) /\ id # Head(seq).id
           /\ Distinct(Tail(seq))
           /\ Elements(Tail(seq)) \subseteq Elements(seq)
           /\ Increasing(seq) =>
                 /\ Increasing(Tail(seq))
                 /\ \A r \in Elements(Tail(seq)) : Head(seq).id < r.id
<1> DEFINE t == Tail(seq)
<1>1. /\ t \in Seq(Request)
      /\ Len(seq) \in Nat \ {0} /\ Len(t) = Len(seq) - 1 /\ Head(seq) = seq[1]
      /\ \A i \in 1 .. Len(t) : t[i] = seq[i + 1]
  OBVIOUS
<1> HIDE DEF t
<1>2. Head(seq) \in Request /\ Head(seq) \in Elements(seq)
  BY <1>1 DEF Elements
<1>3. ASSUME NEW id PROVE InSeq(t, id) <=> InSeq(seq, id) /\ id # Head(seq).id
  <2>1. ASSUME InSeq(t, id) PROVE InSeq(seq, id) /\ id # Head(seq).id
    <3>1. PICK i \in 1 .. Len(t) : t[i].id = id
      BY <2>1 DEF InSeq
    <3>2. i + 1 \in 1 .. Len(seq) /\ i + 1 # 1 /\ 1 \in 1 .. Len(seq) /\ seq[i + 1].id = id
      BY <1>1, <3>1
    <3> QED
      BY <1>1, <3>2 DEF InSeq, Distinct
  <2>2. ASSUME InSeq(seq, id), id # Head(seq).id PROVE InSeq(t, id)
    <3>1. PICK i \in 1 .. Len(seq) : seq[i].id = id
      BY <2>2 DEF InSeq
    <3>2. i - 1 \in 1 .. Len(t) /\ t[i - 1] = seq[i]
      BY <1>1, <2>2, <3>1
    <3> QED
      BY <3>1, <3>2 DEF InSeq
  <2> QED
    BY <2>1, <2>2
<1>4. Distinct(t)
  <2>1. \A i \in 1 .. Len(t) : i + 1 \in 1 .. Len(seq) /\ t[i] = seq[i + 1]
    BY <1>1
  <2>2. \A i, j \in 1 .. Len(t) : i # j => i + 1 # j + 1
    BY <1>1
  <2> QED
    BY <2>1, <2>2 DEF Distinct
<1>5. Elements(t) \subseteq Elements(seq)
  <2>1. ASSUME NEW i \in 1 .. Len(t) PROVE t[i] \in Elements(seq)
    <3>1. i + 1 \in 1 .. Len(seq) /\ t[i] = seq[i + 1]
      BY <1>1
    <3> QED
      BY <3>1 DEF Elements
  <2> QED
    BY <2>1 DEF Elements
<1>6. ASSUME Increasing(seq)
      PROVE  Increasing(t) /\ \A r \in Elements(t) : Head(seq).id < r.id
  <2>1. \A i \in 1 .. Len(t) : i + 1 \in 1 .. Len(seq) /\ 1 \in 1 .. Len(seq) /\ 1 < i + 1
    BY <1>1
  <2>2. Increasing(t)
    BY <1>1, <1>6, <2>1 DEF Increasing
  <2>3. \A i \in 1 .. Len(t) : Head(seq).id < t[i].id
    BY <1>1, <1>6, <2>1 DEF Increasing
  <2> QED
    BY <2>2, <2>3 DEF Elements
<1> QED
  BY <1>2, <1>3, <1>4, <1>5, <1>6 DEF t

LEMMA EmptyKeeps ==
    /\ \A id : ~InSeq(<< >>, id)
    /\ Distinct(<< >>) /\ Increasing(<< >>) /\ Elements(<< >>) = {}
BY DEF InSeq, Distinct, Increasing, Elements

---------------------------------------------------------------------------
\* STATIONS

PipeOf(e)  == <<"pipe", e>>
HandsOf(e) == <<"hands", e>>

\* An engine has a request in its hands while it has not carried it out.
InHands == {"mark", "marking", "serve", "serving"}

\* The stations, one by one.
LEMMA StationCases ==
    ASSUME NEW s \in Stations
    PROVE  \/ s \in {Path!Receiver, <<"video", 0>>, <<"others", 0>>, Path!Sender,
                     Path!Served, Path!Lost}
           \/ \E e \in Engines : s = PipeOf(e) \/ s = HandsOf(e)
BY DEF Stations, PipeOf, HandsOf, Path!Receiver, Path!Sender, Path!Served, Path!Lost

LEMMA StationTypes ==
    /\ {Path!Receiver, <<"video", 0>>, <<"others", 0>>, Path!Sender, Path!Served, Path!Lost}
          \subseteq Stations
    /\ \A e \in Engines : PipeOf(e) \in Stations /\ HandsOf(e) \in Stations
BY DEF Stations, PipeOf, HandsOf, Path!Receiver, Path!Sender, Path!Served, Path!Lost

\* Which numbers each station has, in a state ...
LEMMA HasIdNow ==
    ASSUME TypeOK, NEW id
    PROVE  /\ HasId(Path!Receiver, id) <=> rRequest.id = id
           /\ HasId(<<"video", 0>>, id) <=> InSeq(videoQueue, id)
           /\ HasId(<<"others", 0>>, id) <=> InSeq(othersQueue, id)
           /\ HasId(Path!Sender, id) <=> request.id = id
           /\ HasId(Path!Served, id) <=> \E r \in served : r.id = id
           /\ HasId(Path!Lost, id) <=> \E r \in lost : r.id = id
           /\ \A e \in Engines :
                 /\ HasId(PipeOf(e), id) <=> InSeq(pipe[e], id)
                 /\ HasId(HandsOf(e), id) <=> ePc[e] \in InHands /\ eRequest[e].id = id
<1>1. /\ Holds(Path!Receiver) = {rRequest}
      /\ Holds(<<"video", 0>>) = Elements(videoQueue)
      /\ Holds(<<"others", 0>>) = Elements(othersQueue)
      /\ Holds(Path!Sender) = {request}
      /\ Holds(Path!Served) = served
      /\ Holds(Path!Lost) = lost
  BY DEF Holds, Path!Receiver, Path!Sender, Path!Served, Path!Lost
<1>2. ASSUME NEW e \in Engines
      PROVE  /\ Holds(PipeOf(e)) = Elements(pipe[e])
             /\ Holds(HandsOf(e)) = IF ePc[e] \in InHands THEN {eRequest[e]} ELSE {}
  BY DEF Holds, PipeOf, HandsOf, InHands
<1>3. /\ \A e \in Engines : pipe[e] \in Seq(Request)
      /\ videoQueue \in Seq(Request) /\ othersQueue \in Seq(Request)
  BY DEF TypeOK
<1> QED
  BY <1>1, <1>2, <1>3, InElements DEF HasId

\* ... and in the next one.
LEMMA HasIdNext ==
    ASSUME TypeOK', NEW id
    PROVE  /\ HasId(Path!Receiver, id)' <=> rRequest'.id = id
           /\ HasId(<<"video", 0>>, id)' <=> InSeq(videoQueue', id)
           /\ HasId(<<"others", 0>>, id)' <=> InSeq(othersQueue', id)
           /\ HasId(Path!Sender, id)' <=> request'.id = id
           /\ HasId(Path!Served, id)' <=> \E r \in served' : r.id = id
           /\ HasId(Path!Lost, id)' <=> \E r \in lost' : r.id = id
           /\ \A e \in Engines :
                 /\ HasId(PipeOf(e), id)' <=> InSeq(pipe'[e], id)
                 /\ HasId(HandsOf(e), id)' <=> ePc'[e] \in InHands /\ eRequest'[e].id = id
<1>1. /\ Holds(Path!Receiver)' = {rRequest'}
      /\ Holds(<<"video", 0>>)' = Elements(videoQueue')
      /\ Holds(<<"others", 0>>)' = Elements(othersQueue')
      /\ Holds(Path!Sender)' = {request'}
      /\ Holds(Path!Served)' = served'
      /\ Holds(Path!Lost)' = lost'
  BY DEF Holds, Path!Receiver, Path!Sender, Path!Served, Path!Lost, Elements
<1>2. ASSUME NEW e \in Engines
      PROVE  /\ Holds(PipeOf(e))' = Elements(pipe'[e])
             /\ Holds(HandsOf(e))' = IF ePc'[e] \in InHands THEN {eRequest'[e]} ELSE {}
  BY DEF Holds, PipeOf, HandsOf, InHands, Elements
<1>3. /\ \A e \in Engines : pipe'[e] \in Seq(Request)
      /\ videoQueue' \in Seq(Request) /\ othersQueue' \in Seq(Request)
  BY DEF TypeOK
<1> QED
  BY <1>1, <1>2, <1>3, InElements DEF HasId

---------------------------------------------------------------------------
\* THE LEDGER: what is invariant about the places of requests

\* No station has a number that has not been given out yet.
Numbered == \A s \in Stations, id \in Nat \ {0} : HasId(s, id) => id <= received

\* What a thread or an engine has in its hands agrees with where it is in its loop, and
\* the pipe of a backup engine that does not run is closed and empty.
HandsTrue ==
    /\ rPc = "insert" => rRequest.id = received
    /\ rPc # "insert" => rRequest = NoRequest
    /\ sPc \notin {"checkHalf", "checkNotified", "reportHalf", "write"} => request = NoRequest
    /\ \A e \in Engines :
          /\ ePc[e] \in {"absent", "ready", "idle"} => eRequest[e] = NoRequest
          /\ ePc[e] \in {"free", "freeing"} => eRequest[e] \in served
    /\ ePc[Backup] = "absent" => pipe[Backup] = << >> /\ backupPipeOpen = 0

\* Each queue has requests of its kinds only, never too many, and no pipe has the same
\* request twice.
QueuesSorted ==
    /\ \A r \in Elements(videoQueue) : ForVideo(r)
    /\ \A r \in Elements(othersQueue) : ~ForVideo(r)
    /\ Len(videoQueue) <= QUEUE_POS /\ Len(othersQueue) <= QUEUE_POS
    /\ \A e \in Engines : Distinct(pipe[e])

Ledger == IInv /\ Numbered /\ HandsTrue /\ QueuesSorted /\ EachRequestOnce /\ ArrivalOrder

\* The step takes the requests of ids to station t and leaves all others where they are.
Moves(ids, t) ==
    \A s \in Stations, id \in Nat \ {0} :
       HasId(s, id)' <=> IF id \in ids THEN s = t ELSE HasId(s, id)

\* A request has no second place.
LEMMA OnePlace ==
    ASSUME EachRequestOnce, Numbered, TypeOK, NEW id \in Nat \ {0}, NEW s \in Stations,
           NEW t \in Stations, HasId(s, id), HasId(t, id)
    PROVE  s = t
<1>1. id \in 1 .. received
  BY DEF Numbered, TypeOK
<1> QED
  BY <1>1 DEF EachRequestOnce

\* If each step moves requests that have been given a number, the books stay in order.
LEMMA MovesKeep ==
    ASSUME TypeOK, TypeOK', Numbered, EachRequestOnce, received <= received',
           NEW ids, ids \cap (Nat \ {0}) \subseteq 1 .. received', NEW t \in Stations, Moves(ids, t),
           (1 .. received') \ (1 .. received) \subseteq ids
    PROVE  Numbered' /\ EachRequestOnce'
<1>1. received \in Nat /\ received' \in Nat
  BY DEF TypeOK
<1>2. Numbered'
  <2> SUFFICES ASSUME NEW s \in Stations, NEW id \in Nat \ {0}, HasId(s, id)'
               PROVE  id <= received'
    BY DEF Numbered, Stations
  <2>1. CASE id \in ids
    BY <1>1, <2>1
  <2>2. CASE id \notin ids
    <3>1. HasId(s, id)
      BY <2>2 DEF Moves
    <3> QED
      BY <1>1, <3>1 DEF Numbered
  <2> QED
    BY <2>1, <2>2
<1>3. EachRequestOnce'
  <2> SUFFICES ASSUME NEW id \in 1 .. received'
               PROVE  \E s \in Stations :
                         HasId(s, id)' /\ \A u \in Stations : HasId(u, id)' => u = s
    BY DEF EachRequestOnce, Stations
  <2>0. id \in Nat \ {0}
    BY <1>1
  <2>1. CASE id \in ids
    <3>1. \A u \in Stations : HasId(u, id)' <=> u = t
      BY <2>0, <2>1 DEF Moves
    <3> QED
      BY <3>1
  <2>2. CASE id \notin ids
    <3>1. id \in 1 .. received
      BY <2>2
    <3>2. PICK s \in Stations : HasId(s, id) /\ \A u \in Stations : HasId(u, id) => u = s
      BY <3>1 DEF EachRequestOnce
    <3>3. \A u \in Stations : HasId(u, id)' <=> HasId(u, id)
      BY <2>0, <2>2 DEF Moves
    <3> QED
      BY <3>2, <3>3
  <2> QED
    BY <2>1, <2>2
<1> QED
  BY <1>2, <1>3

---------------------------------------------------------------------------
\* WHAT EACH ACTION MOVES

\* A station whose variables a step leaves alone keeps its numbers.
LEMMA StationStill ==
    ASSUME TypeOK, TypeOK', NEW id
    PROVE  /\ rRequest' = rRequest => (HasId(Path!Receiver, id)' <=> HasId(Path!Receiver, id))
           /\ videoQueue' = videoQueue =>
                 (HasId(<<"video", 0>>, id)' <=> HasId(<<"video", 0>>, id))
           /\ othersQueue' = othersQueue =>
                 (HasId(<<"others", 0>>, id)' <=> HasId(<<"others", 0>>, id))
           /\ request' = request => (HasId(Path!Sender, id)' <=> HasId(Path!Sender, id))
           /\ served' = served => (HasId(Path!Served, id)' <=> HasId(Path!Served, id))
           /\ lost' = lost => (HasId(Path!Lost, id)' <=> HasId(Path!Lost, id))
           /\ \A e \in Engines : pipe'[e] = pipe[e] =>
                 (HasId(PipeOf(e), id)' <=> HasId(PipeOf(e), id))
           /\ \A e \in Engines :
                 /\ ePc'[e] \in InHands <=> ePc[e] \in InHands
                 /\ ePc[e] \in InHands => eRequest'[e] = eRequest[e]
                 => (HasId(HandsOf(e), id)' <=> HasId(HandsOf(e), id))
BY HasIdNow, HasIdNext

LEMMA OthersStill ==
    ASSUME TypeOK, TypeOK', NEW id, NEW s \in Stations,
           s = Path!Receiver => rRequest' = rRequest,
           s = <<"video", 0>> => videoQueue' = videoQueue,
           s = <<"others", 0>> => othersQueue' = othersQueue,
           s = Path!Sender => request' = request,
           s = Path!Served => served' = served,
           s = Path!Lost => lost' = lost,
           \A e \in Engines :
              /\ s = PipeOf(e) => pipe'[e] = pipe[e]
              /\ s = HandsOf(e) =>
                    /\ ePc'[e] \in InHands <=> ePc[e] \in InHands
                    /\ ePc[e] \in InHands => eRequest'[e] = eRequest[e]
    PROVE  HasId(s, id)' <=> HasId(s, id)
<1>1. CASE s \in {Path!Receiver, <<"video", 0>>, <<"others", 0>>, Path!Sender, Path!Served,
                  Path!Lost}
  BY <1>1, StationStill
<1>2. ASSUME NEW e \in Engines, s \in {PipeOf(e), HandsOf(e)}
      PROVE  HasId(s, id)' <=> HasId(s, id)
  BY <1>2, StationStill
<1> QED
  BY <1>1, <1>2, StationCases

\* A step that touches no queue, no pipe and no hand moves nothing.
LEMMA StillMoves ==
    ASSUME TypeOK, TypeOK',
           UNCHANGED <<rRequest, videoQueue, othersQueue, request, served, lost>>,
           \A e \in Engines :
              /\ pipe'[e] = pipe[e]
              /\ ePc'[e] \in InHands <=> ePc[e] \in InHands
              /\ ePc[e] \in InHands => eRequest'[e] = eRequest[e]
    PROVE  Moves({}, Path!Lost)
BY OthersStill DEF Moves

\* Two names of stations are names of two stations.
LEMMA StationsDiffer ==
    /\ Path!Receiver \notin {<<"video", 0>>, <<"others", 0>>, Path!Sender, Path!Served, Path!Lost}
    /\ <<"video", 0>> \notin {<<"others", 0>>, Path!Sender, Path!Served, Path!Lost}
    /\ <<"others", 0>> \notin {Path!Sender, Path!Served, Path!Lost}
    /\ Path!Sender \notin {Path!Served, Path!Lost}
    /\ Path!Served # Path!Lost
    /\ \A e, f \in Engines :
          /\ {PipeOf(e), HandsOf(e)} \cap {Path!Receiver, <<"video", 0>>, <<"others", 0>>,
                                           Path!Sender, Path!Served, Path!Lost} = {}
          /\ PipeOf(e) # HandsOf(f)
          /\ e # f => PipeOf(e) # PipeOf(f) /\ HandsOf(e) # HandsOf(f)
BY DEF PipeOf, HandsOf, Path!Receiver, Path!Sender, Path!Served, Path!Lost

\* What leaves one station for another has moved, since it was at no third one.
LEMMA MoveFrom ==
    ASSUME Ledger, NEW ids, NEW from \in Stations, NEW to \in Stations, from # to,
           \A id \in Nat \ {0} :
              /\ HasId(from, id)' <=> HasId(from, id) /\ id \notin ids
              /\ HasId(to, id)' <=> HasId(to, id) \/ id \in ids
              /\ id \in ids => HasId(from, id)
              /\ \A s \in Stations \ {from, to} : HasId(s, id)' <=> HasId(s, id)
    PROVE  Moves(ids, to)
<1> SUFFICES ASSUME NEW s \in Stations, NEW id \in Nat \ {0}
             PROVE  HasId(s, id)' <=> IF id \in ids THEN s = to ELSE HasId(s, id)
  BY DEF Moves
<1>1. CASE id \notin ids
  BY <1>1
<1>2. CASE id \in ids
  <2>1. HasId(s, id) => s = from
    BY <1>2, OnePlace DEF Ledger, IInv
  <2> QED
    BY <1>2, <2>1
<1> QED
  BY <1>1, <1>2

\* A message that is read comes from outside.
LEMMA ReceiveMoves ==
    ASSUME Ledger, TypeOK', NEW kind \in Arrivals, Receive(kind)
    PROVE  Moves({received + 1}, Path!Receiver)
<1> SUFFICES ASSUME NEW s \in Stations, NEW id \in Nat \ {0}
             PROVE  HasId(s, id)' <=> IF id = received + 1 THEN s = Path!Receiver ELSE HasId(s, id)
  BY DEF Moves
<1>1. /\ rRequest.id = 0 /\ rRequest'.id = received + 1
      /\ UNCHANGED <<videoQueue, othersQueue, request, pipe, eRequest, ePc, served, lost>>
  BY DEF Receive, Ledger, HandsTrue, NoRequest, queueVars, senderVars, engineVars, historyVars
<1>2. TypeOK
  BY DEF Ledger, IInv
<1>3. id = received + 1 => ~HasId(s, id)
  BY <1>2 DEF Ledger, Numbered, TypeOK
<1>4. CASE s = Path!Receiver
  BY <1>1, <1>2, <1>4, HasIdNow, HasIdNext
<1>5. CASE s # Path!Receiver
  <2>1. HasId(s, id)' <=> HasId(s, id)
    BY <1>1, <1>2, <1>5, OthersStill
  <2> QED
    BY <1>3, <1>5, <2>1
<1> QED
  BY <1>4, <1>5

\* The Receiver's request goes into its queue, or is lost to a full one.
LEMMA InsertMoves ==
    ASSUME Ledger, TypeOK', ReceiverInsert
    PROVE  \/ Len(videoQueue) < QUEUE_POS /\ Moves({rRequest.id}, <<"video", 0>>)
           \/ Len(othersQueue) < QUEUE_POS /\ Moves({rRequest.id}, <<"others", 0>>)
           \/ /\ Len(videoQueue) = QUEUE_POS \/ Len(othersQueue) = QUEUE_POS
              /\ Moves({rRequest.id}, Path!Lost)
<1> DEFINE forVideo == rRequest.kind \in {"REGISTER", "VIDEO"}
           queue    == IF forVideo THEN videoQueue ELSE othersQueue
<1>1. TypeOK /\ QueuesSorted
  BY DEF Ledger, IInv
<1>2. /\ rRequest \in Request /\ rRequest.id \in Nat \ {0}
      /\ rRequest' = NoRequest /\ NoRequest.id = 0
      /\ UNCHANGED <<request, pipe, eRequest, ePc, served>>
  BY <1>1 DEF ReceiverInsert, TypeOK, Request, NoRequest, senderVars, engineVars
<1>3. /\ videoQueue \in Seq(Request) /\ othersQueue \in Seq(Request)
      /\ Len(videoQueue) <= QUEUE_POS /\ Len(othersQueue) <= QUEUE_POS
  BY <1>1 DEF TypeOK, QueuesSorted
<1>4. ASSUME NEW id \in Nat \ {0}
      PROVE  /\ ~HasId(Path!Receiver, id)'
             /\ HasId(Path!Receiver, id) <=> id \in {rRequest.id}
  BY <1>1, <1>2, HasIdNow, HasIdNext
<1>5. CASE HasRoom(queue, QUEUE_POS) /\ forVideo
  <2>1. videoQueue' = Append(videoQueue, rRequest) /\ UNCHANGED <<othersQueue, lost>>
    BY <1>5 DEF ReceiverInsert
  <2>2. ASSUME NEW id \in Nat \ {0}
        PROVE  HasId(<<"video", 0>>, id)' <=> HasId(<<"video", 0>>, id) \/ id \in {rRequest.id}
    BY <1>1, <1>2, <1>3, <2>1, HasIdNow, HasIdNext, InAppend
  <2>3. ASSUME NEW id \in Nat \ {0}, NEW s \in Stations \ {Path!Receiver, <<"video", 0>>}
        PROVE  HasId(s, id)' <=> HasId(s, id)
    BY <1>1, <1>2, <2>1, OthersStill
  <2>4. Moves({rRequest.id}, <<"video", 0>>)
    BY <1>4, <2>2, <2>3, MoveFrom, StationTypes, StationsDiffer
  <2> QED
    BY <1>5, <2>4 DEF HasRoom
<1>6. CASE HasRoom(queue, QUEUE_POS) /\ ~forVideo
  <2>1. othersQueue' = Append(othersQueue, rRequest) /\ UNCHANGED <<videoQueue, lost>>
    BY <1>6 DEF ReceiverInsert
  <2>2. ASSUME NEW id \in Nat \ {0}
        PROVE  HasId(<<"others", 0>>, id)' <=> HasId(<<"others", 0>>, id) \/ id \in {rRequest.id}
    BY <1>1, <1>2, <1>3, <2>1, HasIdNow, HasIdNext, InAppend
  <2>3. ASSUME NEW id \in Nat \ {0}, NEW s \in Stations \ {Path!Receiver, <<"others", 0>>}
        PROVE  HasId(s, id)' <=> HasId(s, id)
    BY <1>1, <1>2, <2>1, OthersStill
  <2>4. Moves({rRequest.id}, <<"others", 0>>)
    BY <1>4, <2>2, <2>3, MoveFrom, StationTypes, StationsDiffer
  <2> QED
    BY <1>6, <2>4 DEF HasRoom
<1>7. CASE ~HasRoom(queue, QUEUE_POS)
  <2>1. lost' = lost \cup {rRequest} /\ UNCHANGED <<videoQueue, othersQueue>>
    BY <1>7 DEF ReceiverInsert
  <2>2. ASSUME NEW id \in Nat \ {0}
        PROVE  HasId(Path!Lost, id)' <=> HasId(Path!Lost, id) \/ id \in {rRequest.id}
    BY <1>1, <1>2, <2>1, HasIdNow, HasIdNext
  <2>3. ASSUME NEW id \in Nat \ {0}, NEW s \in Stations \ {Path!Receiver, Path!Lost}
        PROVE  HasId(s, id)' <=> HasId(s, id)
    BY <1>1, <1>2, <2>1, OthersStill
  <2>4. Moves({rRequest.id}, Path!Lost)
    BY <1>4, <2>2, <2>3, MoveFrom, StationTypes, StationsDiffer
  <2>5. Len(queue) = QUEUE_POS
    BY <1>3, <1>7, ConfigAssumption DEF HasRoom
  <2> QED
    BY <2>4, <2>5
<1> QED
  BY <1>5, <1>6, <1>7

\* The numbers of a queue.
Ids(queue) == {id \in Nat \ {0} : InSeq(queue, id)}

\* What drop() does to queue, the one at station q, in numbers.
LEMMA DropMoves ==
    ASSUME Ledger, TypeOK', NEW queue \in Seq(Request), Increasing(queue), ~IsEmpty(queue),
           NEW q \in {<<"video", 0>>, <<"others", 0>>}, TakeFrom(queue), request = NoRequest,
           \A id : HasId(q, id) <=> InSeq(queue, id),
           \A id : HasId(q, id)' <=> InSeq(AfterDrop(queue, late), id),
           \A id \in Nat \ {0} : \A s \in Stations \ {q, Path!Sender, Path!Lost} :
              HasId(s, id)' <=> HasId(s, id)
    PROVE  \/ Moves(Ids(queue), Path!Lost) /\ request' = NoRequest
           \/ Moves({Head(queue).id}, Path!Sender) /\ request' = Head(queue)
<1>1. TypeOK /\ Head(queue) \in Request /\ Head(queue).id \in Nat \ {0} /\ NoRequest.id = 0
  <2>1. Head(queue) \in Request
    BY TailKeeps, IncreasingDistinct DEF IsEmpty
  <2> QED
    BY <2>1 DEF Ledger, IInv, Request, NoRequest
<1>2. q \in Stations /\ q # Path!Sender /\ q # Path!Lost
  BY StationTypes, StationsDiffer
<1>3. CASE Overdue(Head(queue), late)
  <2>1. Kept(queue, late) = << >> /\ AfterDrop(queue, late) = << >>
    BY <1>3 DEF Kept, AfterDrop, IsEmpty
  <2>2. request' = NoRequest /\ lost' = lost \cup Elements(queue)
    BY <2>1, EmptyKeeps DEF TakeFrom, Dropped, IsEmpty
  <2>3. ASSUME NEW id \in Nat \ {0}
        PROVE  /\ HasId(q, id)' <=> HasId(q, id) /\ id \notin Ids(queue)
               /\ HasId(Path!Lost, id)' <=> HasId(Path!Lost, id) \/ id \in Ids(queue)
               /\ id \in Ids(queue) => HasId(q, id)
               /\ HasId(Path!Sender, id)' <=> HasId(Path!Sender, id)
    <3>1. ~InSeq(AfterDrop(queue, late), id)
      BY <2>1, EmptyKeeps
    <3>2. id \in Ids(queue) <=> \E r \in Elements(queue) : r.id = id
      BY InElements DEF Ids
    <3>3. id \in Ids(queue) <=> InSeq(queue, id)
      BY DEF Ids
    <3> QED
      BY <1>1, <2>2, <3>1, <3>2, <3>3, HasIdNow, HasIdNext
  <2>4. Moves(Ids(queue), Path!Lost)
    BY <1>2, <2>3, MoveFrom, StationTypes
  <2> QED
    BY <2>2, <2>4
<1>4. CASE ~Overdue(Head(queue), late)
  <2>1. Kept(queue, late) = queue /\ AfterDrop(queue, late) = Tail(queue)
    BY <1>4 DEF Kept, AfterDrop, IsEmpty
  <2>2. request' = Head(queue) /\ lost' = lost
    BY <2>1 DEF TakeFrom, Dropped
  <2>3. ASSUME NEW id \in Nat \ {0}
        PROVE  /\ HasId(q, id)' <=> HasId(q, id) /\ id \notin {Head(queue).id}
               /\ HasId(Path!Sender, id)' <=> HasId(Path!Sender, id) \/ id \in {Head(queue).id}
               /\ id \in {Head(queue).id} => HasId(q, id)
               /\ HasId(Path!Lost, id)' <=> HasId(Path!Lost, id)
    <3>1. InSeq(Tail(queue), id) <=> InSeq(queue, id) /\ id # Head(queue).id
      BY TailKeeps, IncreasingDistinct DEF IsEmpty
    <3>2. InSeq(queue, Head(queue).id)
      BY TailKeeps, IncreasingDistinct, InElements DEF IsEmpty
    <3> QED
      BY <1>1, <2>1, <2>2, <3>1, <3>2, HasIdNow, HasIdNext
  <2>4. Moves({Head(queue).id}, Path!Sender)
    BY <1>2, <2>3, MoveFrom, StationTypes
  <2> QED
    BY <2>2, <2>4
<1> QED
  BY <1>3, <1>4

\* The Sender's look at the video queue: nothing moves, the whole queue is lost or its
\* oldest request is taken.
LEMMA TryVideoMoves ==
    ASSUME Ledger, TypeOK', SenderTryVideo
    PROVE  \/ Moves({}, Path!Lost) /\ UNCHANGED <<request, videoQueue>>
           \/ /\ videoQueue # << >> /\ request' \in Elements(videoQueue) \cup {NoRequest}
              /\ request = NoRequest
              /\ \/ Moves(Ids(videoQueue), Path!Lost) /\ request' = NoRequest
                 \/ Moves({Head(videoQueue).id}, Path!Sender) /\ request' = Head(videoQueue)
<1>1. /\ TypeOK /\ videoQueue \in Seq(Request) /\ Increasing(videoQueue)
      /\ request = NoRequest
      /\ UNCHANGED <<rRequest, othersQueue, pipe, eRequest, ePc, served>>
  BY DEF Ledger, IInv, TypeOK, ArrivalOrder, HandsTrue, SenderTryVideo, receiverVars, engineVars
<1>2. CASE IsEmpty(videoQueue)
  <2>1. UNCHANGED <<videoQueue, request, lost>>
    BY <1>2 DEF SenderTryVideo
  <2>2. Moves({}, Path!Lost)
    BY <1>1, <2>1, StillMoves
  <2> QED
    BY <2>1, <2>2
<1>3. CASE ~IsEmpty(videoQueue)
  <2>1. TakeFrom(videoQueue) /\ videoQueue' = AfterDrop(videoQueue, late)
    BY <1>3 DEF SenderTryVideo
  <2>2. ASSUME NEW id \in Nat \ {0},
               NEW s \in Stations \ {<<"video", 0>>, Path!Sender, Path!Lost}
        PROVE  HasId(s, id)' <=> HasId(s, id)
    BY <1>1, OthersStill
  <2>3. ASSUME NEW id
        PROVE  /\ HasId(<<"video", 0>>, id) <=> InSeq(videoQueue, id)
               /\ HasId(<<"video", 0>>, id)' <=> InSeq(AfterDrop(videoQueue, late), id)
    BY <1>1, <2>1, HasIdNow, HasIdNext
  <2>4. \/ Moves(Ids(videoQueue), Path!Lost) /\ request' = NoRequest
        \/ Moves({Head(videoQueue).id}, Path!Sender) /\ request' = Head(videoQueue)
    BY <1>1, <1>3, <2>1, <2>2, <2>3, DropMoves
  <2>5. Head(videoQueue) \in Elements(videoQueue) /\ videoQueue # << >>
    BY <1>1, <1>3, TailKeeps, IncreasingDistinct DEF IsEmpty
  <2> QED
    BY <1>1, <2>4, <2>5
<1> QED
  BY <1>2, <1>3

\* The same for the other queue.
LEMMA TryOthersMoves ==
    ASSUME Ledger, TypeOK', SenderTryOthers
    PROVE  \/ Moves({}, Path!Lost) /\ UNCHANGED <<request, othersQueue>>
           \/ /\ othersQueue # << >> /\ request' \in Elements(othersQueue) \cup {NoRequest}
              /\ request = NoRequest
              /\ \/ Moves(Ids(othersQueue), Path!Lost) /\ request' = NoRequest
                 \/ Moves({Head(othersQueue).id}, Path!Sender) /\ request' = Head(othersQueue)
<1>1. /\ TypeOK /\ othersQueue \in Seq(Request) /\ Increasing(othersQueue)
      /\ request = NoRequest
      /\ UNCHANGED <<rRequest, videoQueue, pipe, eRequest, ePc, served>>
  BY DEF Ledger, IInv, TypeOK, ArrivalOrder, HandsTrue, SenderTryOthers, receiverVars, engineVars
<1>2. CASE IsEmpty(othersQueue)
  <2>1. UNCHANGED <<othersQueue, request, lost>>
    BY <1>2 DEF SenderTryOthers
  <2>2. Moves({}, Path!Lost)
    BY <1>1, <2>1, StillMoves
  <2> QED
    BY <2>1, <2>2
<1>3. CASE ~IsEmpty(othersQueue)
  <2>1. TakeFrom(othersQueue) /\ othersQueue' = AfterDrop(othersQueue, late)
    BY <1>3 DEF SenderTryOthers
  <2>2. ASSUME NEW id \in Nat \ {0},
               NEW s \in Stations \ {<<"others", 0>>, Path!Sender, Path!Lost}
        PROVE  HasId(s, id)' <=> HasId(s, id)
    BY <1>1, OthersStill
  <2>3. ASSUME NEW id
        PROVE  /\ HasId(<<"others", 0>>, id) <=> InSeq(othersQueue, id)
               /\ HasId(<<"others", 0>>, id)' <=> InSeq(AfterDrop(othersQueue, late), id)
    BY <1>1, <2>1, HasIdNow, HasIdNext
  <2>4. \/ Moves(Ids(othersQueue), Path!Lost) /\ request' = NoRequest
        \/ Moves({Head(othersQueue).id}, Path!Sender) /\ request' = Head(othersQueue)
    BY <1>1, <1>3, <2>1, <2>2, <2>3, DropMoves
  <2>5. Head(othersQueue) \in Elements(othersQueue) /\ othersQueue # << >>
    BY <1>1, <1>3, TailKeeps, IncreasingDistinct DEF IsEmpty
  <2> QED
    BY <1>1, <2>4, <2>5
<1> QED
  BY <1>2, <1>3

\* write() puts the Sender's request into the pipe of the engine it found, or fails, and
\* then the engine was the backup.
LEMMA WriteMoves ==
    ASSUME Ledger, TypeOK', SenderWrite
    PROVE  /\ request \in Request
           /\ \/ Moves({request.id}, Path!Lost)
              \/ \E e \in Engines : Moves({request.id}, PipeOf(e))
<1>1. /\ TypeOK /\ request \in Request /\ availableEngine \in Engines
      /\ request.id \in Nat \ {0} /\ request' = NoRequest /\ NoRequest.id = 0
      /\ UNCHANGED <<rRequest, videoQueue, othersQueue, eRequest, ePc, served>>
  BY DEF Ledger, IInv, TypeOK, Request, NoRequest, SenderWrite, receiverVars, queueVars
<1>2. ASSUME NEW id \in Nat \ {0}
      PROVE  /\ ~HasId(Path!Sender, id)'
             /\ HasId(Path!Sender, id) <=> id \in {request.id}
  BY <1>1, HasIdNow, HasIdNext
<1>3. CASE availableEngine = Backup /\ backupPipeOpen = 0
  <2>1. lost' = lost \cup {request} /\ pipe' = pipe
    BY <1>3 DEF SenderWrite
  <2>2. ASSUME NEW id \in Nat \ {0}
        PROVE  HasId(Path!Lost, id)' <=> HasId(Path!Lost, id) \/ id \in {request.id}
    BY <1>1, <2>1, HasIdNow, HasIdNext
  <2>3. ASSUME NEW id \in Nat \ {0}, NEW s \in Stations \ {Path!Sender, Path!Lost}
        PROVE  HasId(s, id)' <=> HasId(s, id)
    BY <1>1, <2>1, OthersStill
  <2>4. Moves({request.id}, Path!Lost)
    BY <1>2, <2>2, <2>3, MoveFrom, StationTypes, StationsDiffer
  <2> QED
    BY <1>1, <2>4
<1>4. CASE ~(availableEngine = Backup /\ backupPipeOpen = 0)
  <2>1. /\ pipe' = [pipe EXCEPT ![availableEngine] = Append(@, request)] /\ lost' = lost
        /\ pipe \in [Engines -> Seq(Request)]
    BY <1>1, <1>4 DEF SenderWrite, TypeOK
  <2> PICK e \in Engines : e = availableEngine
    BY <1>1
  <2>2. ASSUME NEW id \in Nat \ {0}
        PROVE  HasId(PipeOf(e), id)'
                  <=> HasId(PipeOf(e), id) \/ id \in {request.id}
    <3>1. InSeq(pipe'[e], id) <=> InSeq(pipe[e], id) \/ request.id = id
      BY <1>1, <2>1, InAppend
    <3> QED
      BY <1>1, <3>1, HasIdNow, HasIdNext
  <2>3. ASSUME NEW id \in Nat \ {0},
               NEW s \in Stations \ {Path!Sender, PipeOf(e)}
        PROVE  HasId(s, id)' <=> HasId(s, id)
    <3>1. \A f \in Engines : s = PipeOf(f) => pipe'[f] = pipe[f]
      BY <2>1
    <3> QED
      BY <1>1, <2>1, <3>1, OthersStill
  <2>4. Moves({request.id}, PipeOf(e))
    BY <1>1, <1>2, <2>2, <2>3, MoveFrom, StationTypes, StationsDiffer
  <2> QED
    BY <1>1, <2>4
<1> QED
  BY <1>3, <1>4

\* read() takes the oldest request of the pipe into the engine's hands.
LEMMA ReadMoves ==
    ASSUME Ledger, TypeOK', NEW e \in Engines, EngineRead(e)
    PROVE  pipe[e] # << >> /\ Moves({Head(pipe[e]).id}, HandsOf(e))
<1>1. /\ TypeOK /\ ePc[e] = "idle" /\ ePc' = [ePc EXCEPT ![e] = "mark"]
      /\ pipe[e] # << >> /\ pipe' = [pipe EXCEPT ![e] = Tail(@)]
      /\ eRequest' = [eRequest EXCEPT ![e] = Head(pipe[e])]
      /\ pipe \in [Engines -> Seq(Request)] /\ Distinct(pipe[e])
      /\ ePc \in [Engines -> EnginePcs]
      /\ eRequest \in [Engines -> Request \cup {NoRequest}]
      /\ UNCHANGED <<rRequest, videoQueue, othersQueue, request, served, lost>>
  BY DEF Ledger, IInv, TypeOK, QueuesSorted, EngineRead, EngineGoto, receiverVars, queueVars,
         senderVars, historyVars
<1>2. /\ Head(pipe[e]) \in Request /\ InSeq(pipe[e], Head(pipe[e]).id)
      /\ \A id : InSeq(Tail(pipe[e]), id) <=> InSeq(pipe[e], id) /\ id # Head(pipe[e]).id
  BY <1>1, TailKeeps, InElements
<1>3. ePc'[e] \in InHands /\ ePc[e] \notin InHands /\ eRequest'[e] = Head(pipe[e])
      /\ pipe'[e] = Tail(pipe[e])
  BY <1>1 DEF InHands
<1>4. ASSUME NEW id \in Nat \ {0}
      PROVE  /\ HasId(PipeOf(e), id)' <=> HasId(PipeOf(e), id) /\ id \notin {Head(pipe[e]).id}
             /\ HasId(HandsOf(e), id)' <=> HasId(HandsOf(e), id) \/ id \in {Head(pipe[e]).id}
             /\ id \in {Head(pipe[e]).id} => HasId(PipeOf(e), id)
  <2>1. /\ HasId(PipeOf(e), id) <=> InSeq(pipe[e], id)
        /\ HasId(PipeOf(e), id)' <=> InSeq(Tail(pipe[e]), id)
        /\ ~HasId(HandsOf(e), id)
        /\ HasId(HandsOf(e), id)' <=> Head(pipe[e]).id = id
    <3>1. /\ HasId(PipeOf(e), id) <=> InSeq(pipe[e], id)
          /\ HasId(HandsOf(e), id) <=> ePc[e] \in InHands /\ eRequest[e].id = id
      BY <1>1, HasIdNow
    <3>2. /\ HasId(PipeOf(e), id)' <=> InSeq(pipe'[e], id)
          /\ HasId(HandsOf(e), id)' <=> ePc'[e] \in InHands /\ eRequest'[e].id = id
      BY HasIdNext
    <3> QED
      BY <1>3, <3>1, <3>2
  <2> QED
    BY <1>2, <2>1
<1>5. ASSUME NEW id \in Nat \ {0}, NEW s \in Stations \ {PipeOf(e), HandsOf(e)}
      PROVE  HasId(s, id)' <=> HasId(s, id)
  <2>1. \A f \in Engines \ {e} :
           pipe'[f] = pipe[f] /\ ePc'[f] = ePc[f] /\ eRequest'[f] = eRequest[f]
    BY <1>1
  <2> QED
    BY <1>1, <2>1, OthersStill
<1> QED
  BY <1>1, <1>4, <1>5, MoveFrom, StationTypes, StationsDiffer

\* Serving it takes it out of them.
LEMMA ServeMoves ==
    ASSUME Ledger, TypeOK', NEW e \in Engines, EngineServe(e)
    PROVE  HasId(HandsOf(e), eRequest[e].id) /\ Moves({eRequest[e].id}, Path!Served)
<1>1. /\ TypeOK /\ ePc[e] = "serving" /\ ePc' = [ePc EXCEPT ![e] = "free"]
      /\ served' = served \cup {eRequest[e]}
      /\ ePc \in [Engines -> EnginePcs]
      /\ UNCHANGED <<rRequest, videoQueue, othersQueue, request, pipe, eRequest, lost>>
  BY DEF Ledger, IInv, TypeOK, EngineServe, EngineGoto, receiverVars, queueVars, senderVars
<1>2. ePc'[e] \notin InHands /\ ePc[e] \in InHands
  BY <1>1 DEF InHands
<1>3. ASSUME NEW id \in Nat \ {0}
      PROVE  /\ HasId(HandsOf(e), id)' <=> HasId(HandsOf(e), id) /\ id \notin {eRequest[e].id}
             /\ HasId(Path!Served, id)' <=> HasId(Path!Served, id) \/ id \in {eRequest[e].id}
             /\ id \in {eRequest[e].id} => HasId(HandsOf(e), id)
  BY <1>1, <1>2, HasIdNow, HasIdNext
<1>4. ASSUME NEW id \in Nat \ {0}, NEW s \in Stations \ {HandsOf(e), Path!Served}
      PROVE  HasId(s, id)' <=> HasId(s, id)
  <2>1. \A f \in Engines \ {e} : ePc'[f] = ePc[f]
    BY <1>1
  <2> QED
    BY <1>1, <2>1, OthersStill
<1>5. HasId(HandsOf(e), eRequest[e].id)
  BY <1>1, <1>2, HasIdNow
<1> QED
  BY <1>3, <1>4, <1>5, MoveFrom, StationTypes, StationsDiffer

\* No other step of an engine moves a request.
LEMMA EngineMoves ==
    ASSUME Ledger, TypeOK', NEW e \in Engines,
           EngineReady(e) \/ EngineAcquire(e) \/ EngineMark(e) \/ EngineFree(e)
    PROVE  Moves({}, Path!Lost)
<1>1. /\ TypeOK /\ ePc \in [Engines -> EnginePcs]
      /\ eRequest \in [Engines -> Request \cup {NoRequest}]
      /\ UNCHANGED <<rRequest, videoQueue, othersQueue, request, pipe, served, lost>>
  BY DEF Ledger, IInv, TypeOK, EngineReady, EngineAcquire, EngineMark, EngineFree,
         receiverVars, queueVars, senderVars, historyVars
<1>2. ASSUME NEW f \in Engines
      PROVE  /\ ePc'[f] \in InHands <=> ePc[f] \in InHands
             /\ ePc[f] \in InHands => eRequest'[f] = eRequest[f]
  BY <1>1 DEF EngineReady, EngineAcquire, EngineMark, EngineFree, EngineGoto, InHands
<1> QED
  BY <1>1, <1>2, StillMoves

\* The backup engine dies with what is in its pipe and in its hands ...
LEMMA KillBackupMoves ==
    ASSUME Ledger, TypeOK', ArmKillBackup
    PROVE  Moves({id \in Nat \ {0} : HasId(PipeOf(Backup), id) \/ HasId(HandsOf(Backup), id)},
                 Path!Lost)
<1> DEFINE b   == Backup
           ids == {id \in Nat \ {0} : HasId(PipeOf(b), id) \/ HasId(HandsOf(b), id)}
<1>1. /\ TypeOK /\ b \in Engines
      /\ ePc' = [ePc EXCEPT ![b] = "absent"] /\ pipe' = [pipe EXCEPT ![b] = << >>]
      /\ eRequest' = [eRequest EXCEPT ![b] = NoRequest]
      /\ lost' = lost \cup Elements(pipe[b]) \cup ({eRequest[b]} \ ({NoRequest} \cup served))
      /\ pipe \in [Engines -> Seq(Request)] /\ ePc \in [Engines -> EnginePcs]
      /\ eRequest \in [Engines -> Request \cup {NoRequest}]
      /\ UNCHANGED <<rRequest, videoQueue, othersQueue, request, served>>
  BY ConfigAssumption
  DEF Ledger, IInv, TypeOK, ArmKillBackup, receiverVars, queueVars, senderVars
<1>2. eRequest[b] \notin {NoRequest} \cup served <=> ePc[b] \in InHands
  <2>1. ASSUME ePc[b] \in InHands PROVE eRequest[b] \notin {NoRequest} \cup served
    <3>1. eRequest[b] \in Request /\ eRequest[b].id \in Nat \ {0}
      BY <1>1, <2>1 DEF TypeOK, InHands, Request
    <3>2. HasId(HandsOf(b), eRequest[b].id)
      BY <1>1, <2>1, HasIdNow
    <3>3. ~HasId(Path!Served, eRequest[b].id)
      BY <1>1, <3>1, <3>2, OnePlace, StationTypes, StationsDiffer DEF Ledger
    <3> QED
      BY <1>1, <3>1, <3>3, HasIdNow, NoRequestIsNone
  <2>2. ASSUME ePc[b] \notin InHands PROVE eRequest[b] \in {NoRequest} \cup served
    BY <1>1, <2>2 DEF Ledger, HandsTrue, InHands, EnginePcs
  <2> QED
    BY <2>1, <2>2
<1>3. ASSUME NEW id \in Nat \ {0}
      PROVE  HasId(Path!Lost, id)' <=> HasId(Path!Lost, id) \/ id \in ids
  <2>1. /\ HasId(PipeOf(b), id) <=> \E r \in Elements(pipe[b]) : r.id = id
        /\ HasId(HandsOf(b), id) <=> ePc[b] \in InHands /\ eRequest[b].id = id
    BY <1>1, HasIdNow, InElements
  <2>2. /\ HasId(Path!Lost, id)' <=> \E r \in lost' : r.id = id
        /\ HasId(Path!Lost, id) <=> \E r \in lost : r.id = id
    BY <1>1, HasIdNow, HasIdNext
  <2>3. id \in ids <=> HasId(PipeOf(b), id) \/ HasId(HandsOf(b), id)
    OBVIOUS
  <2> HIDE DEF ids, b
  <2> QED
    BY <1>1, <1>2, <2>1, <2>2, <2>3
<1>4. ASSUME NEW id \in Nat \ {0}
      PROVE  ~HasId(PipeOf(b), id)' /\ ~HasId(HandsOf(b), id)'
  <2>1. pipe'[b] = << >> /\ ePc'[b] \notin InHands
    BY <1>1 DEF InHands
  <2> QED
    BY <1>1, <2>1, HasIdNext, EmptyKeeps
<1>5. ASSUME NEW id \in Nat \ {0}, NEW s \in Stations \ {PipeOf(b), HandsOf(b), Path!Lost}
      PROVE  HasId(s, id)' <=> HasId(s, id)
  <2>1. \A f \in Engines \ {b} :
           pipe'[f] = pipe[f] /\ ePc'[f] = ePc[f] /\ eRequest'[f] = eRequest[f]
    BY <1>1
  <2> QED
    BY <1>1, <2>1, OthersStill
<1> SUFFICES ASSUME NEW s \in Stations, NEW id \in Nat \ {0}
             PROVE  HasId(s, id)' <=> IF id \in ids THEN s = Path!Lost ELSE HasId(s, id)
  BY DEF Moves
<1>6. id \in ids /\ HasId(s, id) => s \in {PipeOf(b), HandsOf(b)}
  BY <1>1, OnePlace, StationTypes DEF Ledger
<1> QED
  BY <1>3, <1>4, <1>5, <1>6, StationsDiffer

\* ... and the group with all that has not been served.
LEMMA KillGroupMoves ==
    ASSUME Ledger, TypeOK', ArmKillGroup
    PROVE  Moves({id \in Nat \ {0} : \E s \in Stations \ {Path!Served} : HasId(s, id)}, Path!Lost)
<1> DEFINE ids == {id \in Nat \ {0} : \E s \in Stations \ {Path!Served} : HasId(s, id)}
<1>1. /\ TypeOK /\ HandsTrue /\ NoRequest.id = 0
      /\ rRequest' = NoRequest /\ request' = NoRequest
      /\ videoQueue' = << >> /\ othersQueue' = << >> /\ served' = served
      /\ \A e \in Engines : ePc'[e] = "absent" /\ pipe'[e] = << >>
      /\ lost' = lost \cup (Pending \ (served \cup {NoRequest}))
  BY DEF Ledger, IInv, ArmKillGroup, NoRequest
<1>2. ASSUME NEW id \in Nat \ {0}, NEW s \in Stations \ {Path!Served, Path!Lost}
      PROVE  ~HasId(s, id)'
  <2>1. CASE s \in {Path!Receiver, <<"video", 0>>, <<"others", 0>>, Path!Sender}
    BY <1>1, <2>1, HasIdNext, EmptyKeeps
  <2>2. ASSUME NEW e \in Engines PROVE ~HasId(PipeOf(e), id)' /\ ~HasId(HandsOf(e), id)'
    <3>1. ePc'[e] \notin InHands /\ pipe'[e] = << >>
      BY <1>1 DEF InHands
    <3>2. /\ HasId(PipeOf(e), id)' <=> InSeq(pipe'[e], id)
          /\ HasId(HandsOf(e), id)' <=> ePc'[e] \in InHands /\ eRequest'[e].id = id
      BY HasIdNext
    <3> QED
      BY <3>1, <3>2, EmptyKeeps
  <2> QED
    BY <2>1, <2>2, StationCases
<1>3. ASSUME NEW id \in Nat \ {0}, NEW r \in Pending \ (served \cup {NoRequest}), r.id = id
      PROVE  \E s \in Stations \ {Path!Served} : HasId(s, id)
  <2>1. CASE r \in {rRequest, request} \cup Elements(videoQueue) \cup Elements(othersQueue)
    <3>1. \/ HasId(Path!Receiver, id) \/ HasId(Path!Sender, id)
          \/ HasId(<<"video", 0>>, id) \/ HasId(<<"others", 0>>, id)
      <4>1. videoQueue \in Seq(Request) /\ othersQueue \in Seq(Request)
        BY <1>1 DEF TypeOK
      <4> QED
        BY <1>1, <1>3, <2>1, <4>1, HasIdNow, InElements
    <3> QED
      BY <3>1, StationTypes, StationsDiffer
  <2>2. ASSUME NEW e \in Engines, r \in Elements(pipe[e]) \cup {eRequest[e]}
        PROVE  HasId(PipeOf(e), id) \/ HasId(HandsOf(e), id)
    <3>1. CASE r \in Elements(pipe[e])
      <4>1. pipe[e] \in Seq(Request)
        BY <1>1 DEF TypeOK
      <4> QED
        BY <1>1, <1>3, <3>1, <4>1, HasIdNow, InElements
    <3>2. CASE r = eRequest[e]
      <4>1. ePc[e] \in InHands
        BY <1>1, <3>2 DEF HandsTrue, TypeOK, InHands, EnginePcs
      <4> QED
        BY <1>1, <1>3, <3>2, <4>1, HasIdNow
    <3> QED
      BY <2>2, <3>1, <3>2
  <2>3. \/ r \in {rRequest, request} \cup Elements(videoQueue) \cup Elements(othersQueue)
        \/ \E e \in Engines : r \in Elements(pipe[e]) \cup {eRequest[e]}
    BY DEF Pending
  <2> QED
    BY <2>1, <2>2, <2>3, StationTypes, StationsDiffer
<1>4. ASSUME NEW id \in Nat \ {0}, NEW s \in Stations \ {Path!Served, Path!Lost}, HasId(s, id)
      PROVE  \E r \in Pending \ (served \cup {NoRequest}) : r.id = id
  <2>1. \A r \in served \cup {NoRequest} : r.id # id
    <3>1. ~HasId(Path!Served, id)
      BY <1>1, <1>4, OnePlace, StationTypes DEF Ledger
    <3>2. \A r \in served : r.id # id
      BY <1>1, <3>1, HasIdNow
    <3> QED
      BY <1>1, <3>2
  <2>2. \E r \in Pending : r.id = id
    <3>1. /\ videoQueue \in Seq(Request) /\ othersQueue \in Seq(Request)
          /\ \A e \in Engines : pipe[e] \in Seq(Request)
      BY <1>1 DEF TypeOK
    <3>2. CASE s \in {Path!Receiver, <<"video", 0>>, <<"others", 0>>, Path!Sender}
      <4>1. /\ HasId(Path!Receiver, id) => rRequest.id = id
            /\ HasId(Path!Sender, id) => request.id = id
            /\ HasId(<<"video", 0>>, id) => \E r \in Elements(videoQueue) : r.id = id
            /\ HasId(<<"others", 0>>, id) => \E r \in Elements(othersQueue) : r.id = id
        BY <1>1, <3>1, HasIdNow, InElements
      <4>2. \E r \in {rRequest, request} \cup Elements(videoQueue) \cup Elements(othersQueue) :
               r.id = id
        BY <1>4, <3>2, <4>1
      <4> QED
        BY <4>2 DEF Pending
    <3>3. ASSUME NEW e \in Engines, s \in {PipeOf(e), HandsOf(e)}
          PROVE  \E r \in Pending : r.id = id
      <4>1. /\ HasId(PipeOf(e), id) <=> \E r \in Elements(pipe[e]) : r.id = id
            /\ HasId(HandsOf(e), id) => eRequest[e].id = id
        BY <1>1, <3>1, HasIdNow, InElements
      <4>2. \E r \in Elements(pipe[e]) \cup {eRequest[e]} : r.id = id
        BY <1>4, <3>3, <4>1
      <4> QED
        BY <4>2 DEF Pending
    <3> QED
      BY <3>2, <3>3, StationCases
  <2> QED
    BY <2>1, <2>2
<1>5. ASSUME NEW id \in Nat \ {0}
      PROVE  /\ HasId(Path!Lost, id)' <=> id \in ids
             /\ HasId(Path!Served, id)' <=> HasId(Path!Served, id)
  <2>1. /\ HasId(Path!Lost, id)' <=> \E r \in lost' : r.id = id
        /\ HasId(Path!Lost, id) <=> \E r \in lost : r.id = id
    BY <1>1, HasIdNow, HasIdNext
  <2>2. HasId(Path!Served, id)' <=> HasId(Path!Served, id)
    BY <1>1, HasIdNow, HasIdNext
  <2>3. HasId(Path!Lost, id)' <=>
           HasId(Path!Lost, id) \/ \E r \in Pending \ (served \cup {NoRequest}) : r.id = id
    BY <1>1, <2>1
  <2>4. id \in ids <=> \E s \in Stations \ {Path!Served} : HasId(s, id)
    OBVIOUS
  <2>5. Path!Lost \in Stations \ {Path!Served}
    BY StationTypes, StationsDiffer
  <2> HIDE DEF ids
  <2> QED
    BY <1>3, <1>4, <2>2, <2>3, <2>4, <2>5
<1> SUFFICES ASSUME NEW s \in Stations, NEW id \in Nat \ {0}
             PROVE  HasId(s, id)' <=> IF id \in ids THEN s = Path!Lost ELSE HasId(s, id)
  BY DEF Moves
<1>6. id \in ids => ~HasId(Path!Served, id)
  BY <1>1, OnePlace, StationTypes DEF Ledger
<1>7. id \notin ids => ~HasId(s, id) \/ s = Path!Served
  OBVIOUS
<1> QED
  BY <1>2, <1>5, <1>6, <1>7, StationsDiffer

\* fork() gives the backup engine a pipe as empty as the one it replaces, and no other
\* step of the ARM moves a request.
LEMMA ArmMoves ==
    ASSUME Ledger, TypeOK', Arm, ~ArmKillBackup, ~ArmKillGroup
    PROVE  Moves({}, Path!Lost)
<1> USE DEF receiverVars, queueVars, senderVars, historyVars
<1>1. TypeOK /\ HandsTrue /\ BackupConsistent
  BY DEF Ledger, IInv
<1>2. CASE ArmForkBackup
  <2>0. ePc[Backup] = "absent" /\ pipe[Backup] = << >> /\ Backup \in Engines
    BY <1>1, <1>2, ConfigAssumption DEF ArmForkBackup, ArmGoto, HandsTrue, BackupConsistent
  <2>1. /\ ePc' = [ePc EXCEPT ![Backup] = "ready"] /\ pipe' = [pipe EXCEPT ![Backup] = << >>]
        /\ eRequest' = [eRequest EXCEPT ![Backup] = NoRequest]
        /\ ePc \in [Engines -> EnginePcs]
        /\ eRequest \in [Engines -> Request \cup {NoRequest}] /\ pipe \in [Engines -> Seq(Request)]
        /\ UNCHANGED <<rRequest, videoQueue, othersQueue, request, served, lost>>
    BY <1>1, <1>2 DEF ArmForkBackup, TypeOK
  <2>2. ASSUME NEW e \in Engines
        PROVE  /\ pipe'[e] = pipe[e]
               /\ ePc'[e] \in InHands <=> ePc[e] \in InHands
               /\ ePc[e] \in InHands => eRequest'[e] = eRequest[e]
    BY <2>0, <2>1 DEF InHands
  <2> QED
    BY <1>1, <2>1, <2>2, StillMoves
<1>3. CASE ~ArmForkBackup
  <2>1. UNCHANGED <<rRequest, videoQueue, othersQueue, request, served, lost, engineVars>>
    BY <1>3
    DEF Arm, ArmSeeFull, ArmMarkBackup, ArmClearFull, ArmCheckFull, ArmCheckHalf, ArmClosePipe,
        ArmUnmarkBackup, ArmSetBackupFlag, ArmResetHalf, ArmResetFull, ArmResetNotified
  <2> QED
    BY <1>1, <2>1, StillMoves DEF engineVars
<1> QED
  BY <1>2, <1>3

\* Neither do the steps of the threads that only look or set flags, nor time.
LEMMA OtherMoves ==
    ASSUME Ledger, TypeOK',
           \/ ReceiverSignal \/ Tick \/ UNCHANGED vars
           \/ Sender /\ ~SenderTryVideo /\ ~SenderTryOthers /\ ~SenderWrite
    PROVE  Moves({}, Path!Lost)
<1>1. UNCHANGED <<rRequest, videoQueue, othersQueue, request, served, lost, engineVars>>
  <2> USE DEF receiverVars, queueVars, senderVars, historyVars
  <2>1. CASE ReceiverSignal \/ Tick \/ UNCHANGED vars
    BY <2>1 DEF ReceiverSignal, Tick, vars
  <2>2. CASE Sender /\ ~SenderTryVideo /\ ~SenderTryOthers /\ ~SenderWrite
    BY <2>2
    DEF Sender, SenderAwake, SenderFindEngine, SenderCheckFull, SenderReportFull,
        SenderCheckHalf, SenderCheckNotified, SenderReportHalf, SenderReset
  <2> QED
    BY <2>1, <2>2
<1> QED
  BY <1>1, StillMoves DEF engineVars, Ledger, IInv

---------------------------------------------------------------------------
\* EACH REQUEST ONCE

\* What moves has been given a number, or is being given the next one.
LEMMA KnownMoves ==
    ASSUME Ledger, TypeOK', received' = received, NEW ids, NEW t \in Stations, Moves(ids, t),
           \A id \in ids \cap (Nat \ {0}) : \E s \in Stations : HasId(s, id)
    PROVE  Numbered' /\ EachRequestOnce'
<1>1. TypeOK /\ Numbered /\ EachRequestOnce /\ received \in Nat
  BY DEF Ledger, IInv, TypeOK
<1>2. ids \cap (Nat \ {0}) \subseteq 1 .. received'
  BY <1>1 DEF Numbered
<1> QED
  BY <1>1, <1>2, MovesKeep

LEMMA BooksStep == Ledger /\ TypeOK' /\ [Next]_vars => Numbered' /\ EachRequestOnce'
<1> SUFFICES ASSUME Ledger, TypeOK', [Next]_vars PROVE Numbered' /\ EachRequestOnce'
  OBVIOUS
<1>0. TypeOK /\ Numbered /\ EachRequestOnce /\ received \in Nat /\ Path!Lost \in Stations
  BY StationTypes DEF Ledger, IInv, TypeOK
<1>1. ASSUME NEW kind \in Arrivals, Receive(kind) PROVE Numbered' /\ EachRequestOnce'
  <2>1. received' = received + 1
    BY <1>1 DEF Receive
  <2>2. Moves({received + 1}, Path!Receiver)
    BY <1>1, ReceiveMoves
  <2> QED
    BY <1>0, <2>1, <2>2, MovesKeep, StationTypes
<1>2. CASE ReceiverInsert
  <2>1. PICK t \in Stations : Moves({rRequest.id}, t)
    BY <1>2, InsertMoves, StationTypes
  <2>2. HasId(Path!Receiver, rRequest.id) /\ received' = received
    BY <1>0, <1>2, HasIdNow DEF ReceiverInsert
  <2> QED
    BY <2>1, <2>2, KnownMoves, StationTypes
<1>3. CASE SenderTryVideo
  <2>0. received' = received
    BY <1>3 DEF SenderTryVideo, receiverVars
  <2>1. CASE Moves({}, Path!Lost)
    BY <1>0, <2>0, <2>1, KnownMoves
  <2>2. \A id \in Ids(videoQueue) : HasId(<<"video", 0>>, id)
    BY <1>0, HasIdNow DEF Ids
  <2>3. CASE Moves(Ids(videoQueue), Path!Lost)
    BY <1>0, <2>0, <2>2, <2>3, KnownMoves, StationTypes
  <2>4. CASE videoQueue # << >> /\ Moves({Head(videoQueue).id}, Path!Sender)
    <3>1. InSeq(videoQueue, Head(videoQueue).id)
      BY <2>4, TailKeeps, IncreasingDistinct, InElements DEF Ledger, IInv, TypeOK, ArrivalOrder
    <3>2. HasId(<<"video", 0>>, Head(videoQueue).id)
      BY <1>0, <3>1, HasIdNow
    <3> QED
      BY <2>0, <2>4, <3>2, KnownMoves, StationTypes
  <2> QED
    BY <1>3, <2>1, <2>3, <2>4, TryVideoMoves
<1>4. CASE SenderTryOthers
  <2>0. received' = received
    BY <1>4 DEF SenderTryOthers, receiverVars
  <2>1. CASE Moves({}, Path!Lost)
    BY <1>0, <2>0, <2>1, KnownMoves
  <2>2. \A id \in Ids(othersQueue) : HasId(<<"others", 0>>, id)
    BY <1>0, HasIdNow DEF Ids
  <2>3. CASE Moves(Ids(othersQueue), Path!Lost)
    BY <1>0, <2>0, <2>2, <2>3, KnownMoves, StationTypes
  <2>4. CASE othersQueue # << >> /\ Moves({Head(othersQueue).id}, Path!Sender)
    <3>1. InSeq(othersQueue, Head(othersQueue).id)
      BY <2>4, TailKeeps, IncreasingDistinct, InElements DEF Ledger, IInv, TypeOK, ArrivalOrder
    <3>2. HasId(<<"others", 0>>, Head(othersQueue).id)
      BY <1>0, <3>1, HasIdNow
    <3> QED
      BY <2>0, <2>4, <3>2, KnownMoves, StationTypes
  <2> QED
    BY <1>4, <2>1, <2>3, <2>4, TryOthersMoves
<1>5. CASE SenderWrite
  <2>1. PICK t \in Stations : Moves({request.id}, t)
    BY <1>5, WriteMoves, StationTypes
  <2>2. HasId(Path!Sender, request.id) /\ received' = received
    BY <1>0, <1>5, HasIdNow DEF SenderWrite, receiverVars
  <2> QED
    BY <2>1, <2>2, KnownMoves, StationTypes
<1>6. CASE ArmKillBackup
  <2>1. received' = received /\ Backup \in Engines
    BY <1>6, ConfigAssumption DEF ArmKillBackup, receiverVars
  <2> QED
    BY <1>0, <1>6, <2>1, KillBackupMoves, KnownMoves, StationTypes
<1>7. CASE ArmKillGroup
  <2>1. received' = received
    BY <1>7 DEF ArmKillGroup
  <2> QED
    BY <1>0, <1>7, <2>1, KillGroupMoves, KnownMoves
<1>8. ASSUME NEW e \in Engines, EngineRead(e) PROVE Numbered' /\ EachRequestOnce'
  <2>1. pipe[e] # << >> /\ Moves({Head(pipe[e]).id}, HandsOf(e)) /\ received' = received
    BY <1>8, ReadMoves DEF EngineRead, receiverVars
  <2>2. InSeq(pipe[e], Head(pipe[e]).id)
    BY <2>1, TailKeeps, InElements DEF Ledger, IInv, TypeOK, QueuesSorted
  <2>3. HasId(PipeOf(e), Head(pipe[e]).id)
    BY <1>0, <2>2, HasIdNow
  <2> QED
    BY <2>1, <2>3, KnownMoves, StationTypes
<1>9. ASSUME NEW e \in Engines, EngineServe(e) PROVE Numbered' /\ EachRequestOnce'
  <2>1. received' = received
    BY <1>9 DEF EngineServe, receiverVars
  <2> QED
    BY <1>9, <2>1, ServeMoves, KnownMoves, StationTypes
<1>10. ASSUME Moves({}, Path!Lost), received' = received PROVE Numbered' /\ EachRequestOnce'
  BY <1>0, <1>10, KnownMoves
<1>11. ASSUME NEW e \in Engines,
              EngineReady(e) \/ EngineAcquire(e) \/ EngineMark(e) \/ EngineFree(e)
       PROVE  Numbered' /\ EachRequestOnce'
  <2>1. received' = received
    BY <1>11 DEF EngineReady, EngineAcquire, EngineMark, EngineFree, receiverVars
  <2> QED
    BY <1>10, <1>11, <2>1, EngineMoves
<1>12. CASE Arm /\ ~ArmKillBackup /\ ~ArmKillGroup
  <2>1. received' = received
    BY <1>12
    DEF Arm, ArmSeeFull, ArmForkBackup, ArmMarkBackup, ArmClearFull, ArmCheckFull, ArmCheckHalf,
        ArmClosePipe, ArmUnmarkBackup, ArmSetBackupFlag, ArmResetHalf, ArmResetFull,
        ArmResetNotified, receiverVars
  <2> QED
    BY <1>10, <1>12, <2>1, ArmMoves
<1>13. CASE \/ ReceiverSignal \/ Tick \/ UNCHANGED vars
            \/ Sender /\ ~SenderTryVideo /\ ~SenderTryOthers /\ ~SenderWrite
  <2>1. received' = received
    BY <1>13
    DEF ReceiverSignal, Tick, vars, Sender, SenderAwake, SenderFindEngine, SenderCheckFull,
        SenderReportFull, SenderCheckHalf, SenderCheckNotified, SenderReportHalf, SenderReset,
        receiverVars
  <2> QED
    BY <1>10, <1>13, <2>1, OtherMoves
<1> QED
  BY <1>1, <1>2, <1>3, <1>4, <1>5, <1>6, <1>7, <1>8, <1>9, <1>11, <1>12, <1>13
  DEF Next, Receiver, Engine

---------------------------------------------------------------------------
\* HANDS

\* The Receiver's and the Sender's steps keep HandsTrue.
LEMMA ThreadHands ==
    ASSUME Ledger, TypeOK', Receiver \/ Sender \/ Tick \/ UNCHANGED vars
    PROVE  HandsTrue'
<1>1. /\ HandsTrue /\ TypeOK /\ BackupConsistent
  BY DEF Ledger, IInv
<1>2. ASSUME NEW kind \in Arrivals, Receive(kind) PROVE HandsTrue'
  BY <1>1, <1>2 DEF HandsTrue, Receive, senderVars, armVars, engineVars, historyVars
<1>3. CASE ReceiverInsert \/ ReceiverSignal
  BY <1>1, <1>3
  DEF HandsTrue, ReceiverInsert, ReceiverSignal, senderVars, armVars, engineVars, historyVars
<1>4. CASE SenderTryVideo \/ SenderTryOthers
  <2>1. sPc' \notin {"checkHalf", "checkNotified", "reportHalf", "write"} => request' = NoRequest
    BY <1>1, <1>4 DEF HandsTrue, SenderTryVideo, SenderTryOthers, TakeFrom
  <2>2. UNCHANGED <<receiverVars, armVars, engineVars, served>>
    BY <1>4 DEF SenderTryVideo, SenderTryOthers
  <2> QED
    BY <1>1, <2>1, <2>2 DEF HandsTrue, receiverVars, armVars, engineVars
<1>5. CASE SenderWrite
  <2>1. /\ request' = NoRequest
        /\ UNCHANGED <<receiverVars, armVars, ePc, eRequest, served>>
    BY <1>5 DEF SenderWrite
  <2>2. ePc[Backup] = "absent" => pipe'[Backup] = pipe[Backup]
    <3>1. pipe \in [Engines -> Seq(Request)] /\ Backup \in Engines
      BY <1>1, ConfigAssumption DEF TypeOK
    <3>2. ePc[Backup] = "absent" => backupPipeOpen = 0
      BY <1>1 DEF HandsTrue
    <3> QED
      BY <1>5, <3>1, <3>2 DEF SenderWrite
  <2> QED
    BY <1>1, <2>1, <2>2 DEF HandsTrue, receiverVars, armVars
<1>6. CASE Sender /\ ~SenderTryVideo /\ ~SenderTryOthers /\ ~SenderWrite
  <2>1. UNCHANGED <<receiverVars, armVars, engineVars, served, request>>
    BY <1>6
    DEF Sender, SenderAwake, SenderFindEngine, SenderCheckFull, SenderReportFull,
        SenderCheckHalf, SenderCheckNotified, SenderReportHalf, SenderReset, historyVars
  <2>2. sPc' \in {"checkHalf", "checkNotified", "reportHalf", "write"} \/ request = NoRequest
    BY <1>1, <1>6
    DEF HandsTrue, Sender, SenderAwake, SenderFindEngine, SenderCheckFull, SenderReportFull,
        SenderCheckHalf, SenderCheckNotified, SenderReportHalf, SenderReset
  <2> QED
    BY <1>1, <2>1, <2>2 DEF HandsTrue, receiverVars, armVars, engineVars
<1>7. CASE Tick \/ UNCHANGED vars
  BY <1>1, <1>7
  DEF HandsTrue, Tick, vars, receiverVars, senderVars, armVars, engineVars, historyVars
<1> QED
  BY <1>2, <1>3, <1>4, <1>5, <1>6, <1>7 DEF Receiver

\* So do the ARM's and the engines'.
LEMMA ProcessHands ==
    ASSUME Ledger, TypeOK', Arm \/ \E e \in Engines : Engine(e)
    PROVE  HandsTrue'
<1>0. HandsTrue /\ TypeOK /\ BackupConsistent
  BY DEF Ledger, IInv
<1>1. /\ HandsTrue /\ TypeOK /\ BackupConsistent /\ Backup \in Engines
      /\ ePc \in [Engines -> EnginePcs] /\ pipe \in [Engines -> Seq(Request)]
      /\ eRequest \in [Engines -> Request \cup {NoRequest}]
  <2>1. Backup \in Engines
    BY ConfigAssumption
  <2>2. /\ ePc \in [Engines -> EnginePcs] /\ pipe \in [Engines -> Seq(Request)]
        /\ eRequest \in [Engines -> Request \cup {NoRequest}]
    BY <1>0, Zenon DEF TypeOK
  <2> QED
    BY <1>0, <2>1, <2>2
<1>2. CASE ArmForkBackup
  BY <1>1, <1>2 DEF HandsTrue, ArmForkBackup, receiverVars, senderVars, historyVars
<1>3. CASE ArmKillBackup
  BY <1>1, <1>3
  DEF HandsTrue, ArmKillBackup, ArmGoto, BackupConsistent, receiverVars, senderVars
<1>4. CASE ArmKillGroup
  BY <1>1, <1>4 DEF HandsTrue, ArmKillGroup, ArmGoto, BackupConsistent
<1>5. CASE Arm /\ ~ArmForkBackup /\ ~ArmKillBackup /\ ~ArmKillGroup
  <2>1. /\ UNCHANGED <<receiverVars, senderVars, engineVars, historyVars>>
        /\ backupPipeOpen' \in {0, backupPipeOpen}
    BY <1>5
    DEF Arm, ArmSeeFull, ArmMarkBackup, ArmClearFull, ArmCheckFull, ArmCheckHalf, ArmClosePipe,
        ArmUnmarkBackup, ArmSetBackupFlag, ArmResetHalf, ArmResetFull, ArmResetNotified
  <2> QED
    BY <1>1, <2>1 DEF HandsTrue, receiverVars, senderVars, engineVars, historyVars
<1>6. ASSUME NEW e \in Engines, Engine(e) PROVE HandsTrue'
  <2>1. /\ UNCHANGED <<receiverVars, senderVars, armVars>>
        /\ ePc[e] # "absent" /\ \A f \in Engines \ {e} :
              ePc'[f] = ePc[f] /\ eRequest'[f] = eRequest[f] /\ pipe'[f] = pipe[f]
    BY <1>1, <1>6
    DEF Engine, EngineReady, EngineRead, EngineAcquire, EngineMark, EngineServe, EngineFree,
        EngineGoto
  <2>2. /\ ePc'[e] # "absent"
        /\ ePc'[e] \in {"absent", "ready", "idle"} => eRequest'[e] = NoRequest
        /\ ePc'[e] \in {"free", "freeing"} => eRequest'[e] \in served'
    BY <1>1, <1>6
    DEF HandsTrue, Engine, EngineReady, EngineRead, EngineAcquire, EngineMark, EngineServe,
        EngineFree, EngineGoto, historyVars
  <2>3. served \subseteq served'
    BY <1>6
    DEF Engine, EngineReady, EngineRead, EngineAcquire, EngineMark, EngineServe, EngineFree,
        historyVars
  <2> QED
    BY <1>1, <2>1, <2>2, <2>3 DEF HandsTrue, receiverVars, senderVars, armVars
<1> QED
  BY <1>2, <1>3, <1>4, <1>5, <1>6

---------------------------------------------------------------------------
\* QUEUES AND PIPES

LEMMA ElementsAppend ==
    ASSUME NEW seq \in Seq(Request), NEW r \in Request
    PROVE  Elements(Append(seq, r)) = Elements(seq) \cup {r} /\ Len(Append(seq, r)) = Len(seq) + 1
<1> DEFINE s == Append(seq, r)
<1>1. /\ Len(s) = Len(seq) + 1 /\ s[Len(seq) + 1] = r /\ Len(seq) \in Nat
      /\ \A i \in 1 .. Len(seq) : s[i] = seq[i]
  OBVIOUS
<1>2. 1 .. Len(s) = (1 .. Len(seq)) \cup {Len(seq) + 1}
  BY <1>1
<1> HIDE DEF s
<1>3. Elements(s) = Elements(seq) \cup {r}
  BY <1>1, <1>2 DEF Elements
<1> QED
  BY <1>1, <1>3 DEF s

\* drop() leaves a queue in order, with no more than it had.
LEMMA DropKeeps ==
    ASSUME NEW queue \in Seq(Request), Increasing(queue), NEW l
    PROVE  /\ Elements(AfterDrop(queue, l)) \subseteq Elements(queue)
           /\ Increasing(AfterDrop(queue, l))
           /\ Len(AfterDrop(queue, l)) <= Len(queue)
           /\ Dropped(queue, l) \in Elements(queue) \cup {NoRequest}
           /\ Dropped(queue, l) # NoRequest =>
                 \A r \in Elements(AfterDrop(queue, l)) : Dropped(queue, l).id < r.id
<1>1. CASE IsEmpty(Kept(queue, l))
  <2>1. AfterDrop(queue, l) = << >> /\ Dropped(queue, l) = NoRequest
    BY <1>1 DEF AfterDrop, Dropped
  <2> QED
    BY <2>1, EmptyKeeps
<1>2. CASE ~IsEmpty(Kept(queue, l))
  <2>1. /\ queue # << >>
        /\ AfterDrop(queue, l) = Tail(queue) /\ Dropped(queue, l) = Head(queue)
    BY <1>2 DEF AfterDrop, Dropped, Kept, IsEmpty
  <2>2. Len(Tail(queue)) <= Len(queue)
    BY <2>1
  <2> QED
    BY <2>1, <2>2, TailKeeps, IncreasingDistinct
<1> QED
  BY <1>1, <1>2

\* The steps that touch no queue and no pipe.
LEMMA QuietStep ==
    ASSUME \/ Receiver /\ ~ReceiverInsert
           \/ Sender /\ ~SenderTryVideo /\ ~SenderTryOthers /\ ~SenderWrite
           \/ Arm /\ ~ArmForkBackup /\ ~ArmKillBackup /\ ~ArmKillGroup
           \/ \E e \in Engines : Engine(e) /\ ~EngineRead(e)
           \/ Tick \/ UNCHANGED vars
    PROVE  UNCHANGED <<videoQueue, othersQueue, pipe>>
<1> USE DEF receiverVars, queueVars, senderVars, engineVars
<1>1. CASE Receiver /\ ~ReceiverInsert
  BY <1>1 DEF Receiver, Receive, ReceiverSignal
<1>2. CASE Sender /\ ~SenderTryVideo /\ ~SenderTryOthers /\ ~SenderWrite
  BY <1>2
  DEF Sender, SenderAwake, SenderFindEngine, SenderCheckFull, SenderReportFull,
      SenderCheckHalf, SenderCheckNotified, SenderReportHalf, SenderReset
<1>3. CASE Arm /\ ~ArmForkBackup /\ ~ArmKillBackup /\ ~ArmKillGroup
  BY <1>3
  DEF Arm, ArmSeeFull, ArmMarkBackup, ArmClearFull, ArmCheckFull, ArmCheckHalf, ArmClosePipe,
      ArmUnmarkBackup, ArmSetBackupFlag, ArmResetHalf, ArmResetFull, ArmResetNotified
<1>4. ASSUME NEW e \in Engines, Engine(e), ~EngineRead(e)
      PROVE  UNCHANGED <<videoQueue, othersQueue, pipe>>
  BY <1>4 DEF Engine, EngineReady, EngineAcquire, EngineMark, EngineServe, EngineFree
<1>5. CASE Tick \/ UNCHANGED vars
  BY <1>5 DEF Tick, vars
<1> QED
  BY <1>1, <1>2, <1>3, <1>4, <1>5

LEMMA SortedStep ==
    ASSUME Ledger, TypeOK', [Next]_vars
    PROVE  QueuesSorted'
<1>1. TypeOK /\ QueuesSorted /\ ArrivalOrder
  BY DEF Ledger, IInv
<1>2. /\ videoQueue \in Seq(Request) /\ othersQueue \in Seq(Request)
      /\ pipe \in [Engines -> Seq(Request)]
      /\ Increasing(videoQueue) /\ Increasing(othersQueue)
  BY <1>1 DEF TypeOK, ArrivalOrder
<1>3. CASE ReceiverInsert
  <2>1. rRequest \in Request /\ pipe' = pipe
    BY <1>1, <1>3 DEF ReceiverInsert, TypeOK, engineVars
  <2>2. /\ \A r \in Elements(videoQueue') : ForVideo(r)
        /\ \A r \in Elements(othersQueue') : ~ForVideo(r)
    <3>1. /\ \/ videoQueue' = videoQueue
             \/ ForVideo(rRequest) /\ videoQueue' = Append(videoQueue, rRequest)
          /\ \/ othersQueue' = othersQueue
             \/ ~ForVideo(rRequest) /\ othersQueue' = Append(othersQueue, rRequest)
      BY <1>3 DEF ReceiverInsert, ForVideo
    <3>2. /\ \/ Elements(videoQueue') = Elements(videoQueue)
             \/ ForVideo(rRequest) /\ Elements(videoQueue') = Elements(videoQueue) \cup {rRequest}
          /\ \/ Elements(othersQueue') = Elements(othersQueue)
             \/ ~ForVideo(rRequest) /\ Elements(othersQueue') = Elements(othersQueue) \cup {rRequest}
      <4>1. /\ Elements(Append(videoQueue, rRequest)) = Elements(videoQueue) \cup {rRequest}
            /\ Elements(Append(othersQueue, rRequest)) = Elements(othersQueue) \cup {rRequest}
        BY <1>2, <2>1, ElementsAppend
      <4> QED
        BY <3>1, <4>1
    <3> QED
      BY <1>1, <3>2 DEF QueuesSorted
  <2>3. Len(videoQueue') <= QUEUE_POS /\ Len(othersQueue') <= QUEUE_POS
    BY <1>1, <1>2, <1>3, <2>1, ElementsAppend, ConfigAssumption
    DEF QueuesSorted, ReceiverInsert, HasRoom
  <2> QED
    BY <1>1, <2>1, <2>2, <2>3 DEF QueuesSorted, ForVideo, Elements
<1>4. CASE SenderTryVideo \/ SenderTryOthers
  <2>1. /\ videoQueue' \in {videoQueue, AfterDrop(videoQueue, late)}
        /\ othersQueue' \in {othersQueue, AfterDrop(othersQueue, late)}
        /\ pipe' = pipe
    BY <1>4 DEF SenderTryVideo, SenderTryOthers, engineVars
  <2>2. /\ Elements(videoQueue') \subseteq Elements(videoQueue)
        /\ Elements(othersQueue') \subseteq Elements(othersQueue)
        /\ Len(videoQueue') <= Len(videoQueue) /\ Len(othersQueue') <= Len(othersQueue)
    BY <1>2, <2>1, DropKeeps
  <2>3. /\ Len(videoQueue') \in Nat /\ Len(othersQueue') \in Nat
        /\ Len(videoQueue) \in Nat /\ Len(othersQueue) \in Nat
    BY <1>2 DEF TypeOK
  <2>4. /\ \A r \in Elements(videoQueue') : ForVideo(r)
        /\ \A r \in Elements(othersQueue') : ~ForVideo(r)
    BY <1>1, <2>2 DEF QueuesSorted
  <2>5. Len(videoQueue') <= QUEUE_POS /\ Len(othersQueue') <= QUEUE_POS
    BY <1>1, <2>2, <2>3, ConfigAssumption DEF QueuesSorted
  <2> QED
    BY <1>1, <2>1, <2>4, <2>5 DEF QueuesSorted, ForVideo, Elements
<1>5. CASE SenderWrite
  <2>1. request \in Request /\ UNCHANGED queueVars
    BY <1>1, <1>5 DEF SenderWrite, TypeOK
  <2>2. ASSUME NEW e \in Engines PROVE Distinct(pipe'[e])
    <3>1. CASE pipe'[e] = pipe[e]
      BY <1>1, <3>1 DEF QueuesSorted
    <3>2. CASE pipe'[e] = Append(pipe[e], request)
      <4>1. HasId(Path!Sender, request.id) /\ request.id \in Nat \ {0}
        BY <1>1, <2>1, HasIdNow DEF Request
      <4>2. ~HasId(PipeOf(e), request.id)
        BY <1>1, <4>1, OnePlace, StationTypes, StationsDiffer DEF Ledger
      <4>3. ~InSeq(pipe[e], request.id)
        BY <1>1, <4>2, HasIdNow
      <4> QED
        BY <1>1, <1>2, <2>1, <3>2, <4>3, AppendKeeps DEF QueuesSorted
    <3> QED
      BY <1>2, <1>5, <3>1, <3>2 DEF SenderWrite
  <2> QED
    BY <1>1, <2>1, <2>2 DEF QueuesSorted, queueVars, ForVideo, Elements, Distinct
<1>6. CASE ArmForkBackup \/ ArmKillBackup \/ ArmKillGroup
  <2>1. /\ videoQueue' \in {videoQueue, << >>} /\ othersQueue' \in {othersQueue, << >>}
        /\ \A e \in Engines : pipe'[e] \in {pipe[e], << >>}
    BY <1>2, <1>6 DEF ArmForkBackup, ArmKillBackup, ArmKillGroup, queueVars
  <2>2. \A e \in Engines : Distinct(pipe'[e])
    BY <1>1, <2>1, EmptyKeeps DEF QueuesSorted
  <2>3. /\ Len(<< >>) = 0 /\ 0 <= QUEUE_POS
    BY ConfigAssumption
  <2> QED
    BY <1>1, <2>1, <2>2, <2>3, EmptyKeeps DEF QueuesSorted, ForVideo, Elements, Distinct
<1>7. ASSUME NEW e \in Engines, EngineRead(e) PROVE QueuesSorted'
  <2>1. pipe[e] # << >> /\ pipe' = [pipe EXCEPT ![e] = Tail(@)] /\ UNCHANGED queueVars
    BY <1>7 DEF EngineRead
  <2>2. \A f \in Engines : Distinct(pipe'[f])
    BY <1>1, <1>2, <2>1, TailKeeps DEF QueuesSorted
  <2> QED
    BY <1>1, <2>1, <2>2 DEF QueuesSorted, queueVars, ForVideo, Elements, Distinct
<1>8. CASE UNCHANGED <<videoQueue, othersQueue, pipe>>
  BY <1>1, <1>8 DEF QueuesSorted, ForVideo, Elements, Distinct
<1>9. CASE \/ Receiver /\ ~ReceiverInsert
           \/ Sender /\ ~SenderTryVideo /\ ~SenderTryOthers /\ ~SenderWrite
           \/ Arm /\ ~ArmForkBackup /\ ~ArmKillBackup /\ ~ArmKillGroup
           \/ \E e \in Engines : Engine(e) /\ ~EngineRead(e)
           \/ Tick \/ UNCHANGED vars
  BY <1>8, <1>9, QuietStep
<1> QED
  BY <1>3, <1>4, <1>5, <1>6, <1>7, <1>9 DEF Next

---------------------------------------------------------------------------
\* ARRIVAL ORDER

\* What has been taken off a queue is at a station behind it.
LEMMA DownstreamPlaced ==
    ASSUME Ledger, NEW x \in Downstream \ {NoRequest}
    PROVE  /\ x \in Request
           /\ \E s \in Stations \ {Path!Receiver, <<"video", 0>>, <<"others", 0>>} : HasId(s, x.id)
<1>1. TypeOK /\ HandsTrue
  BY DEF Ledger, IInv
<1>2. CASE x = request
  <2>1. x \in Request
    BY <1>1, <1>2 DEF TypeOK
  <2>2. HasId(Path!Sender, x.id)
    BY <1>1, <1>2, HasIdNow
  <2> QED
    BY <2>1, <2>2, StationTypes, StationsDiffer
<1>3. CASE x \in served
  <2>1. x \in Request
    BY <1>1, <1>3 DEF TypeOK
  <2>2. HasId(Path!Served, x.id)
    BY <1>1, <1>3, HasIdNow
  <2> QED
    BY <2>1, <2>2, StationTypes, StationsDiffer
<1>4. ASSUME NEW e \in Engines, x \in Elements(pipe[e])
      PROVE  x \in Request /\ HasId(PipeOf(e), x.id)
  <2>1. pipe[e] \in Seq(Request)
    BY <1>1 DEF TypeOK
  <2> QED
    BY <1>1, <1>4, <2>1, HasIdNow, InElements, ElementsType
<1>5. ASSUME NEW e \in Engines, x = eRequest[e], x \notin served
      PROVE  x \in Request /\ HasId(HandsOf(e), x.id)
  <2>1. x \in Request /\ ePc[e] \in EnginePcs
    BY <1>1, <1>5 DEF TypeOK
  <2>2. ePc[e] \in InHands
    BY <1>1, <1>5, <2>1 DEF HandsTrue, InHands, EnginePcs
  <2> QED
    BY <1>1, <1>5, <2>1, <2>2, HasIdNow
<1>6. \/ x = request \/ x \in served
      \/ \E e \in Engines : x \in Elements(pipe[e]) \/ x = eRequest[e]
  BY DEF Downstream
<1> QED
  BY <1>2, <1>3, <1>4, <1>5, <1>6, StationTypes, StationsDiffer

\* The request about to be inserted came after all that is in the queues or behind them.
LEMMA NewestLast ==
    ASSUME Ledger, rPc = "insert",
           NEW x \in (Downstream \ {NoRequest}) \cup Elements(videoQueue) \cup Elements(othersQueue)
    PROVE  x.id < rRequest.id
<1>1. TypeOK /\ rRequest \in Request /\ rRequest.id = received /\ received \in Nat
  BY DEF Ledger, IInv, TypeOK, HandsTrue
<1>2. x \in Request /\ \E s \in Stations \ {Path!Receiver} : HasId(s, x.id)
  <2>1. CASE x \in Downstream \ {NoRequest}
    BY <2>1, DownstreamPlaced
  <2>2. /\ videoQueue \in Seq(Request) /\ othersQueue \in Seq(Request)
        /\ Elements(videoQueue) \subseteq Request /\ Elements(othersQueue) \subseteq Request
    BY <1>1, ElementsType DEF TypeOK
  <2>3. CASE x \in Elements(videoQueue)
    BY <1>1, <2>2, <2>3, HasIdNow, InElements, StationTypes, StationsDiffer
  <2>4. CASE x \in Elements(othersQueue)
    BY <1>1, <2>2, <2>4, HasIdNow, InElements, StationTypes, StationsDiffer
  <2> QED
    BY <2>1, <2>3, <2>4
<1>3. PICK s \in Stations \ {Path!Receiver} : HasId(s, x.id)
  BY <1>2
<1>4. x.id \in Nat \ {0} /\ x.id <= received
  BY <1>2, <1>3 DEF Request, Ledger, Numbered
<1>5. HasId(Path!Receiver, received)
  BY <1>1, HasIdNow
<1>6. x.id # received
  BY <1>1, <1>3, <1>4, <1>5, OnePlace, StationTypes DEF Ledger
<1> QED
  BY <1>1, <1>4, <1>6

\* A step that takes nothing off the queues to send it, and adds nothing to them.
LEMMA OrderFrame ==
    ASSUME ArrivalOrder, Increasing(videoQueue'), Increasing(othersQueue'),
           Elements(videoQueue') \subseteq Elements(videoQueue),
           Elements(othersQueue') \subseteq Elements(othersQueue),
           Downstream' \subseteq Downstream \cup {NoRequest}
    PROVE  ArrivalOrder'
<1> SUFFICES ASSUME NEW x \in Downstream' \ {NoRequest}
             PROVE  /\ ForVideo(x)  => \A r \in Elements(videoQueue') : x.id < r.id
                    /\ ~ForVideo(x) => \A r \in Elements(othersQueue') : x.id < r.id
  BY DEF ArrivalOrder, ForVideo, Elements, Increasing
<1> QED
  BY DEF ArrivalOrder

\* Only drop() brings something new behind the queues.
LEMMA DownstreamStep ==
    ASSUME Ledger, [Next]_vars, ~SenderTryVideo, ~SenderTryOthers
    PROVE  Downstream' \subseteq Downstream \cup {NoRequest}
<1> DEFINE D == Downstream \cup {NoRequest}
<1>1. /\ TypeOK /\ ePc \in [Engines -> EnginePcs] /\ pipe \in [Engines -> Seq(Request)]
      /\ eRequest \in [Engines -> Request \cup {NoRequest}]
  <2>1. TypeOK
    BY DEF Ledger, IInv
  <2> QED
    BY <2>1 DEF TypeOK
<1>2. /\ request \in D /\ served \subseteq D
      /\ \A e \in Engines : Elements(pipe[e]) \subseteq D /\ eRequest[e] \in D
  BY DEF Downstream
<1>3. ASSUME request' \in D, served' \subseteq D,
             \A e \in Engines : Elements(pipe'[e]) \subseteq D /\ eRequest'[e] \in D
      PROVE  Downstream' \subseteq D
  BY <1>3 DEF Downstream, Elements
<1> SUFFICES Downstream' \subseteq D
  OBVIOUS
<1> HIDE DEF D
<1>4. ASSUME UNCHANGED <<request, served, pipe, eRequest>> PROVE Downstream' \subseteq D
  BY <1>2, <1>3, <1>4
<1>5. CASE Receiver \/ Tick \/ UNCHANGED vars
  <2>1. UNCHANGED <<request, served, pipe, eRequest>>
    BY <1>5
    DEF Receiver, Receive, ReceiverInsert, ReceiverSignal, Tick, vars, senderVars, engineVars,
        historyVars
  <2> QED
    BY <1>4, <2>1
<1>6. CASE SenderWrite
  <2>1. request \in Request /\ request' = NoRequest /\ UNCHANGED <<eRequest, served>>
    BY <1>1, <1>6 DEF SenderWrite, TypeOK
  <2>2. ASSUME NEW e \in Engines PROVE Elements(pipe'[e]) \subseteq D
    <3>1. pipe'[e] \in {pipe[e], Append(pipe[e], request)}
      BY <1>1, <1>6 DEF SenderWrite
    <3>2. Elements(Append(pipe[e], request)) = Elements(pipe[e]) \cup {request}
      BY <1>1, <2>1, ElementsAppend
    <3> QED
      BY <1>2, <3>1, <3>2
  <2>3. NoRequest \in D
    BY DEF D
  <2>4. request' \in D /\ served' \subseteq D /\ \A e \in Engines : eRequest'[e] \in D
    BY <1>2, <2>1, <2>3
  <2> QED
    BY <1>3, <2>2, <2>4
<1>7. CASE Sender /\ ~SenderWrite
  <2>1. UNCHANGED <<request, served, pipe, eRequest>>
    BY <1>7
    DEF Sender, SenderAwake, SenderFindEngine, SenderCheckFull, SenderReportFull,
        SenderCheckHalf, SenderCheckNotified, SenderReportHalf, SenderReset, engineVars,
        historyVars
  <2> QED
    BY <1>4, <2>1
<1>8. CASE Arm
  <2>1. /\ request' \in {request, NoRequest} /\ served' = served
        /\ \A e \in Engines :
              pipe'[e] \in {pipe[e], << >>} /\ eRequest'[e] \in {eRequest[e], NoRequest}
    BY <1>1, <1>8
    DEF Arm, ArmSeeFull, ArmForkBackup, ArmMarkBackup, ArmClearFull, ArmCheckFull, ArmCheckHalf,
        ArmClosePipe, ArmKillBackup, ArmKillGroup, ArmUnmarkBackup, ArmSetBackupFlag,
        ArmResetHalf, ArmResetFull, ArmResetNotified, senderVars, engineVars, historyVars
  <2>2. NoRequest \in D /\ Elements(<< >>) \subseteq D
    BY EmptyKeeps DEF D
  <2>3. \A e \in Engines : Elements(pipe'[e]) \subseteq D
    BY <1>2, <2>1, <2>2
  <2>4. request' \in D /\ served' \subseteq D /\ \A e \in Engines : eRequest'[e] \in D
    BY <1>2, <2>1, <2>2
  <2> QED
    BY <1>3, <2>3, <2>4
<1>9. ASSUME NEW e \in Engines, EngineRead(e) PROVE Downstream' \subseteq D
  <2>1. /\ pipe[e] # << >> /\ Distinct(pipe[e])
        /\ pipe' = [pipe EXCEPT ![e] = Tail(@)]
        /\ eRequest' = [eRequest EXCEPT ![e] = Head(pipe[e])] /\ UNCHANGED <<request, served>>
    BY <1>9 DEF EngineRead, Ledger, QueuesSorted, senderVars, historyVars
  <2>2. Head(pipe[e]) \in Elements(pipe[e]) /\ Elements(Tail(pipe[e])) \subseteq Elements(pipe[e])
    BY <1>1, <2>1, TailKeeps
  <2>3. ASSUME NEW f \in Engines PROVE Elements(pipe'[f]) \subseteq D /\ eRequest'[f] \in D
    <3>1. CASE f = e
      <4>1. pipe'[f] = Tail(pipe[e]) /\ eRequest'[f] = Head(pipe[e])
        BY <1>1, <2>1, <3>1
      <4> QED
        BY <1>2, <2>2, <4>1
    <3>2. CASE f # e
      <4>1. pipe'[f] = pipe[f] /\ eRequest'[f] = eRequest[f]
        BY <1>1, <2>1, <3>2
      <4> QED
        BY <1>2, <4>1
    <3> QED
      BY <3>1, <3>2
  <2>4. request' \in D /\ served' \subseteq D
    BY <1>2, <2>1
  <2> QED
    BY <1>3, <2>3, <2>4
<1>10. ASSUME NEW e \in Engines, Engine(e), ~EngineRead(e) PROVE Downstream' \subseteq D
  <2>1. /\ request' = request /\ pipe' = pipe /\ served' \subseteq served \cup {eRequest[e]}
        /\ \A f \in Engines : eRequest'[f] \in {eRequest[f], NoRequest}
    BY <1>1, <1>10
    DEF Engine, EngineReady, EngineAcquire, EngineMark, EngineServe, EngineFree, senderVars,
        historyVars
  <2>2. NoRequest \in D
    BY DEF D
  <2> QED
    BY <1>2, <1>3, <2>1, <2>2
<1>11. CASE \E e \in Engines : Engine(e)
  BY <1>9, <1>10, <1>11
<1> QED
  BY <1>5, <1>6, <1>7, <1>8, <1>11 DEF Next

LEMMA ArrivalStep ==
    ASSUME Ledger, TypeOK', [Next]_vars
    PROVE  ArrivalOrder'
<1>1. TypeOK /\ QueuesSorted /\ ArrivalOrder
  BY DEF Ledger, IInv
<1>2. /\ videoQueue \in Seq(Request) /\ othersQueue \in Seq(Request)
      /\ Increasing(videoQueue) /\ Increasing(othersQueue)
  BY <1>1 DEF TypeOK, ArrivalOrder
<1>3. CASE ReceiverInsert
  <2>1. rRequest \in Request /\ rPc = "insert"
    BY <1>1, <1>3 DEF ReceiverInsert, TypeOK
  <2>2. Downstream' \subseteq Downstream \cup {NoRequest}
    BY <1>3, DownstreamStep DEF ReceiverInsert, SenderTryVideo, SenderTryOthers, senderVars,
                                TakeFrom
  <2>3. /\ videoQueue' \in {videoQueue, Append(videoQueue, rRequest)}
        /\ othersQueue' \in {othersQueue, Append(othersQueue, rRequest)}
    BY <1>3 DEF ReceiverInsert
  <2>4. /\ Elements(Append(videoQueue, rRequest)) = Elements(videoQueue) \cup {rRequest}
        /\ Elements(Append(othersQueue, rRequest)) = Elements(othersQueue) \cup {rRequest}
    BY <1>2, <2>1, ElementsAppend
  <2>5. Increasing(videoQueue') /\ Increasing(othersQueue')
    BY <1>2, <2>1, <2>3, AppendKeeps, NewestLast
  <2>6. ASSUME NEW x \in Downstream \ {NoRequest}
        PROVE  /\ ForVideo(x)  => \A r \in Elements(videoQueue') : x.id < r.id
               /\ ~ForVideo(x) => \A r \in Elements(othersQueue') : x.id < r.id
    <3>1. x.id < rRequest.id
      BY <2>1, NewestLast
    <3> QED
      BY <1>1, <2>3, <2>4, <3>1 DEF ArrivalOrder
  <2> QED
    BY <2>2, <2>5, <2>6 DEF ArrivalOrder, ForVideo, Elements, Increasing
<1>4. CASE SenderTryVideo \/ SenderTryOthers
  <2>1. \/ /\ UNCHANGED <<request, videoQueue, othersQueue>>
        \/ /\ videoQueue' = AfterDrop(videoQueue, late) /\ othersQueue' = othersQueue
           /\ request' = Dropped(videoQueue, late)
        \/ /\ othersQueue' = AfterDrop(othersQueue, late) /\ videoQueue' = videoQueue
           /\ request' = Dropped(othersQueue, late)
    BY <1>4 DEF SenderTryVideo, SenderTryOthers, TakeFrom
  <2>2. UNCHANGED <<served, pipe, eRequest>>
    BY <1>4 DEF SenderTryVideo, SenderTryOthers, engineVars
  <2>3. \A x \in Downstream' : x \in Downstream \/ x = request'
    BY <2>2 DEF Downstream, Elements
  <2>4. /\ Increasing(videoQueue') /\ Increasing(othersQueue')
        /\ Elements(videoQueue') \subseteq Elements(videoQueue)
        /\ Elements(othersQueue') \subseteq Elements(othersQueue)
    BY <1>2, <2>1, DropKeeps
  <2>5. ASSUME request' \notin {request, NoRequest}
        PROVE  /\ ForVideo(request')  => \A r \in Elements(videoQueue') : request'.id < r.id
               /\ ~ForVideo(request') => \A r \in Elements(othersQueue') : request'.id < r.id
    <3>1. CASE videoQueue' = AfterDrop(videoQueue, late) /\ request' = Dropped(videoQueue, late)
      <4>1. ForVideo(request')
        BY <1>1, <1>2, <2>5, <3>1, DropKeeps DEF QueuesSorted
      <4> QED
        BY <1>2, <2>5, <3>1, <4>1, DropKeeps
    <3>2. CASE othersQueue' = AfterDrop(othersQueue, late) /\ request' = Dropped(othersQueue, late)
      <4>1. ~ForVideo(request')
        BY <1>1, <1>2, <2>5, <3>2, DropKeeps DEF QueuesSorted
      <4> QED
        BY <1>2, <2>5, <3>2, <4>1, DropKeeps
    <3> QED
      BY <2>1, <2>5, <3>1, <3>2
  <2>6. ASSUME NEW x \in Downstream' \ {NoRequest}
        PROVE  /\ ForVideo(x)  => \A r \in Elements(videoQueue') : x.id < r.id
               /\ ~ForVideo(x) => \A r \in Elements(othersQueue') : x.id < r.id
    <3>1. CASE x \in Downstream
      BY <1>1, <2>4, <3>1 DEF ArrivalOrder
    <3>2. CASE x = request' /\ x \notin Downstream
      BY <2>5, <3>2 DEF Downstream
    <3> QED
      BY <2>3, <3>1, <3>2
  <2> QED
    BY <2>4, <2>6 DEF ArrivalOrder, ForVideo, Elements, Increasing
<1>5. CASE ~ReceiverInsert /\ ~SenderTryVideo /\ ~SenderTryOthers
  <2>1. Downstream' \subseteq Downstream \cup {NoRequest}
    BY <1>5, DownstreamStep
  <2>2. videoQueue' \in {videoQueue, << >>} /\ othersQueue' \in {othersQueue, << >>}
    <3>1. CASE ArmForkBackup \/ ArmKillBackup \/ ArmKillGroup \/ SenderWrite
      BY <3>1 DEF ArmForkBackup, ArmKillBackup, ArmKillGroup, SenderWrite, queueVars
    <3>2. ASSUME NEW e \in Engines, EngineRead(e)
          PROVE  UNCHANGED <<videoQueue, othersQueue>>
      BY <3>2 DEF EngineRead, queueVars
    <3> QED
      BY <1>5, <3>1, <3>2, QuietStep DEF Next
  <2>3. /\ Increasing(videoQueue') /\ Increasing(othersQueue')
        /\ Elements(videoQueue') \subseteq Elements(videoQueue)
        /\ Elements(othersQueue') \subseteq Elements(othersQueue)
    BY <1>2, <2>2, EmptyKeeps
  <2> QED
    BY <1>1, <2>1, <2>3, OrderFrame
<1> QED
  BY <1>3, <1>4, <1>5

---------------------------------------------------------------------------
\* THE THEOREMS ABOUT REQUESTS

LEMMA LedgerInit == Init => Ledger
<1> SUFFICES ASSUME Init PROVE Ledger
  OBVIOUS
<1>1. IInv /\ TypeOK
  BY IInvInit DEF IInv
<1>2. HandsTrue
  BY <1>1, ConfigAssumption DEF Init, HandsTrue
<1>3. QueuesSorted
  BY EmptyKeeps, ConfigAssumption DEF Init, QueuesSorted
<1>4. Numbered
  <2> SUFFICES ASSUME NEW s \in Stations, NEW id \in Nat \ {0}, HasId(s, id) PROVE FALSE
    BY DEF Numbered
  <2>1. CASE s \in {Path!Receiver, <<"video", 0>>, <<"others", 0>>, Path!Sender, Path!Served,
                    Path!Lost}
    BY <1>1, <2>1, HasIdNow, EmptyKeeps DEF Init, NoRequest
  <2>2. ASSUME NEW e \in Engines, s \in {PipeOf(e), HandsOf(e)} PROVE FALSE
    <3>1. pipe[e] = << >> /\ ePc[e] \notin InHands
      BY DEF Init, InHands
    <3>2. /\ HasId(PipeOf(e), id) <=> InSeq(pipe[e], id)
          /\ HasId(HandsOf(e), id) <=> ePc[e] \in InHands /\ eRequest[e].id = id
      BY <1>1, HasIdNow
    <3> QED
      BY <2>2, <3>1, <3>2, EmptyKeeps
  <2> QED
    BY <2>1, <2>2, StationCases
<1>5. EachRequestOnce
  BY DEF Init, EachRequestOnce
<1>6. ArrivalOrder
  <2>1. Downstream \subseteq {NoRequest}
    BY EmptyKeeps DEF Init, Downstream
  <2> QED
    BY <2>1, EmptyKeeps DEF Init, ArrivalOrder
<1> QED
  BY <1>1, <1>2, <1>3, <1>4, <1>5, <1>6 DEF Ledger

LEMMA LedgerStep == Ledger /\ [Next]_vars => Ledger'
<1> SUFFICES ASSUME Ledger, [Next]_vars PROVE Ledger'
  OBVIOUS
<1>1. IInv' /\ TypeOK'
  BY IInvStep DEF Ledger, IInv
<1>2. Numbered' /\ EachRequestOnce'
  BY <1>1, BooksStep
<1>3. HandsTrue'
  BY <1>1, ThreadHands, ProcessHands DEF Next
<1>4. QueuesSorted' /\ ArrivalOrder'
  BY <1>1, SortedStep, ArrivalStep
<1> QED
  BY <1>1, <1>2, <1>3, <1>4 DEF Ledger

\* The five invariants of DispatchProofs and the books of the requests, together, are
\* inductive.
THEOREM LedgerInductive == Spec => []Ledger
<1>1. Init => Ledger
  BY LedgerInit
<1>2. Ledger /\ [Next]_vars => Ledger'
  BY LedgerStep
<1> QED
  BY <1>1, <1>2, PTL DEF Spec

\* Every message that was read is at exactly one station, for any number of engines,
\* requests and queue positions: none is duplicated, none vanishes unaccounted for.
THEOREM NoneLostNoneTwice == Spec => []EachRequestOnce
<1>1. Ledger => EachRequestOnce
  BY DEF Ledger
<1> QED
  BY <1>1, LedgerInductive, PTL

\* Each queue is first come, first sent, whatever is evicted, refused or killed.
THEOREM FirstComeFirstSent == Spec => []ArrivalOrder
<1>1. Ledger => ArrivalOrder
  BY DEF Ledger
<1> QED
  BY <1>1, LedgerInductive, PTL

---------------------------------------------------------------------------
\* MODULE Dispatch IMPLEMENTS MODULE Requests

\* The place of module Requests that station s is.
Place(s) == IF s[1] \in {"pipe", "hands"} THEN <<"engine", s[2]>> ELSE s

LEMMA PlaceOf ==
    /\ Place(Path!Receiver) = Path!Receiver
    /\ Place(<<"video", 0>>) = <<"video", 0>>
    /\ Place(<<"others", 0>>) = <<"others", 0>>
    /\ Place(Path!Sender) = Path!Sender
    /\ Place(Path!Served) = Path!Served
    /\ Place(Path!Lost) = Path!Lost
    /\ \A e \in Engines : Place(PipeOf(e)) = Path!Engine(e) /\ Place(HandsOf(e)) = Path!Engine(e)
BY DEF Place, PipeOf, HandsOf, Path!Receiver, Path!Sender, Path!Served, Path!Lost, Path!Engine

\* No two places of module Requests are the same.
LEMMA PlacesDiffer ==
    /\ Path!Outside \notin {Path!Receiver, <<"video", 0>>, <<"others", 0>>, Path!Sender,
                            Path!Served, Path!Lost}
    /\ \A e, f \in Engines :
          /\ Path!Engine(e) \notin {Path!Outside, Path!Receiver, <<"video", 0>>, <<"others", 0>>,
                                    Path!Sender, Path!Served, Path!Lost}
          /\ e # f => Path!Engine(e) # Path!Engine(f)
BY DEF Path!Outside, Path!Receiver, Path!Sender, Path!Served, Path!Lost, Path!Engine

\* A request is at the place of its one station, and outside if it has none.
LEMMA AtNow ==
    Ledger => \A id \in 1 .. MaxRequests :
                 /\ \A s \in Stations : HasId(s, id) => At[id] = Place(s)
                 /\ (\A s \in Stations : ~HasId(s, id)) => At[id] = Path!Outside
<1> SUFFICES ASSUME Ledger, NEW id \in 1 .. MaxRequests
             PROVE  /\ \A s \in Stations : HasId(s, id) => At[id] = Place(s)
                    /\ (\A s \in Stations : ~HasId(s, id)) => At[id] = Path!Outside
  OBVIOUS
<1>1. TypeOK /\ id \in Nat \ {0}
  BY ConfigAssumption DEF Ledger, IInv
<1> DEFINE found == CHOOSE s \in Stations : HasId(s, id)
<1>2. At[id] = IF \E s \in Stations : HasId(s, id)
               THEN IF found[1] \in {"pipe", "hands"} THEN <<"engine", found[2]>> ELSE found
               ELSE <<"outside", 0>>
  BY DEF At
<1>3. ASSUME NEW s \in Stations, HasId(s, id) PROVE At[id] = Place(s)
  <2>1. found \in Stations /\ HasId(found, id)
    BY <1>3
  <2> HIDE DEF found
  <2>2. found = s
    BY <1>1, <1>3, <2>1, OnePlace DEF Ledger
  <2> QED
    BY <1>2, <1>3, <2>2 DEF Place
<1> QED
  BY <1>2, <1>3 DEF Path!Outside

LEMMA AtNext ==
    Ledger' => \A id \in 1 .. MaxRequests :
                  /\ \A s \in Stations : HasId(s, id)' => At'[id] = Place(s)
                  /\ (\A s \in Stations : ~HasId(s, id)') => At'[id] = Path!Outside
<1>1. (Ledger => \A id \in 1 .. MaxRequests :
                    /\ \A s \in Stations : HasId(s, id) => At[id] = Place(s)
                    /\ (\A s \in Stations : ~HasId(s, id)) => At[id] = Path!Outside)'
  BY AtNow, PTL
<1> QED
  BY <1>1 DEF Stations

\* What a step moves in Dispatch it moves in Requests.
LEMMA MoveAt ==
    ASSUME Ledger, Ledger', NEW ids, NEW t \in Stations, Moves(ids, t)
    PROVE  At' = [id \in 1 .. MaxRequests |-> IF id \in ids THEN Place(t) ELSE At[id]]
<1> DEFINE f == [id \in 1 .. MaxRequests |-> IF id \in ids THEN Place(t) ELSE At[id]]
<1>1. ASSUME NEW id \in 1 .. MaxRequests PROVE At'[id] = f[id]
  <2>1. id \in Nat \ {0}
    BY ConfigAssumption
  <2>2. CASE id \in ids
    <3>1. HasId(t, id)'
      BY <2>1, <2>2 DEF Moves
    <3> QED
      BY <2>2, <3>1, AtNext
  <2>3. CASE id \notin ids
    <3>1. \A s \in Stations : HasId(s, id)' <=> HasId(s, id)
      BY <2>1, <2>3 DEF Moves
    <3>2. ASSUME NEW s \in Stations, HasId(s, id) PROVE At'[id] = At[id]
      BY <3>1, <3>2, AtNow, AtNext
    <3>3. ASSUME \A s \in Stations : ~HasId(s, id) PROVE At'[id] = At[id]
      BY <3>1, <3>3, AtNow, AtNext
    <3> QED
      BY <2>3, <3>2, <3>3
  <2> QED
    BY <2>2, <2>3
<1>2. At' = [id \in 1 .. MaxRequests |-> At'[id]]
  BY DEF At
<1> QED
  BY <1>1, <1>2

\* Which requests are at each place.
LEMMA InPlace ==
    ASSUME Ledger, NEW id \in 1 .. MaxRequests
    PROVE  /\ At[id] = Path!Receiver <=> rRequest.id = id
           /\ At[id] = <<"video", 0>> <=> InSeq(videoQueue, id)
           /\ At[id] = <<"others", 0>> <=> InSeq(othersQueue, id)
           /\ At[id] = Path!Sender <=> request.id = id
           /\ At[id] = Path!Served <=> HasId(Path!Served, id)
           /\ \A e \in Engines :
                 At[id] = Path!Engine(e) <=> HasId(PipeOf(e), id) \/ HasId(HandsOf(e), id)
           /\ At[id] = Path!Outside <=> id > received
<1>1. TypeOK /\ id \in Nat \ {0} /\ received \in Nat
  BY ConfigAssumption DEF Ledger, IInv, TypeOK
<1>2. CASE \A s \in Stations : ~HasId(s, id)
  <2>1. At[id] = Path!Outside
    BY <1>2, AtNow
  <2>2. id > received
    BY <1>1, <1>2 DEF Ledger, EachRequestOnce
  <2>3. /\ rRequest.id # id /\ request.id # id
        /\ ~InSeq(videoQueue, id) /\ ~InSeq(othersQueue, id)
    BY <1>1, <1>2, HasIdNow, StationTypes
  <2> QED
    BY <1>2, <2>1, <2>2, <2>3, PlacesDiffer, StationTypes
<1>3. ASSUME NEW s \in Stations, HasId(s, id)
      PROVE  /\ \A u \in Stations : HasId(u, id) <=> u = s
             /\ At[id] = Place(s) /\ id <= received
  BY <1>1, <1>3, OnePlace, AtNow DEF Ledger, Numbered
<1>4. ASSUME NEW s \in {Path!Receiver, <<"video", 0>>, <<"others", 0>>, Path!Sender, Path!Served,
                        Path!Lost}, HasId(s, id)
      PROVE  /\ At[id] = Path!Receiver <=> rRequest.id = id
             /\ At[id] = <<"video", 0>> <=> InSeq(videoQueue, id)
             /\ At[id] = <<"others", 0>> <=> InSeq(othersQueue, id)
             /\ At[id] = Path!Sender <=> request.id = id
             /\ At[id] = Path!Served <=> HasId(Path!Served, id)
             /\ \A e \in Engines :
                   At[id] = Path!Engine(e) <=> HasId(PipeOf(e), id) \/ HasId(HandsOf(e), id)
             /\ At[id] = Path!Outside <=> id > received
  <2>1. At[id] = s /\ id <= received /\ \A u \in Stations : HasId(u, id) <=> u = s
    BY <1>3, <1>4, PlaceOf, StationTypes
  <2>2. \A e \in Engines :
           /\ At[id] # Path!Engine(e)
           /\ ~HasId(PipeOf(e), id) /\ ~HasId(HandsOf(e), id)
    BY <1>4, <2>1, PlacesDiffer, StationsDiffer, StationTypes
  <2>3. At[id] # Path!Outside /\ ~(id > received)
    BY <1>1, <1>4, <2>1, PlacesDiffer
  <2>4. /\ HasId(Path!Receiver, id) <=> rRequest.id = id
        /\ HasId(<<"video", 0>>, id) <=> InSeq(videoQueue, id)
        /\ HasId(<<"others", 0>>, id) <=> InSeq(othersQueue, id)
        /\ HasId(Path!Sender, id) <=> request.id = id
    BY <1>1, HasIdNow
  <2>5. /\ At[id] = Path!Receiver <=> HasId(Path!Receiver, id)
        /\ At[id] = <<"video", 0>> <=> HasId(<<"video", 0>>, id)
        /\ At[id] = <<"others", 0>> <=> HasId(<<"others", 0>>, id)
        /\ At[id] = Path!Sender <=> HasId(Path!Sender, id)
        /\ At[id] = Path!Served <=> HasId(Path!Served, id)
    BY <2>1, StationTypes
  <2> QED
    BY <2>2, <2>3, <2>4, <2>5
<1>5. ASSUME NEW e \in Engines, NEW s \in {PipeOf(e), HandsOf(e)}, HasId(s, id)
      PROVE  /\ At[id] = Path!Receiver <=> rRequest.id = id
             /\ At[id] = <<"video", 0>> <=> InSeq(videoQueue, id)
             /\ At[id] = <<"others", 0>> <=> InSeq(othersQueue, id)
             /\ At[id] = Path!Sender <=> request.id = id
             /\ At[id] = Path!Served <=> HasId(Path!Served, id)
             /\ \A f \in Engines :
                   At[id] = Path!Engine(f) <=> HasId(PipeOf(f), id) \/ HasId(HandsOf(f), id)
             /\ At[id] = Path!Outside <=> id > received
  <2>1. /\ s \in Stations /\ At[id] = Path!Engine(e) /\ id <= received
        /\ \A u \in Stations : HasId(u, id) <=> u = s
    BY <1>3, <1>5, PlaceOf, StationTypes
  <2>2. ASSUME NEW f \in Engines
        PROVE  At[id] = Path!Engine(f) <=> HasId(PipeOf(f), id) \/ HasId(HandsOf(f), id)
    <3>1. CASE f = e
      BY <1>5, <2>1, <3>1
    <3>2. CASE f # e
      BY <1>5, <2>1, <3>2, PlacesDiffer, StationsDiffer, StationTypes
    <3> QED
      BY <3>1, <3>2
  <2>3. At[id] # Path!Outside /\ ~(id > received)
    BY <1>1, <2>1, PlacesDiffer
  <2>4. /\ At[id] \notin {Path!Receiver, <<"video", 0>>, <<"others", 0>>, Path!Sender, Path!Served}
        /\ s \notin {Path!Receiver, <<"video", 0>>, <<"others", 0>>, Path!Sender, Path!Served}
    BY <1>5, <2>1, PlacesDiffer, StationsDiffer
  <2>5. /\ ~HasId(Path!Receiver, id) /\ ~HasId(<<"video", 0>>, id)
        /\ ~HasId(<<"others", 0>>, id) /\ ~HasId(Path!Sender, id) /\ ~HasId(Path!Served, id)
    BY <2>1, <2>4, StationTypes
  <2>6. /\ rRequest.id # id /\ request.id # id
        /\ ~InSeq(videoQueue, id) /\ ~InSeq(othersQueue, id)
    BY <1>1, <2>5, HasIdNow
  <2> QED
    BY <2>2, <2>3, <2>4, <2>5, <2>6
<1> QED
  BY <1>2, <1>4, <1>5, StationCases

\* As many places are taken in a queue as it has requests.
LEMMA QueueCardinality ==
    ASSUME NEW seq \in Seq(Request), Distinct(seq), NEW n \in Nat,
           \A i \in 1 .. Len(seq) : seq[i].id \in 1 .. n
    PROVE  Cardinality({id \in 1 .. n : InSeq(seq, id)}) = Len(seq)
<1> DEFINE S == {id \in 1 .. n : InSeq(seq, id)}
           f == [i \in 1 .. Len(seq) |-> seq[i].id]
<1>1. f \in [1 .. Len(seq) -> S]
  BY DEF InSeq
<1>2. \A i, j \in 1 .. Len(seq) : f[i] = f[j] => i = j
  BY DEF Distinct
<1>3. \A id \in S : \E i \in 1 .. Len(seq) : f[i] = id
  BY DEF InSeq
<1>4. f \in Bijection(1 .. Len(seq), S)
  BY <1>1, <1>2, <1>3, Zenon DEF Bijection, Injection, Surjection, IsInjective
<1>5. ExistsBijection(1 .. Len(seq), S)
  BY <1>4 DEF ExistsBijection
<1> QED
  BY <1>5, FS_CountingElements

\* Module Requests counts as this one does.
LEMMA SameCount == \A S : Path!Cardinality(S) = Cardinality(S)
BY Zenon DEF Path!Cardinality, Cardinality, Path!IsFiniteSet, IsFiniteSet

\* No request of a queue has a number beyond the bound.
LEMMA NumbersBounded ==
    ASSUME Ledger
    PROVE  /\ \A i \in 1 .. Len(videoQueue) : videoQueue[i].id \in 1 .. MaxRequests
           /\ \A i \in 1 .. Len(othersQueue) : othersQueue[i].id \in 1 .. MaxRequests
<1>1. /\ TypeOK /\ videoQueue \in Seq(Request) /\ othersQueue \in Seq(Request)
      /\ received \in 0 .. MaxRequests /\ MaxRequests \in Nat
  BY ConfigAssumption DEF Ledger, IInv, TypeOK
<1>2. ASSUME NEW i \in 1 .. Len(videoQueue) PROVE videoQueue[i].id \in 1 .. MaxRequests
  <2>1. videoQueue[i] \in Request /\ videoQueue[i].id \in Nat \ {0}
    <3>1. videoQueue[i] \in Request
      BY <1>1
    <3> QED
      BY <3>1 DEF Request
  <2>2. HasId(<<"video", 0>>, videoQueue[i].id)
    BY <1>1, HasIdNow DEF InSeq
  <2> QED
    BY <1>1, <2>1, <2>2, StationTypes DEF Ledger, Numbered
<1>3. ASSUME NEW i \in 1 .. Len(othersQueue) PROVE othersQueue[i].id \in 1 .. MaxRequests
  <2>1. othersQueue[i] \in Request /\ othersQueue[i].id \in Nat \ {0}
    <3>1. othersQueue[i] \in Request
      BY <1>1
    <3> QED
      BY <3>1 DEF Request
  <2>2. HasId(<<"others", 0>>, othersQueue[i].id)
    BY <1>1, HasIdNow DEF InSeq
  <2> QED
    BY <1>1, <2>1, <2>2, StationTypes DEF Ledger, Numbered
<1> QED
  BY <1>2, <1>3

\* So a place of module Requests is as full as its queue.
LEMMA QueueSizes ==
    ASSUME Ledger
    PROVE  /\ Cardinality(Path!In(<<"video", 0>>)) = Len(videoQueue)
           /\ Cardinality(Path!In(<<"others", 0>>)) = Len(othersQueue)
<1>1. /\ TypeOK /\ videoQueue \in Seq(Request) /\ othersQueue \in Seq(Request)
      /\ Increasing(videoQueue) /\ Increasing(othersQueue)
      /\ received \in 0 .. MaxRequests /\ MaxRequests \in Nat
  BY ConfigAssumption DEF Ledger, IInv, TypeOK, ArrivalOrder
<1>2. Distinct(videoQueue) /\ Distinct(othersQueue)
  BY <1>1, IncreasingDistinct
<1>3. /\ Path!In(<<"video", 0>>) = {id \in 1 .. MaxRequests : InSeq(videoQueue, id)}
      /\ Path!In(<<"others", 0>>) = {id \in 1 .. MaxRequests : InSeq(othersQueue, id)}
  BY InPlace DEF Path!In, Path!Ids
<1> QED
  BY <1>1, <1>2, <1>3, NumbersBounded, QueueCardinality

\* Moves of the Receiver.
LEMMA ReceiverRefines ==
    ASSUME Ledger, Ledger', Receiver
    PROVE  \/ At' = At
           \/ \E id \in Path!Ids : Path!Arrive(id) \/ Path!Insert(id) \/ Path!Refuse(id)
<1>1. /\ TypeOK /\ TypeOK' /\ HandsTrue /\ HandsTrue' /\ NoRequest.id = 0
      /\ received \in 0 .. MaxRequests /\ received' \in 0 .. MaxRequests
      /\ MaxRequests \in Nat /\ QUEUE_POS \in Nat
  BY ConfigAssumption DEF Ledger, IInv, TypeOK, NoRequest
<1>2. ASSUME NEW kind \in Arrivals, Receive(kind)
      PROVE  \E id \in Path!Ids : Path!Arrive(id)
  <2> DEFINE id == received + 1
  <2>1. id \in 1 .. MaxRequests /\ rRequest = NoRequest
    BY <1>1, <1>2 DEF Receive, HandsTrue
  <2>2. \A j \in 1 .. MaxRequests :
           At[j] # Path!Receiver /\ (At[j] = Path!Outside <=> j > received)
    BY <1>1, <2>1, InPlace
  <2>3. At' = [j \in 1 .. MaxRequests |-> IF j \in {id} THEN Path!Receiver ELSE At[j]]
    BY <1>1, <1>2, ReceiveMoves, MoveAt, PlaceOf, StationTypes
  <2>4. Path!In(Path!Receiver) = {} /\ At[id] = Path!Outside
    BY <1>1, <2>1, <2>2 DEF Path!In, Path!Ids
  <2>5. \A earlier \in 1 .. id - 1 : At[earlier] # Path!Outside
    <3> SUFFICES ASSUME NEW j \in 1 .. id - 1 PROVE At[j] # Path!Outside
      OBVIOUS
    <3>1. j \in 1 .. MaxRequests /\ ~(j > received)
      BY <1>1, <2>1
    <3> QED
      BY <2>2, <3>1
  <2> QED
    BY <2>1, <2>3, <2>4, <2>5 DEF Path!Arrive, Path!Move, Path!Ids
<1>3. CASE ReceiverInsert
  <2> DEFINE id == rRequest.id
  <2>1. id \in 1 .. MaxRequests
    BY <1>1, <1>3 DEF ReceiverInsert, HandsTrue, TypeOK, Request
  <2>2. At[id] = Path!Receiver
    BY <2>1, InPlace
  <2>3. \A q \in {<<"video", 0>>, <<"others", 0>>} :
           Moves({id}, q) => Path!Move({id}, q)
    BY MoveAt, PlaceOf, StationTypes DEF Path!Move, Path!Ids
  <2>4. Moves({id}, Path!Lost) => Path!Move({id}, Path!Lost)
    BY MoveAt, PlaceOf, StationTypes DEF Path!Move, Path!Ids
  <2>5. \/ Len(videoQueue) < QUEUE_POS /\ Path!Move({id}, <<"video", 0>>)
        \/ Len(othersQueue) < QUEUE_POS /\ Path!Move({id}, <<"others", 0>>)
        \/ /\ Len(videoQueue) = QUEUE_POS \/ Len(othersQueue) = QUEUE_POS
           /\ Path!Move({id}, Path!Lost)
    BY <1>1, <1>3, <2>3, <2>4, InsertMoves
  <2> HIDE DEF id
  <2>6. Path!Insert(id) \/ Path!Refuse(id)
    BY <2>2, <2>5, QueueSizes, SameCount DEF Path!Insert, Path!Refuse, Path!Queues
  <2> QED
    BY <2>1, <2>6 DEF Path!Ids
<1>4. CASE ReceiverSignal
  <2>1. At' = [id \in 1 .. MaxRequests |-> IF id \in {} THEN Path!Lost ELSE At[id]]
    BY <1>1, <1>4, OtherMoves, MoveAt, PlaceOf, StationTypes
  <2> QED
    BY <1>4, <2>1 DEF At
<1> QED
  BY <1>2, <1>3, <1>4 DEF Receiver

\* Moves of the Sender and of the engines.
LEMMA SenderRefines ==
    ASSUME Ledger, Ledger', Sender
    PROVE  \/ At' = At
           \/ \E q \in Path!Queues : Path!Evict(q)
           \/ \E id \in Path!Ids :
                 \/ Path!Take(id) \/ Path!Fail(id)
                 \/ \E e \in Engines : Path!Assign(id, e)
<1>1. /\ TypeOK /\ TypeOK' /\ ArrivalOrder /\ NoRequest.id = 0 /\ MaxRequests \in Nat
      /\ videoQueue \in Seq(Request) /\ othersQueue \in Seq(Request)
  BY ConfigAssumption DEF Ledger, IInv, TypeOK, NoRequest
<1>2. ASSUME Moves({}, Path!Lost) PROVE At' = At
  <2>1. At' = [id \in 1 .. MaxRequests |-> IF id \in {} THEN Path!Lost ELSE At[id]]
    BY <1>2, MoveAt, PlaceOf, StationTypes
  <2> QED
    BY <2>1 DEF At
<1>3. ASSUME NEW queue \in {videoQueue, othersQueue}, queue # << >>, Increasing(queue),
             NEW q \in Path!Queues,
             \A id \in 1 .. MaxRequests : At[id] = q <=> InSeq(queue, id),
             \A i \in 1 .. Len(queue) : queue[i].id \in 1 .. MaxRequests,
             request = NoRequest,
             Moves(Ids(queue), Path!Lost) \/ Moves({Head(queue).id}, Path!Sender)
      PROVE  Path!Evict(q) \/ \E id \in Path!Ids : Path!Take(id)
  <2> DEFINE id == Head(queue).id
  <2>1. /\ 1 \in 1 .. Len(queue) /\ Head(queue) = queue[1]
        /\ id \in 1 .. MaxRequests /\ InSeq(queue, id)
    BY <1>1, <1>3 DEF InSeq
  <2>2. CASE Moves(Ids(queue), Path!Lost)
    <3>1. At' = [j \in 1 .. MaxRequests |-> IF j \in Ids(queue) THEN Path!Lost ELSE At[j]]
      BY <2>2, MoveAt, PlaceOf, StationTypes
    <3>2. \A j \in 1 .. MaxRequests : j \in Ids(queue) <=> j \in Path!In(q)
      BY <1>1, <1>3 DEF Ids, Path!In, Path!Ids
    <3>3. id \in Path!In(q)
      BY <1>3, <2>1 DEF Path!In, Path!Ids
    <3> QED
      BY <3>1, <3>2, <3>3 DEF Path!Evict, Path!Move, Path!Ids
  <2>3. CASE Moves({id}, Path!Sender)
    <3>1. At' = [j \in 1 .. MaxRequests |-> IF j \in {id} THEN Path!Sender ELSE At[j]]
      BY <2>3, MoveAt, PlaceOf, StationTypes
    <3>2. Path!In(Path!Sender) = {}
      BY <1>1, <1>3, InPlace DEF Path!In, Path!Ids
    <3>3. ASSUME NEW other \in Path!In(q) PROVE id <= other
      <4>1. other \in 1 .. MaxRequests /\ InSeq(queue, other)
        BY <1>3 DEF Path!In, Path!Ids
      <4>2. PICK i \in 1 .. Len(queue) : queue[i].id = other
        BY <4>1 DEF InSeq
      <4>3. i = 1 \/ id < other
        BY <1>1, <1>3, <2>1, <4>2 DEF Increasing
      <4> QED
        BY <2>1, <4>1, <4>2, <4>3
    <3>4. At[id] = q
      BY <1>3, <2>1
    <3> QED
      BY <1>3, <2>1, <3>1, <3>2, <3>3, <3>4 DEF Path!Take, Path!Move, Path!Ids
  <2> QED
    BY <1>3, <2>2, <2>3
<1>4. CASE SenderTryVideo
  <2>1. \A i \in 1 .. Len(videoQueue) : videoQueue[i].id \in 1 .. MaxRequests
    BY NumbersBounded
  <2>2. \A id \in 1 .. MaxRequests : At[id] = <<"video", 0>> <=> InSeq(videoQueue, id)
    BY InPlace
  <2> QED
    BY <1>1, <1>2, <1>3, <1>4, <2>1, <2>2, TryVideoMoves DEF ArrivalOrder, Path!Queues
<1>5. CASE SenderTryOthers
  <2>1. \A i \in 1 .. Len(othersQueue) : othersQueue[i].id \in 1 .. MaxRequests
    BY NumbersBounded
  <2>2. \A id \in 1 .. MaxRequests : At[id] = <<"others", 0>> <=> InSeq(othersQueue, id)
    BY InPlace
  <2> QED
    BY <1>1, <1>2, <1>3, <1>5, <2>1, <2>2, TryOthersMoves DEF ArrivalOrder, Path!Queues
<1>6. CASE SenderWrite
  <2> DEFINE id == request.id
  <2>1. id \in Nat \ {0} /\ HasId(Path!Sender, id)
    BY <1>1, <1>6, WriteMoves, HasIdNow DEF Request
  <2>2. id \in 1 .. MaxRequests
    BY <1>1, <2>1, StationTypes DEF Ledger, IInv, TypeOK, Numbered
  <2>3. At[id] = Path!Sender
    BY <2>2, InPlace
  <2>4. ASSUME Moves({id}, Path!Lost) PROVE Path!Fail(id)
    BY <2>3, <2>4, MoveAt, PlaceOf, StationTypes DEF Path!Fail, Path!Move, Path!Ids
  <2>5. ASSUME NEW e \in Engines, Moves({id}, PipeOf(e)) PROVE Path!Assign(id, e)
    BY <2>3, <2>5, MoveAt, PlaceOf, StationTypes DEF Path!Assign, Path!Move, Path!Ids
  <2> QED
    BY <1>1, <1>6, <2>2, <2>4, <2>5, WriteMoves DEF Path!Ids
<1>7. CASE ~SenderTryVideo /\ ~SenderTryOthers /\ ~SenderWrite
  BY <1>1, <1>2, <1>7, OtherMoves
<1> QED
  BY <1>4, <1>5, <1>6, <1>7

LEMMA EngineRefines ==
    ASSUME Ledger, Ledger', NEW e \in Engines, Engine(e)
    PROVE  At' = At \/ \E id \in Path!Ids : Path!Serve(id, e)
<1>1. TypeOK /\ TypeOK' /\ MaxRequests \in Nat /\ received \in 0 .. MaxRequests
  BY ConfigAssumption DEF Ledger, IInv, TypeOK
<1>2. CASE EngineRead(e)
  <2> DEFINE id == Head(pipe[e]).id
  <2>1. /\ At' = [j \in 1 .. MaxRequests |-> IF j \in {id} THEN Path!Engine(e) ELSE At[j]]
        /\ pipe[e] # << >> /\ pipe[e] \in Seq(Request)
    <3>1. pipe[e] # << >> /\ Moves({id}, HandsOf(e)) /\ pipe[e] \in Seq(Request)
      BY <1>1, <1>2, ReadMoves DEF TypeOK
    <3>2. HandsOf(e) \in Stations /\ Place(HandsOf(e)) = Path!Engine(e)
      BY PlaceOf, StationTypes
    <3> HIDE DEF id
    <3> QED
      BY <3>1, <3>2, MoveAt
  <2>2. InSeq(pipe[e], id)
    BY <2>1 DEF InSeq
  <2>3. HasId(PipeOf(e), id)
    BY <1>1, <2>2, HasIdNow
  <2>4. id \in 1 .. MaxRequests => At[id] = Path!Engine(e)
    BY <2>3, InPlace
  <2>5. At = [j \in 1 .. MaxRequests |-> At[j]]
    BY DEF At
  <2> QED
    BY <2>1, <2>4, <2>5
<1>3. CASE EngineServe(e)
  <2> DEFINE id == eRequest[e].id
  <2>1. /\ HasId(HandsOf(e), id)
        /\ At' = [j \in 1 .. MaxRequests |-> IF j \in {id} THEN Path!Served ELSE At[j]]
    <3>1. HasId(HandsOf(e), id) /\ Moves({id}, Path!Served)
      BY <1>1, <1>3, ServeMoves
    <3> HIDE DEF id
    <3> QED
      BY <3>1, MoveAt, PlaceOf, StationTypes
  <2>2. id \in Nat \ {0}
    BY <1>1, <1>3 DEF TypeOK, EngineServe, EngineGoto, Request
  <2>3. id \in 1 .. MaxRequests
    BY <1>1, <2>1, <2>2, StationTypes DEF Ledger, Numbered
  <2>4. At[id] = Path!Engine(e)
    BY <2>1, <2>3, InPlace
  <2> QED
    BY <2>1, <2>3, <2>4 DEF Path!Serve, Path!Move, Path!Ids
<1>4. CASE EngineReady(e) \/ EngineAcquire(e) \/ EngineMark(e) \/ EngineFree(e)
  <2>1. At' = [id \in 1 .. MaxRequests |-> IF id \in {} THEN Path!Lost ELSE At[id]]
    BY <1>1, <1>4, EngineMoves, MoveAt, PlaceOf, StationTypes
  <2> QED
    BY <2>1 DEF At
<1> QED
  BY <1>2, <1>3, <1>4 DEF Engine

\* Moves of the ARM.
LEMMA ArmRefines ==
    ASSUME Ledger, Ledger', Arm
    PROVE  At' = At \/ Path!KillBackup \/ Path!KillAll
<1>1. /\ TypeOK /\ TypeOK' /\ MaxRequests \in Nat /\ received \in 0 .. MaxRequests
      /\ Backup \in Engines
  <2>1. TypeOK /\ TypeOK'
    BY DEF Ledger, IInv
  <2>2. received \in 0 .. MaxRequests
    BY <2>1 DEF TypeOK
  <2>3. MaxRequests \in Nat /\ Backup \in Engines
    BY ConfigAssumption
  <2> QED
    BY <2>1, <2>2, <2>3
<1>2. CASE ArmKillBackup
  <2> DEFINE ids == {id \in Nat \ {0} : HasId(PipeOf(Backup), id) \/ HasId(HandsOf(Backup), id)}
  <2>1. At' = [j \in 1 .. MaxRequests |-> IF j \in ids THEN Path!Lost ELSE At[j]]
    <3>1. Moves(ids, Path!Lost)
      BY <1>1, <1>2, KillBackupMoves
    <3> HIDE DEF ids
    <3> QED
      BY <3>1, MoveAt, PlaceOf, StationTypes
  <2>2. \A j \in 1 .. MaxRequests : j \in ids <=> j \in Path!In(Path!Engine(Backup))
    BY <1>1, InPlace DEF Path!In, Path!Ids
  <2>3. At = [j \in 1 .. MaxRequests |-> At[j]]
    BY DEF At
  <2>4. CASE Path!In(Path!Engine(Backup)) = {}
    BY <2>1, <2>2, <2>3, <2>4
  <2>5. CASE Path!In(Path!Engine(Backup)) # {}
    BY <2>1, <2>2, <2>5 DEF Path!KillBackup, Path!Move, Path!Ids
  <2> QED
    BY <2>4, <2>5
<1>3. CASE ArmKillGroup
  <2> DEFINE ids == {id \in Nat \ {0} : \E s \in Stations \ {Path!Served} : HasId(s, id)}
  <2>1. At' = [j \in 1 .. MaxRequests |-> IF j \in ids THEN Path!Lost ELSE At[j]]
    <3>1. Moves(ids, Path!Lost)
      BY <1>1, <1>3, KillGroupMoves
    <3> HIDE DEF ids
    <3> QED
      BY <3>1, MoveAt, PlaceOf, StationTypes
  <2>2. ASSUME NEW j \in 1 .. MaxRequests
        PROVE  j \in ids <=> At[j] \notin {Path!Outside, Path!Served}
    <3>1. j \in Nat \ {0} /\ Path!Served \in Stations
      BY <1>1, StationTypes
    <3>2. /\ At[j] = Path!Served <=> HasId(Path!Served, j)
          /\ At[j] = Path!Outside <=> j > received
      BY InPlace
    <3>3. ASSUME NEW s \in Stations, HasId(s, j)
          PROVE  j <= received /\ (s # Path!Served => ~HasId(Path!Served, j))
      BY <1>1, <3>1, <3>3, OnePlace DEF Ledger, Numbered
    <3>4. j <= received => \E s \in Stations : HasId(s, j)
      BY <1>1, <3>1 DEF Ledger, EachRequestOnce
    <3> QED
      BY <1>1, <3>1, <3>2, <3>3, <3>4
  <2> HIDE DEF ids
  <2> QED
    BY <2>1, <2>2 DEF Path!KillAll, Path!Move, Path!Ids
<1>4. CASE ~ArmKillBackup /\ ~ArmKillGroup
  <2>1. At' = [id \in 1 .. MaxRequests |-> IF id \in {} THEN Path!Lost ELSE At[id]]
    BY <1>1, <1>4, ArmMoves, MoveAt, PlaceOf, StationTypes
  <2> QED
    BY <2>1 DEF At
<1> QED
  BY <1>2, <1>3, <1>4

LEMMA StepRefines == Ledger /\ Ledger' /\ [Next]_vars => [Path!Next]_At
<1> SUFFICES ASSUME Ledger, Ledger', [Next]_vars, At' # At PROVE Path!Next
  OBVIOUS
<1>1. CASE Receiver
  BY <1>1, ReceiverRefines DEF Path!Next
<1>2. CASE Sender
  BY <1>2, SenderRefines DEF Path!Next
<1>3. ASSUME NEW e \in Engines, Engine(e) PROVE Path!Next
  BY <1>3, EngineRefines DEF Path!Next
<1>4. CASE Arm
  BY <1>4, ArmRefines DEF Path!Next
<1>5. CASE Tick \/ UNCHANGED vars
  <2>1. At' = [id \in 1 .. MaxRequests |-> IF id \in {} THEN Path!Lost ELSE At[id]]
    BY <1>5, OtherMoves, MoveAt, PlaceOf, StationTypes DEF Ledger, IInv
  <2> QED
    BY <2>1 DEF At
<1> QED
  BY <1>1, <1>2, <1>3, <1>4, <1>5 DEF Next

LEMMA InitRefines == Init => Path!Init
<1> SUFFICES ASSUME Init PROVE At = [id \in 1 .. MaxRequests |-> Path!Outside]
  BY DEF Path!Init, Path!Ids
<1>1. Ledger /\ received = 0
  BY LedgerInit DEF Init
<1>2. \A id \in 1 .. MaxRequests : At[id] = Path!Outside
  BY <1>1, InPlace, ConfigAssumption
<1> QED
  BY <1>2 DEF At

\* Whatever the threads, the engines and the ARM do, a request goes the way module
\* Requests describes, for any number of engines, requests and queue positions.
THEOREM RequestsImplemented == Spec => ImplementsRequests
<1>1. Init => Path!Init
  BY InitRefines
<1>2. Ledger /\ Ledger' /\ [Next]_vars => [Path!Next]_At
  BY StepRefines
<1> QED
  BY <1>1, <1>2, LedgerInductive, PTL DEF Spec, ImplementsRequests, Path!Spec

=============================================================================
