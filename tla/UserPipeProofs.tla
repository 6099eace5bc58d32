-------------------------- MODULE UserPipeProofs --------------------------
(***************************************************************************)
(* Theorems about module UserPipe, for every number of mobiles, every size *)
(* of the messages, the reads and the pipe: TypeOK, and                    *)
(* StrangersNeedOverflow, which rests on the messages being whole in the   *)
(* pipe for as long as every read() has emptied it.                        *)
(***************************************************************************)
EXTENDS UserPipe, WellFoundedInduction, TLAPS

---------------------------------------------------------------------------
\* THE INDUCTIVE INVARIANT

\* A message stands whole at the head of the pipe, unless a read() has left a rest there.
WholeMessageFirst ==
    ~overfull /\ pipe # << >> =>
        Len(pipe) >= Units /\ pipe[1].unit = 1 /\ pipe[Units].unit = Units

IInv == TypeOK /\ StrangersNeedOverflow /\ WholeMessageFirst

---------------------------------------------------------------------------
\* OPERATORS

\* A set of natural numbers that is not empty has a least element.
LEMMA MinInSet ==
    ASSUME NEW S \in SUBSET Nat, S # {}
    PROVE  Min(S) \in S /\ \A y \in S : Min(S) <= y
<1>1. IsWellFoundedOn(OpToRel(<, Nat), Nat)
  BY NatLessThanWellFounded
<1>2. \E x \in S : \A y \in S : <<y, x>> \notin OpToRel(<, Nat)
  BY <1>1, WFMin, Zenon
<1>3. \A x, y \in Nat : <<y, x>> \in OpToRel(<, Nat) <=> y < x
  BY DEF OpToRel
<1>4. \E x \in S : \A y \in S : ~ (y < x)
  BY <1>2, <1>3, Zenon
<1>5. \E x \in S : \A y \in S : x <= y
  BY <1>4
<1> QED
  BY <1>5 DEF Min

\* The units in the pipe.
Unit == [from : Mobiles, number : 0 .. MaxAuthRequests, unit : 1 .. Units]

\* What a read() takes is there.
LEMMA TakenBounds ==
    ASSUME pipe \in Seq(Unit), pipe # << >>
    PROVE  /\ Taken \in 1 .. Len(pipe)
           /\ Len(pipe) <= ReadUnits => Taken = Len(pipe)
<1>1. Len(pipe) \in Nat /\ Len(pipe) > 0 /\ ReadUnits \in Nat /\ ReadUnits > 0
  BY UserPipeAssumption
<1>2. /\ Taken \in {Len(pipe), ReadUnits}
      /\ \A y \in {Len(pipe), ReadUnits} : Taken <= y
  <2>1. {Len(pipe), ReadUnits} \in SUBSET Nat
    BY <1>1
  <2> QED
    BY <2>1, MinInSet DEF Taken
<1> QED
  BY <1>1, <1>2

\* A whole message at the head is the string that is used.
LEMMA WholeString ==
    ASSUME pipe \in Seq(Unit), pipe # << >>,
           Len(pipe) >= Units, pipe[Units].unit = Units
    PROVE  pipe[StringEnd].unit = Units
<1> DEFINE S == {Taken} \cup {i \in 1 .. Taken : pipe[i].unit = Units}
<1>1. Taken \in Nat /\ Taken >= Units
  <2>1. Taken = Len(pipe) \/ Taken = ReadUnits
    <3>1. Len(pipe) \in Nat /\ ReadUnits \in Nat
      BY UserPipeAssumption
    <3>2. {Len(pipe), ReadUnits} \in SUBSET Nat
      BY <3>1
    <3> QED
      BY <3>2, MinInSet DEF Taken
  <2> QED
    BY <2>1, UserPipeAssumption
<1>2. Units \in S
  BY <1>1, UserPipeAssumption
<1>3. S \in SUBSET Nat
  BY <1>1
<1>4. Min(S) \in S /\ Min(S) <= Units
  BY <1>2, <1>3, MinInSet
<1>5. CASE Min(S) \in {i \in 1 .. Taken : pipe[i].unit = Units}
  BY <1>5 DEF StringEnd
<1>6. CASE Min(S) = Taken
  <2>1. Taken = Units
    BY <1>1, <1>4, <1>6, UserPipeAssumption
  <2> QED
    BY <1>6, <2>1 DEF StringEnd
<1> QED
  BY <1>4, <1>5, <1>6

\* A write() puts a whole message behind what is there, or nothing.
LEMMA WriteWhole ==
    ASSUME NEW m \in Mobiles, NEW n \in 0 .. MaxAuthRequests,
           pipe \in Seq(Unit), Len(pipe) <= PipeUnits, ~up => pipe = << >>,
           WholeMessageFirst, Write(m, n), up' = up, overfull' = overfull
    PROVE  /\ pipe' \in Seq(Unit)
           /\ Len(pipe') <= PipeUnits
           /\ ~up' => pipe' = << >>
           /\ WholeMessageFirst'
<1> DEFINE msg == Message(m, n)
<1>1. Units \in Nat \ {0} /\ PipeUnits \in Nat
  BY UserPipeAssumption
<1>2. /\ msg \in Seq(Unit) /\ Len(msg) = Units
      /\ msg[1].unit = 1 /\ msg[Units].unit = Units
  <2>1. \A u \in 1 .. Units : [from |-> m, number |-> n, unit |-> u] \in Unit
    BY DEF Unit
  <2>2. msg \in [1 .. Units -> Unit]
    BY <2>1 DEF Message
  <2> QED
    BY <1>1, <2>2 DEF Message
<1>3. CASE ~CanWrite
  BY <1>3 DEF Write, WholeMessageFirst
<1>4. CASE CanWrite
  <2> HIDE DEF msg
  <2>1. pipe' = pipe \o msg
    BY <1>4 DEF Write, msg
  <2>2. pipe' \in Seq(Unit) /\ Len(pipe') = Len(pipe) + Units
    <3>1. pipe \in Seq(Unit) /\ msg \in Seq(Unit)
      BY <1>2
    <3>2. pipe \o msg \in Seq(Unit) /\ Len(pipe \o msg) = Len(pipe) + Len(msg)
      BY <3>1
    <3> QED
      BY <1>2, <2>1, <3>2
  <2>3. CASE pipe = << >>
    <3>1. pipe' = msg
      BY <1>2, <2>1, <2>3
    <3> QED
      BY <1>1, <1>2, <1>4, <2>2, <2>3, <3>1 DEF WholeMessageFirst, CanWrite
  <2>4. CASE pipe # << >>
    <3>1. \A i \in 1 .. Len(pipe) : pipe'[i] = pipe[i]
      BY <1>2, <2>1
    <3>2. Len(pipe) \in Nat /\ Len(pipe) >= 1
      BY <2>4
    <3> QED
      BY <1>1, <1>4, <2>2, <2>4, <3>1, <3>2 DEF WholeMessageFirst, CanWrite
  <2> QED
    BY <2>3, <2>4
<1> QED
  BY <1>3, <1>4

---------------------------------------------------------------------------
\* THE STEPS

LEMMA Initially == Init => IInv
<1> SUFFICES ASSUME Init PROVE IInv
  OBVIOUS
<1>1. TypeOK
  <2>1. pipe \in Seq(Unit) /\ Len(pipe) = 0
    BY DEF Init
  <2>2. 0 \in 0 .. MaxStarts /\ 0 \in 0 .. MaxAuthRequests /\ 0 <= PipeUnits
    BY UserPipeAssumption
  <2>3. /\ mobile \in [Mobiles -> {"new", "waiting", "logged", "ended"}]
        /\ asked \in [Mobiles -> 0 .. MaxAuthRequests]
        /\ \A m \in Mobiles : ~(mobile[m] = "logged" \/ asked[m] > 0)
    BY <2>2 DEF Init
  <2>4. /\ up = FALSE /\ starts = 0 /\ pipe = << >> /\ inFlight = {} /\ accounts = {}
        /\ refused \cup behind \cup cutOff = {} /\ dropped = {}
        /\ strange = FALSE /\ overfull = FALSE
    BY DEF Init
  <2> QED
    BY <2>1, <2>2, <2>3, <2>4 DEF TypeOK, Unit
<1> QED
  BY <1>1 DEF IInv, Init, StrangersNeedOverflow, WholeMessageFirst

\* A mobile starts and writes its REGISTER message.
LEMMA StartStep ==
    ASSUME IInv, NEW m \in Mobiles, MobileStart(m)
    PROVE  IInv'
<1>1. TypeOK /\ StrangersNeedOverflow /\ WholeMessageFirst
  BY DEF IInv
<1>2. /\ pipe' \in Seq(Unit) /\ Len(pipe') <= PipeUnits
      /\ ~up' => pipe' = << >>
      /\ WholeMessageFirst'
  <2>1. 0 \in 0 .. MaxAuthRequests /\ Write(m, 0) /\ up' = up /\ overfull' = overfull
    BY UserPipeAssumption DEF MobileStart
  <2>2. pipe \in Seq(Unit) /\ Len(pipe) <= PipeUnits /\ (~up => pipe = << >>)
    BY <1>1 DEF TypeOK, Unit
  <2> QED
    BY <1>1, <2>1, <2>2, WriteWhole
<1>3. TypeOK'
  BY <1>1, <1>2 DEF TypeOK, MobileStart, Unit
<1>4. StrangersNeedOverflow'
  BY <1>1 DEF StrangersNeedOverflow, MobileStart
<1> QED
  BY <1>2, <1>3, <1>4 DEF IInv

\* A mobile writes a request.
LEMMA RequestStep ==
    ASSUME IInv, NEW m \in Mobiles, MobileRequest(m)
    PROVE  IInv'
<1>1. TypeOK /\ StrangersNeedOverflow /\ WholeMessageFirst
  BY DEF IInv
<1>2. asked[m] + 1 \in 0 .. MaxAuthRequests
  BY <1>1, UserPipeAssumption DEF TypeOK, MobileRequest
<1>3. /\ pipe' \in Seq(Unit) /\ Len(pipe') <= PipeUnits
      /\ ~up' => pipe' = << >>
      /\ WholeMessageFirst'
  <2>1. Write(m, asked[m] + 1) /\ up' = up /\ overfull' = overfull
    BY DEF MobileRequest, historyVars
  <2>2. pipe \in Seq(Unit) /\ Len(pipe) <= PipeUnits /\ (~up => pipe = << >>)
    BY <1>1 DEF TypeOK, Unit
  <2> QED
    BY <1>1, <1>2, <2>1, <2>2, WriteWhole
<1>4. TypeOK'
  BY <1>1, <1>2, <1>3 DEF TypeOK, MobileRequest, historyVars, Unit
<1>5. StrangersNeedOverflow'
  BY <1>1 DEF StrangersNeedOverflow, MobileRequest, historyVars
<1> QED
  BY <1>3, <1>4, <1>5 DEF IInv

\* As long as every read() empties the pipe, it takes a whole message for what it is.
LEMMA ReceiveStep ==
    ASSUME IInv, Receive
    PROVE  IInv'
<1>1. TypeOK /\ StrangersNeedOverflow /\ WholeMessageFirst
  BY DEF IInv
<1>2. /\ pipe \in Seq(Unit) /\ pipe # << >> /\ Len(pipe) <= PipeUnits /\ up
      /\ overfull \in BOOLEAN /\ strange \in BOOLEAN
      /\ inFlight \subseteq Request
  BY <1>1 DEF TypeOK, Receive, Unit
<1>3. /\ Taken \in 1 .. Len(pipe)
      /\ Len(pipe) <= ReadUnits => Taken = Len(pipe)
  BY <1>2, TakenBounds
<1>4. pipe' \in Seq(Unit) /\ Len(pipe') = Len(pipe) - Taken
  <2>1. Len(pipe) \in Nat
    BY <1>2
  <2> QED
    BY <1>2, <1>3, <2>1 DEF Receive
<1>5. inFlight' \subseteq Request
  <2>1. pipe[1] \in Unit
    BY <1>2, <1>3
  <2>2. 0 \in 0 .. MaxAuthRequests /\ 1 \in 0 .. MaxAuthRequests
    BY UserPipeAssumption
  <2>3. \A requests \in Parsed : requests \subseteq Request
    BY <2>1, <2>2 DEF Parsed, Request, Unit
  <2> QED
    BY <1>2, <2>3 DEF Receive
<1>6. TypeOK'
  <2>1. Len(pipe') <= PipeUnits /\ up'
    BY <1>2, <1>3, <1>4, UserPipeAssumption DEF Receive
  <2>2. behind' \cup refused' \cup cutOff' \subseteq Mobiles
    BY <1>1 DEF TypeOK, Receive
  <2>3. strange' \in BOOLEAN /\ overfull' \in BOOLEAN
    BY <1>2, Zenon DEF Receive
  <2>4. UNCHANGED <<starts, accounts, mobile, asked, dropped>>
    BY DEF Receive, mobileVars
  <2> QED
    BY <1>1, <1>4, <1>5, <2>1, <2>2, <2>3, <2>4 DEF TypeOK, Unit
<1>7. CASE overfull \/ Len(pipe) > ReadUnits
  <2>1. overfull'
    BY <1>7 DEF Receive
  <2> QED
    BY <1>6, <2>1 DEF IInv, StrangersNeedOverflow, WholeMessageFirst
<1>8. CASE ~overfull /\ ~(Len(pipe) > ReadUnits)
  <2>1. pipe' = << >>
    BY <1>2, <1>3, <1>4, <1>8, UserPipeAssumption
  <2>2. pipe[1].unit = 1 /\ pipe[StringEnd].unit = Units
    BY <1>1, <1>2, <1>8, WholeString DEF WholeMessageFirst
  <2>3. ~strange'
    BY <1>1, <1>8, <2>2 DEF Receive, StrangersNeedOverflow
  <2>4. pipe[1].from # Stranger
    <3>1. pipe[1] \in Unit
      BY <1>2, <1>3
    <3> QED
      BY <3>1, UserPipeAssumption DEF Unit
  <2>5. inFlight' = inFlight \cup {[from |-> pipe[1].from, number |-> pipe[1].number]}
    BY <2>2 DEF Receive, Parsed
  <2>6. Stranger \notin accounts \cup {r.from : r \in inFlight}
    BY <1>1, <1>8 DEF StrangersNeedOverflow
  <2>7. Stranger \notin accounts' \cup {r.from : r \in inFlight'}
    BY <2>4, <2>5, <2>6 DEF Receive
  <2> QED
    BY <1>6, <2>1, <2>3, <2>7 DEF IInv, StrangersNeedOverflow, WholeMessageFirst
<1> QED
  BY <1>2, <1>3, <1>7, <1>8

\* An engine registers a mobile or answers it, or a queue drops the request.
LEMMA ServeStep ==
    ASSUME IInv, NEW r \in inFlight, Serve(r) \/ Drop(r)
    PROVE  IInv'
<1>1. TypeOK /\ StrangersNeedOverflow /\ WholeMessageFirst
  BY DEF IInv
<1>2. r \in Request
  BY <1>1 DEF TypeOK
<1>3. CASE Serve(r)
  <2>1. mobile' \in [Mobiles -> {"new", "waiting", "logged", "ended"}]
    BY <1>1, <1>3 DEF TypeOK, Serve
  <2>2. accounts' \subseteq Mobiles \cup {Stranger} /\ accounts \subseteq accounts'
    BY <1>1, <1>2, <1>3 DEF TypeOK, Serve, Request
  <2>3. \A m \in Mobiles : mobile'[m] = "logged" \/ asked'[m] > 0 => m \in accounts'
    BY <1>1, <1>3, <2>2 DEF TypeOK, Serve
  <2>4. TypeOK'
    BY <1>1, <1>3, <2>1, <2>2, <2>3 DEF TypeOK, Serve, historyVars
  <2>5. accounts' \cup {q.from : q \in inFlight'} \subseteq accounts \cup {q.from : q \in inFlight}
    BY <1>3 DEF Serve
  <2> QED
    BY <1>1, <1>3, <2>4, <2>5
       DEF IInv, StrangersNeedOverflow, WholeMessageFirst, Serve, historyVars
<1>4. CASE Drop(r)
  <2>1. TypeOK'
    BY <1>1, <1>2, <1>4 DEF TypeOK, Drop, mobileVars, Request
  <2>2. accounts' \cup {q.from : q \in inFlight'} \subseteq accounts \cup {q.from : q \in inFlight}
    BY <1>4 DEF Drop
  <2> QED
    BY <1>1, <1>4, <2>1, <2>2
       DEF IInv, StrangersNeedOverflow, WholeMessageFirst, Drop
<1> QED
  BY <1>3, <1>4

\* A mobile ends; the platform starts or ends.
LEMMA EndStep ==
    ASSUME IInv, (\E m \in Mobiles : MobileEnd(m)) \/ PlatformStart \/ PlatformEnd
    PROVE  IInv'
<1>1. TypeOK /\ StrangersNeedOverflow /\ WholeMessageFirst
  BY DEF IInv
<1>2. CASE \E m \in Mobiles : MobileEnd(m)
  BY <1>1, <1>2 DEF IInv, TypeOK, StrangersNeedOverflow, WholeMessageFirst,
                    MobileEnd, historyVars
<1>3. CASE PlatformStart
  <2>1. starts' \in 0 .. MaxStarts
    BY <1>1, <1>3, UserPipeAssumption DEF TypeOK, PlatformStart
  <2> QED
    BY <1>1, <1>3, <2>1 DEF IInv, TypeOK, StrangersNeedOverflow, WholeMessageFirst,
                            PlatformStart, mobileVars, historyVars
<1>4. CASE PlatformEnd
  <2>1. ~up' /\ pipe' = << >> /\ pipe' \in Seq(Unit) /\ Len(pipe') <= PipeUnits
    BY <1>4, UserPipeAssumption DEF PlatformEnd
  <2>2. TypeOK'
    BY <1>1, <1>4, <2>1 DEF TypeOK, PlatformEnd, mobileVars, Unit
  <2> QED
    BY <1>1, <1>4, <2>1, <2>2
       DEF IInv, StrangersNeedOverflow, WholeMessageFirst, PlatformEnd
<1> QED
  BY <1>2, <1>3, <1>4

\* Nothing changes.
LEMMA Stutter == IInv /\ UNCHANGED vars => IInv'
<1> SUFFICES ASSUME IInv, UNCHANGED vars PROVE IInv'
  OBVIOUS
<1>1. TypeOK /\ StrangersNeedOverflow /\ WholeMessageFirst
  BY DEF IInv
<1>2. TypeOK'
  BY <1>1 DEF TypeOK, vars, mobileVars, historyVars
<1>3. StrangersNeedOverflow' /\ WholeMessageFirst'
  BY <1>1 DEF StrangersNeedOverflow, WholeMessageFirst, vars, historyVars
<1> QED
  BY <1>2, <1>3 DEF IInv

---------------------------------------------------------------------------
\* THE THEOREMS

\* Types, strangers and whole messages together are preserved by every step of mobiles,
\* Receiver, engines and platform.
THEOREM Inductive == Spec => []IInv
<1>1. IInv /\ [Next]_vars => IInv'
  <2> SUFFICES ASSUME IInv, [Next]_vars PROVE IInv'
    OBVIOUS
  <2>1. ASSUME NEW m \in Mobiles, MobileStart(m) PROVE IInv'
    BY <2>1, StartStep
  <2>2. ASSUME NEW m \in Mobiles, MobileRequest(m) PROVE IInv'
    BY <2>2, RequestStep
  <2>3. CASE Receive
    BY <2>3, ReceiveStep
  <2>4. ASSUME NEW r \in inFlight, Serve(r) \/ Drop(r) PROVE IInv'
    BY <2>4, ServeStep
  <2>5. CASE (\E m \in Mobiles : MobileEnd(m)) \/ PlatformStart \/ PlatformEnd
    BY <2>5, EndStep
  <2>6. CASE UNCHANGED vars
    BY <2>6, Stutter
  <2> QED
    BY <2>1, <2>2, <2>3, <2>4, <2>5, <2>6 DEF Next
<1> QED
  BY Initially, <1>1, PTL DEF Spec

\* write_to_user_pipe(), read_from_user_pipe() and the engines: every variable keeps its
\* type, a mobile that is logged or has asked has an account, and the pipe
\* is empty without a reader.
THEOREM TypeCorrect == Spec => []TypeOK
BY Inductive, PTL DEF IInv

\* receiver() takes a rest of a message for a message, and an engine registers a process
\* that is no mobile, only after the pipe has held more than one read() takes.
THEOREM StrangersComeFromOverflow == Spec => []StrangersNeedOverflow
BY Inductive, PTL DEF IInv

===========================================================================
