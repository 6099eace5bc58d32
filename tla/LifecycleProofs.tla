-------------------------- MODULE LifecycleProofs --------------------------
(***************************************************************************)
(* Theorems about module Lifecycle, for every number of mobiles,           *)
(* backoffices, configuration files and starts: TypeOK, StartRecovers,     *)
(* AccountsSurvive, NothingLeft and OneBackoffice follow from one          *)
(* inductive invariant, ConfigFaithful from it and from what module Config *)
(* makes of a file.                                                        *)
(***************************************************************************)
EXTENDS Lifecycle, SequenceTheorems, SumProofs

---------------------------------------------------------------------------
\* THE INDUCTIVE INVARIANT

\* A segment that shmget() has made, and the size it is made with.
Segments == [size : Int, file : Files, users : Nat, mobile : [Positions -> Mobiles \cup {Nobody}]]

SizeFor(f) == 428 + 4 * (ReadConfig(f)[3] + 1) + 24 * ReadConfig(f)[1]

\* From the moment it is read on, the configuration is the file's.
Configured ==
    /\ pc # "down" => file \in Files
    /\ pc \notin {"down", "log", "config"} => config = ReadConfig(file) /\ config # Rejected

\* A segment has the size that the file it was made for asks for.
SegmentTrue ==
    segment # NoSegment => segment \in Segments /\ segment.size = SizeFor(segment.file)

\* The accounts are those of the mobiles that were registered, one each, and a mobile is
\* registered only once; but a segment whose number of accounts has been written over
\* has hardly more than there are registered mobiles.
AccountsKept ==
    /\ segment = NoSegment => registered = {} /\ ~aliased
    /\ pc \in {"pipes", "running"} /\ AUTH_SERVERS >= MAX_SIZE => aliased
    /\ segment.users <= Cardinality(registered) + 1
    /\ segment # NoSegment /\ ~aliased =>
          /\ segment.users = Cardinality(registered)
          /\ \A m \in registered : \E i \in 1 .. segment.users : segment.mobile[i] = m
          /\ \A i \in 1 .. segment.users : segment.mobile[i] \in registered
          /\ \A i, j \in 1 .. segment.users : segment.mobile[i] = segment.mobile[j] => i = j
    /\ \A m \in asking \cup registered : mobile[m] # "new"
    /\ asking \cap registered = {}

\* Who may have the name "sem": a backoffice that was started, and every one that runs
\* unless it has been displaced.
Owners ==
    /\ semOwner \in Backoffices => backoffice[semOwner] # "new"
    /\ pc = "log" => semOwner # Platform
    /\ \A b \in Backoffices : Running(b) /\ b \notin displaced => semOwner = b

\* What a platform that has not been abandoned finds when it starts, and what is still
\* there at each step of the close.
Remains ==
    /\ pc \in {"down", "log", "config", "segment"} /\ ~abandoned =>
          names = {} /\ segment = NoSegment /\ (msgQueue => recreated)
    /\ pc \in Closing => "sem_msg_queue" \notin names /\ (msgQueue => recreated)
    /\ pc \in {"rmPipes", "rmLog"} => segment = NoSegment /\ names \subseteq {"pipes"}
    /\ pc = "rmLog" => names = {}
    /\ pc = "down" /\ ~abandoned => semOwner # Platform

IInv == /\ TypeOK /\ Configured /\ SegmentTrue /\ AccountsKept
        /\ Owners /\ Remains /\ StartRecovers

---------------------------------------------------------------------------
\* RECURSIVE FUNCTIONS

\* step[<<i, v>>] is the i-th value when v is the one before it; h has these values.
Stepwise(step, n, V) == \A i \in 1 .. n, v \in V : step[<<i, v>>] \in V

Iterates(h, step, base, n, V) ==
    /\ h \in [0 .. n -> V]
    /\ h[0] = base
    /\ \A i \in 1 .. n : h[i] = step[<<i, h[i - 1]>>]

\* There is such a function: if not, there would be none up to a first number.
LEMMA Iteration ==
    ASSUME NEW V, NEW base \in V, NEW n \in Nat, NEW step, Stepwise(step, n, V)
    PROVE  \E h : Iterates(h, step, base, n, V)
<1> DEFINE Steps(h, m) == Iterates(h, step, base, m, V)
           wrong == {m \in 0 .. n : ~ \E h : Steps(h, m)}
<1>1. wrong = {}
  <2> SUFFICES ASSUME wrong # {} PROVE FALSE
    OBVIOUS
  <2>1. PICK m \in wrong : \A k \in wrong : m <= k
    <3>1. wrong \in SUBSET Nat
      OBVIOUS
    <3> QED
      BY <3>1, LeastNumber
  <2>2. m \in 0 .. n /\ ~ \E h : Steps(h, m)
    BY <2>1
  <2>3. m # 0
    <3> SUFFICES ASSUME m = 0 PROVE FALSE
      OBVIOUS
    <3>1. Steps([i \in 0 .. 0 |-> base], 0)
      BY DEF Iterates
    <3> QED
      BY <2>2, <3>1
  <2>4. m - 1 \in 0 .. n /\ m - 1 \notin wrong
    <3>1. m - 1 \in 0 .. n /\ ~(m <= m - 1)
      BY <2>2, <2>3
    <3> HIDE DEF wrong
    <3> QED
      BY <2>1, <3>1
  <2>5. PICK h : Steps(h, m - 1)
    BY <2>4
  <2> DEFINE g == [i \in 0 .. m |-> IF i = m THEN step[<<m, h[m - 1]>>] ELSE h[i]]
  <2>6. h[m - 1] \in V /\ m \in 1 .. n
    BY <2>2, <2>3, <2>5 DEF Iterates
  <2>7. step[<<m, h[m - 1]>>] \in V
    BY <2>6 DEF Stepwise
  <2>8. \A i \in 0 .. m - 1 : g[i] = h[i] /\ h[i] \in V /\ i # m
    BY <2>2, <2>5 DEF Iterates
  <2>9. g[m] = step[<<m, h[m - 1]>>]
    BY <2>2
  <2>10. g \in [0 .. m -> V]
    <3>1. ASSUME NEW i \in 0 .. m PROVE g[i] \in V
      <4>1. CASE i = m
        BY <2>7, <2>9, <4>1
      <4>2. CASE i # m
        <5>1. i \in 0 .. m - 1
          BY <2>2, <4>2
        <5> QED
          BY <2>8, <5>1
      <4> QED
        BY <4>1, <4>2
    <3>2. g = [i \in 0 .. m |-> g[i]]
      OBVIOUS
    <3> HIDE DEF g
    <3> QED
      BY <3>1, <3>2
  <2> HIDE DEF g
  <2>11. \A i \in 1 .. m : g[i] = step[<<i, g[i - 1]>>]
    <3> SUFFICES ASSUME NEW i \in 1 .. m PROVE g[i] = step[<<i, g[i - 1]>>]
      OBVIOUS
    <3>1. i - 1 \in 0 .. m - 1 /\ g[i - 1] = h[i - 1]
      BY <2>2, <2>8
    <3>2. CASE i = m
      BY <2>9, <3>1, <3>2
    <3>3. CASE i # m
      <4>1. i \in 1 .. m - 1 /\ i \in 0 .. m - 1
        BY <2>2, <3>3
      <4>2. h[i] = step[<<i, h[i - 1]>>] /\ g[i] = h[i]
        BY <2>5, <2>8, <4>1 DEF Iterates
      <4> QED
        BY <3>1, <4>2
    <3> QED
      BY <3>2, <3>3
  <2>12. g[0] = base
    BY <2>2, <2>3, <2>5, <2>8 DEF Iterates
  <2>13. Steps(g, m)
    BY <2>10, <2>11, <2>12 DEF Iterates
  <2> QED
    BY <2>2, <2>13
<1>2. n \in 0 .. n
  OBVIOUS
<1>3. \E h : Steps(h, n)
  BY <1>1, <1>2
<1> QED
  BY <1>3

---------------------------------------------------------------------------
\* WHAT IS READ FROM A FILE

\* What the recursive function of Atoi has to satisfy.
Reads(number, piece) ==
    number = [n \in 0 .. Len(piece) |->
                IF n = 0 THEN 0 ELSE 10 * number[n - 1] + piece[n]]

\* atoi() returns an integer.
LEMMA AtoiInteger ==
    ASSUME NEW piece \in Seq(Int)
    PROVE  Atoi(piece) \in Int
<1> DEFINE step == [p \in (1 .. Len(piece)) \X Int |-> 10 * p[2] + piece[p[1]]]
<1>1. Len(piece) \in Nat /\ \A i \in 1 .. Len(piece) : piece[i] \in Int
  OBVIOUS
<1>2. \A i \in 1 .. Len(piece), v \in Int : step[<<i, v>>] = 10 * v + piece[i]
  OBVIOUS
<1> HIDE DEF step
<1>3. Stepwise(step, Len(piece), Int)
  <2> SUFFICES ASSUME NEW i \in 1 .. Len(piece), NEW v \in Int PROVE step[<<i, v>>] \in Int
    BY DEF Stepwise
  <2>1. piece[i] \in Int /\ step[<<i, v>>] = 10 * v + piece[i]
    BY <1>1, <1>2
  <2> QED
    BY <2>1
<1>4. PICK h : Iterates(h, step, 0, Len(piece), Int)
  <2>1. 0 \in Int
    OBVIOUS
  <2> QED
    BY <1>1, <1>3, <2>1, Iteration
<1>5. Reads(h, piece)
  <2>1. ASSUME NEW n \in 0 .. Len(piece)
        PROVE  h[n] = IF n = 0 THEN 0 ELSE 10 * h[n - 1] + piece[n]
    <3>1. CASE n = 0
      BY <1>4, <3>1 DEF Iterates
    <3>2. CASE n # 0
      <4>1. n \in 1 .. Len(piece) /\ n - 1 \in 0 .. Len(piece)
        BY <1>1, <3>2
      <4>2. h[n] = step[<<n, h[n - 1]>>] /\ h[n - 1] \in Int
        BY <1>4, <4>1 DEF Iterates
      <4> QED
        BY <1>2, <3>2, <4>1, <4>2
    <3> QED
      BY <3>1, <3>2
  <2>2. h = [n \in 0 .. Len(piece) |-> h[n]]
    BY <1>4 DEF Iterates
  <2> QED
    BY <2>1, <2>2 DEF Reads
<1> DEFINE number == CHOOSE f : Reads(f, piece)
<1>6. Reads(number, piece)
  BY <1>5
<1>7. Atoi(piece) = number[Len(piece)]
  BY DEF Atoi, Reads
<1> HIDE DEF number
<1> DEFINE wrong == {n \in 0 .. Len(piece) : number[n] \notin Int}
<1>8. wrong = {}
  <2> SUFFICES ASSUME wrong # {} PROVE FALSE
    OBVIOUS
  <2>1. wrong \in SUBSET Nat
    BY <1>1
  <2>2. PICK n \in wrong : \A k \in wrong : n <= k
    BY <2>1, LeastNumber
  <2>3. n \in 0 .. Len(piece) /\ number[n] \notin Int
    BY <2>2
  <2>4. number[n] = IF n = 0 THEN 0 ELSE 10 * number[n - 1] + piece[n]
    BY <1>6, <2>3 DEF Reads
  <2>5. n # 0
    BY <2>3, <2>4
  <2>6. n - 1 \in 0 .. Len(piece) /\ ~(n <= n - 1) /\ n \in 1 .. Len(piece)
    BY <1>1, <2>3, <2>5
  <2>7. number[n - 1] \in Int
    BY <2>2, <2>6
  <2> QED
    BY <1>1, <2>3, <2>4, <2>5, <2>6, <2>7
<1> QED
  BY <1>1, <1>7, <1>8

\* What the recursive function of FlattenSeq has to satisfy.
Flattens(flat, seqs) ==
    flat = [i \in 1 .. Len(seqs) |-> IF i = 1 THEN seqs[i] ELSE flat[i - 1] \o seqs[i]]

\* FlattenSeq is the last of a chain of concatenations.
LEMMA FlattenSteps ==
    ASSUME NEW T, NEW seqs \in Seq(Seq(T)), Len(seqs) # 0
    PROVE  \E flat \in [1 .. Len(seqs) -> Seq(T)] :
              /\ flat[1] = seqs[1]
              /\ \A i \in 2 .. Len(seqs) : flat[i] = flat[i - 1] \o seqs[i]
              /\ FlattenSeq(seqs) = flat[Len(seqs)]
<1> DEFINE n == Len(seqs) - 1
           step == [p \in (1 .. n) \X Seq(T) |-> p[2] \o seqs[p[1] + 1]]
<1>1. /\ Len(seqs) \in Nat /\ n \in Nat /\ 1 \in 1 .. Len(seqs)
      /\ \A i \in 1 .. Len(seqs) : seqs[i] \in Seq(T)
  OBVIOUS
<1>2. \A i \in 1 .. n, v \in Seq(T) : step[<<i, v>>] = v \o seqs[i + 1]
  OBVIOUS
<1> HIDE DEF step
<1>3. Stepwise(step, n, Seq(T))
  <2> SUFFICES ASSUME NEW i \in 1 .. n, NEW v \in Seq(T) PROVE step[<<i, v>>] \in Seq(T)
    BY DEF Stepwise
  <2>1. i + 1 \in 1 .. Len(seqs)
    BY <1>1
  <2>2. seqs[i + 1] \in Seq(T)
    BY <1>1, <2>1
  <2> QED
    BY <1>2, <2>2, ConcatProperties
<1> HIDE DEF n
<1>4. PICK h : Iterates(h, step, seqs[1], n, Seq(T))
  <2>1. seqs[1] \in Seq(T)
    BY <1>1
  <2> QED
    BY <1>1, <1>3, <2>1, Iteration
<1> DEFINE g == [i \in 1 .. Len(seqs) |-> h[i - 1]]
<1>5. Flattens(g, seqs)
  <2>1. ASSUME NEW i \in 1 .. Len(seqs)
        PROVE  g[i] = IF i = 1 THEN seqs[i] ELSE g[i - 1] \o seqs[i]
    <3>1. CASE i = 1
      BY <1>4, <3>1 DEF Iterates
    <3>2. CASE i # 1
      <4>1. /\ i - 1 \in 1 .. n /\ i - 1 \in 1 .. Len(seqs) /\ (i - 1) - 1 \in 0 .. n
            /\ (i - 1) + 1 = i
        BY <1>1, <3>2 DEF n
      <4>2. h[i - 1] = step[<<i - 1, h[(i - 1) - 1]>>] /\ h[(i - 1) - 1] \in Seq(T)
        BY <1>4, <4>1 DEF Iterates
      <4>3. h[i - 1] = h[(i - 1) - 1] \o seqs[i]
        BY <1>2, <4>1, <4>2
      <4>4. g[i] = h[i - 1] /\ g[i - 1] = h[(i - 1) - 1]
        BY <4>1
      <4> QED
        BY <3>2, <4>3, <4>4
    <3> QED
      BY <3>1, <3>2
  <2>2. g = [i \in 1 .. Len(seqs) |-> g[i]]
    OBVIOUS
  <2> HIDE DEF g
  <2> QED
    BY <2>1, <2>2 DEF Flattens
<1> HIDE DEF g
<1> DEFINE flat == CHOOSE f : Flattens(f, seqs)
<1>6. Flattens(flat, seqs)
  BY <1>5
<1>7. FlattenSeq(seqs) = flat[Len(seqs)]
  BY DEF FlattenSeq, Flattens
<1> HIDE DEF flat
<1>8. \A i \in 1 .. Len(seqs) :
         flat[i] = IF i = 1 THEN seqs[i] ELSE flat[i - 1] \o seqs[i]
  BY <1>6 DEF Flattens
<1> DEFINE wrong == {i \in 1 .. Len(seqs) : flat[i] \notin Seq(T)}
<1>9. wrong = {}
  <2> SUFFICES ASSUME wrong # {} PROVE FALSE
    OBVIOUS
  <2>1. wrong \in SUBSET Nat
    BY <1>1
  <2>2. PICK i \in wrong : \A k \in wrong : i <= k
    BY <2>1, LeastNumber
  <2>3. i \in 1 .. Len(seqs) /\ flat[i] \notin Seq(T) /\ seqs[i] \in Seq(T)
    BY <1>1, <2>2
  <2>4. i # 1
    BY <1>8, <2>3
  <2>5. i - 1 \in 1 .. Len(seqs) /\ ~(i <= i - 1)
    BY <1>1, <2>3, <2>4
  <2>6. flat[i - 1] \in Seq(T)
    BY <2>2, <2>5
  <2>7. flat[i] = flat[i - 1] \o seqs[i]
    BY <1>8, <2>3, <2>4
  <2> QED
    BY <2>3, <2>6, <2>7, ConcatProperties
<1>10. \A i \in 1 .. Len(seqs) : flat[i] \in Seq(T)
  BY <1>9
<1>11. flat \in [1 .. Len(seqs) -> Seq(T)]
  BY <1>6, <1>10 DEF Flattens
<1>12. \A i \in 2 .. Len(seqs) : i \in 1 .. Len(seqs) /\ i # 1
  BY <1>1
<1>13. /\ flat[1] = seqs[1]
       /\ \A i \in 2 .. Len(seqs) : flat[i] = flat[i - 1] \o seqs[i]
  BY <1>1, <1>8, <1>12
<1> QED
  BY <1>7, <1>11, <1>13

\* Flattening sequences of sequences gives a sequence of what they hold.
LEMMA FlattenType ==
    ASSUME NEW T, NEW seqs \in Seq(Seq(T))
    PROVE  FlattenSeq(seqs) \in Seq(T)
<1>1. CASE Len(seqs) = 0
  <2>1. FlattenSeq(seqs) = seqs
    BY <1>1 DEF FlattenSeq
  <2>2. seqs = << >>
    BY <1>1
  <2> QED
    BY <2>1, <2>2
<1>2. CASE Len(seqs) # 0
  <2>1. Len(seqs) \in 1 .. Len(seqs)
    BY <1>2
  <2> QED
    <3>1. \E flat \in [1 .. Len(seqs) -> Seq(T)] : FlattenSeq(seqs) = flat[Len(seqs)]
      BY <1>2, FlattenSteps, Zenon
    <3> QED
      BY <2>1, <3>1
<1> QED
  BY <1>1, <1>2

\* Flattening sequences of one element each gives the sequence of these elements.
LEMMA FlattenSingles ==
    ASSUME NEW T, NEW f \in Seq(T)
    PROVE  FlattenSeq([k \in DOMAIN f |-> <<f[k]>>]) = f
<1> DEFINE seqs == [k \in DOMAIN f |-> <<f[k]>>]
<1>1. /\ Len(f) \in Nat /\ DOMAIN f = 1 .. Len(f)
      /\ \A k \in 1 .. Len(f) : f[k] \in T
  OBVIOUS
<1>2. seqs \in Seq(Seq(T)) /\ Len(seqs) = Len(f)
      /\ \A k \in 1 .. Len(f) : seqs[k] = <<f[k]>>
  BY <1>1
<1> HIDE DEF seqs
<1>3. CASE Len(f) = 0
  <2>1. FlattenSeq(seqs) = seqs
    BY <1>2, <1>3 DEF FlattenSeq
  <2>2. seqs = << >> /\ f = << >>
    BY <1>2, <1>3
  <2> QED
    BY <2>1, <2>2 DEF seqs
<1>4. CASE Len(f) # 0
  <2>1. PICK flat \in [1 .. Len(f) -> Seq(T)] :
            /\ flat[1] = seqs[1]
            /\ \A i \in 2 .. Len(f) : flat[i] = flat[i - 1] \o seqs[i]
            /\ FlattenSeq(seqs) = flat[Len(f)]
    <3>1. Len(seqs) # 0
      BY <1>2, <1>4
    <3>2. \E flat \in [1 .. Len(seqs) -> Seq(T)] :
              /\ flat[1] = seqs[1]
              /\ \A i \in 2 .. Len(seqs) : flat[i] = flat[i - 1] \o seqs[i]
              /\ FlattenSeq(seqs) = flat[Len(seqs)]
      BY <1>2, <3>1, FlattenSteps, Zenon
    <3> QED
      BY <1>2, <3>2
  <2> DEFINE Right(i) == Len(flat[i]) = i /\ \A k \in 1 .. i : flat[i][k] = f[k]
             wrong == {i \in 1 .. Len(f) : ~Right(i)}
  <2>2. wrong = {}
    <3> SUFFICES ASSUME wrong # {} PROVE FALSE
      OBVIOUS
    <3>1. wrong \in SUBSET Nat
      BY <1>1
    <3>2. PICK i \in wrong : \A k \in wrong : i <= k
      BY <3>1, LeastNumber
    <3>3. i \in 1 .. Len(f) /\ ~Right(i)
      BY <3>2
    <3>4. i # 1
      <4> SUFFICES ASSUME i = 1 PROVE FALSE
        OBVIOUS
      <4>1. flat[1] = <<f[1]>>
        BY <1>2, <2>1, <3>3
      <4> QED
        BY <3>3, <4>1
    <3>5. i - 1 \in 1 .. Len(f) /\ ~(i <= i - 1) /\ i \in 2 .. Len(f) /\ i - 1 \in Nat
      BY <1>1, <3>3, <3>4
    <3>6. Right(i - 1)
      BY <3>2, <3>5
    <3>7. flat[i] = flat[i - 1] \o <<f[i]>>
      BY <1>2, <2>1, <3>3, <3>5
    <3>8. /\ flat[i - 1] \in Seq(T) /\ Len(flat[i - 1]) = i - 1 /\ <<f[i]>> \in Seq(T)
          /\ Len(<<f[i]>>) = 1 /\ <<f[i]>>[1] = f[i]
      BY <1>1, <2>1, <3>3, <3>5, <3>6
    <3>9. Len(flat[i]) = i
      BY <3>3, <3>7, <3>8, ConcatProperties
    <3>10. \A k \in 1 .. i : flat[i][k] = f[k]
      <4> SUFFICES ASSUME NEW k \in 1 .. i PROVE flat[i][k] = f[k]
        OBVIOUS
      <4>1. flat[i][k] = IF k <= i - 1 THEN flat[i - 1][k] ELSE <<f[i]>>[k - (i - 1)]
        BY <3>3, <3>7, <3>8, ConcatProperties
      <4>2. CASE k = i
        <5>1. k - (i - 1) = 1 /\ ~(k <= i - 1)
          BY <3>3, <4>2
        <5> QED
          BY <3>8, <4>1, <4>2, <5>1
      <4>3. CASE k # i
        <5>1. k \in 1 .. i - 1 /\ k <= i - 1
          BY <3>3, <4>3
        <5> QED
          BY <3>6, <4>1, <5>1
      <4> QED
        BY <4>2, <4>3
    <3> QED
      BY <3>3, <3>9, <3>10
  <2>3. Len(f) \in 1 .. Len(f)
    BY <1>1, <1>4
  <2>4. Right(Len(f)) /\ flat[Len(f)] \in Seq(T)
    BY <2>1, <2>2, <2>3
  <2>5. flat[Len(f)] = f
    BY <2>4, SeqEqual
  <2> QED
    BY <2>1, <2>5 DEF seqs
<1> QED
  BY <1>3, <1>4

LEMMA MinOfTwo ==
    ASSUME NEW a \in Int, NEW b \in Int
    PROVE  Min({a, b}) = IF a <= b THEN a ELSE b
<1> DEFINE m == IF a <= b THEN a ELSE b
<1>1. m \in {a, b} /\ \A y \in {a, b} : m <= y
  OBVIOUS
<1>2. \A x \in {a, b} : (\A y \in {a, b} : x <= y) => x = m
  OBVIOUS
<1> HIDE DEF m
<1>3. Min({a, b}) = m
  BY <1>1, <1>2 DEF Min
<1> QED
  BY <1>3 DEF m

\* The pieces of a line are parts of it ...
LEMMA PieceType ==
    ASSUME NEW line \in Seq(Int)
    PROVE  Pieces(line) \in Seq(Seq(Int))
<1> DEFINE n == (Len(line) \div Fgets) + 1
<1>1. Len(line) \in Nat /\ n \in Nat /\ 8 * (n - 1) <= Len(line)
  BY DEF Fgets
<1>2. ASSUME NEW i \in 1 .. n
      PROVE  SubSeq(line, (i - 1) * Fgets + 1, Min({i * Fgets, Len(line)})) \in Seq(Int)
  <2>1. /\ (i - 1) * 8 \in Nat /\ (i - 1) * 8 <= Len(line) /\ i * 8 \in Nat
        /\ i * 8 >= (i - 1) * 8
    BY <1>1
  <2> DEFINE first == (i - 1) * 8 + 1
             last == Min({i * 8, Len(line)})
  <2>2. last = IF i * 8 <= Len(line) THEN i * 8 ELSE Len(line)
    <3>1. \A a, b \in Int : Min({a, b}) = IF a <= b THEN a ELSE b
      BY MinOfTwo
    <3>2. i * 8 \in Int /\ Len(line) \in Int
      BY <1>1, <2>1
    <3> QED
      BY <3>1, <3>2, Zenon
  <2> HIDE DEF last
  <2>3. first \in 1 .. Len(line) + 1 /\ last \in first - 1 .. Len(line)
    BY <1>1, <2>1, <2>2
  <2>4. SubSeq(line, first, last) \in Seq(Int)
    BY <2>3, SubSeqProperties
  <2> QED
    BY <2>4 DEF Fgets, last
<1> DEFINE pieces == [i \in 1 .. n |->
                         SubSeq(line, (i - 1) * Fgets + 1, Min({i * Fgets, Len(line)}))]
<1>3. /\ \A i \in 1 .. n : pieces[i] \in Seq(Int)
      /\ pieces = [i \in 1 .. n |-> pieces[i]]
      /\ Pieces(line) = pieces
  BY <1>2 DEF Pieces
<1> HIDE DEF n, pieces
<1>4. pieces \in [1 .. n -> Seq(Int)]
  BY <1>3
<1>5. pieces \in Seq(Seq(Int))
  <2> DEFINE T == Seq(Int)
  <2> HIDE DEF T
  <2>1. \A f \in [1 .. n -> T] : f \in Seq(T)
    BY <1>1
  <2>2. pieces \in [1 .. n -> T]
    BY <1>4 DEF T
  <2>3. pieces \in Seq(T)
    BY <2>1, <2>2
  <2> QED
    BY <2>3 DEF T
<1> QED
  BY <1>3, <1>5

\* ... and a line of at most seven characters is one piece.
LEMMA OnePiece ==
    ASSUME NEW line \in Seq(Int), Len(line) <= 7
    PROVE  Pieces(line) = <<line>>
<1>1. Len(line) \in Nat /\ Len(line) \div 8 = 0
  OBVIOUS
<1>2. Min({8, Len(line)}) = Len(line)
  BY <1>1, MinOfTwo
<1>3. SubSeq(line, 1, Len(line)) = line
  OBVIOUS
<1>4. /\ (Len(line) \div 8) + 1 = 1 /\ 1 .. 1 = {1}
      /\ (1 - 1) * 8 + 1 = 1 /\ 1 * 8 = 8
  BY <1>1
<1>5. Pieces(line) = [i \in {1} |->
         SubSeq(line, (i - 1) * 8 + 1, Min({i * 8, Len(line)}))]
  BY <1>4 DEF Pieces, Fgets
<1>6. Pieces(line) = [i \in {1} |-> line]
  BY <1>2, <1>3, <1>4, <1>5
<1> QED
  BY <1>4, <1>6

LEMMA FilePieces ==
    ASSUME NEW f \in Seq(Seq(Int))
    PROVE  PiecesOf(f) \in Seq(Seq(Int))
<1> DEFINE seqs == [k \in DOMAIN f |-> Pieces(f[k])]
<1>1. Len(f) \in Nat /\ DOMAIN f = 1 .. Len(f)
      /\ \A k \in 1 .. Len(f) : f[k] \in Seq(Int)
  OBVIOUS
<1>2. \A k \in 1 .. Len(f) : Pieces(f[k]) \in Seq(Seq(Int))
  BY <1>1, PieceType
<1>3. seqs \in Seq(Seq(Seq(Int)))
  BY <1>1, <1>2
<1> HIDE DEF seqs
<1>4. FlattenSeq(seqs) \in Seq(Seq(Int))
  BY <1>3, FlattenType
<1> QED
  BY <1>4 DEF PiecesOf, seqs

\* main() takes six integers from a file, or none ...
LEMMA SixValues ==
    ASSUME NEW f \in Seq(Seq(Int)), ReadConfig(f) # Rejected
    PROVE  /\ ReadConfig(f) \in [1 .. 6 -> Int]
           /\ ReadConfig(f) = [i \in DOMAIN PiecesOf(f) |-> Atoi(PiecesOf(f)[i])]
<1> DEFINE pieces == PiecesOf(f)
<1>1. pieces \in Seq(Seq(Int))
  BY FilePieces
<1> HIDE DEF pieces
<1>2. Len(pieces) = 6 /\ ReadConfig(f) = [i \in DOMAIN pieces |-> Atoi(pieces[i])]
  BY DEF ReadConfig, pieces
<1>3. DOMAIN pieces = 1 .. 6 /\ \A i \in 1 .. 6 : pieces[i] \in Seq(Int)
  <2>1. Len(pieces) = 6
    BY <1>2
  <2>2. pieces \in [1 .. Len(pieces) -> Seq(Int)]
    BY <1>1, LenProperties
  <2> QED
    BY <2>1, <2>2
<1>4. \A i \in 1 .. 6 : Atoi(pieces[i]) \in Int
  BY <1>3, AtoiInteger
<1>5. ReadConfig(f) \in [1 .. 6 -> Int]
  BY <1>2, <1>3, <1>4
<1> QED
  BY <1>2, <1>5 DEF pieces

\* ... and they are what the file says when every line fits into one piece.
LEMMA ReadAsMeant ==
    ASSUME NEW f \in Seq(Seq(Int)), ReadConfig(f) # Rejected,
           \A k \in DOMAIN f : Len(f[k]) <= 7
    PROVE  ReadConfig(f) = Meant(f)
<1>1. \A k \in DOMAIN f : f[k] \in Seq(Int)
  OBVIOUS
<1>2. \A k \in DOMAIN f : Pieces(f[k]) = <<f[k]>>
  BY <1>1, OnePiece
<1>3. [k \in DOMAIN f |-> Pieces(f[k])] = [k \in DOMAIN f |-> <<f[k]>>]
  BY <1>2
<1>4. FlattenSeq([k \in DOMAIN f |-> <<f[k]>>]) = f
  BY FlattenSingles
<1>5. PiecesOf(f) = f
  BY <1>3, <1>4 DEF PiecesOf
<1> QED
  BY <1>5, SixValues DEF Meant

\* The files are what these lemmas are about.
LEMMA FileType ==
    ASSUME NEW f \in Files
    PROVE  f \in Seq(Seq(Int))
<1> DEFINE Characters == 0 .. 9 \cup {NotADigit}
<1>1. f \in Seq(Seq(Characters))
  BY FilesAssumption
<1>2. Characters \subseteq Int
  BY DEF NotADigit
<1> HIDE DEF Characters
<1>3. Seq(Characters) \subseteq Seq(Int)
  BY <1>2, SeqMonotonic
<1> QED
  BY <1>1, <1>3, SeqMonotonic

---------------------------------------------------------------------------
\* WHAT THE DEFINITIONS MEAN

LEMMA ConstantFacts ==
    /\ Nobody \notin Backoffices /\ Platform \notin Backoffices /\ Nobody # Platform
    /\ Nobody \notin Mobiles /\ IsFiniteSet(Mobiles) /\ Cardinality(Mobiles) \in Nat
    /\ MaxStarts \in Nat
BY LifecycleAssumption, FS_CardinalityType DEF Nobody, Platform

\* A segment that exists is never taken for none.
LEMMA SegmentsExist == NoSegment \notin Segments
<1> SUFFICES ASSUME NoSegment \in Segments PROVE FALSE
  OBVIOUS
<1>1. << >> \in [Positions -> Mobiles \cup {Nobody}]
  BY DEF NoSegment, Segments
<1>2. DOMAIN << >> = Positions /\ 1 \in Positions
  BY <1>1, ConstantFacts DEF Positions
<1>3. DOMAIN << >> = {}
  OBVIOUS
<1> QED
  BY <1>2, <1>3

\* What is known of the configuration once it is read.
LEMMA ConfigFacts ==
    ASSUME Configured, pc \notin {"down", "log", "config"}
    PROVE  /\ file \in Files /\ config \in [1 .. 6 -> Int]
           /\ AUTH_SERVERS \in Int /\ TotalSize \in Int /\ TotalSize = SizeFor(file)
<1>1. file \in Files /\ config = ReadConfig(file) /\ config # Rejected
  BY DEF Configured
<1>2. config \in [1 .. 6 -> Int]
  BY <1>1, FileType, SixValues
<1>3. config[1] \in Int /\ config[3] \in Int
  BY <1>2
<1> QED
  BY <1>1, <1>2, <1>3 DEF AUTH_SERVERS, MOBILE_USERS, TotalSize, SizeFor

\* What SmSegment makes is a segment with no accounts.
LEMMA NewSegment ==
    ASSUME Configured, pc \notin {"down", "log", "config"},
           NEW s, s = [size |-> TotalSize, file |-> file, users |-> 0,
                       mobile |-> [i \in Positions |-> Nobody]]
    PROVE  s \in Segments /\ s.size = SizeFor(s.file) /\ s.users = 0
BY ConfigFacts DEF Segments

LEMMA RegisteredBound ==
    ASSUME TypeOK
    PROVE  /\ IsFiniteSet(registered) /\ Cardinality(registered) \in Nat
           /\ Cardinality(registered) <= Cardinality(Mobiles)
<1>1. registered \in SUBSET Mobiles
  BY DEF TypeOK
<1> QED
  BY <1>1, ConstantFacts, FS_Subset, FS_CardinalityType

LEMMA IInvInit == Init => IInv
<1> SUFFICES ASSUME Init PROVE IInv
  OBVIOUS
<1>1. TypeOK
  <2>1. segment.users \in 0 .. Cardinality(Mobiles) + 1 /\ starts \in 0 .. MaxStarts
    BY ConstantFacts DEF Init, NoSegment
  <2>2. file \in Files \cup {<< >>} /\ semOwner \in {Nobody, Platform} \cup Backoffices
    BY DEF Init
  <2> QED
    BY <2>1, <2>2 DEF Init, TypeOK, Starting, Closing
<1>2. Configured /\ SegmentTrue
  BY DEF Init, Configured, SegmentTrue
<1>3. AccountsKept
  BY FS_EmptySet DEF Init, AccountsKept, NoSegment
<1>4. Owners /\ Remains /\ StartRecovers
  BY ConstantFacts DEF Init, Owners, Remains, StartRecovers, Running, Closing
<1> QED
  BY <1>1, <1>2, <1>3, <1>4 DEF IInv

---------------------------------------------------------------------------
\* STEPS

LEMMA ConfiguredStep == IInv /\ [Next]_vars => Configured'
<1> SUFFICES ASSUME IInv, [Next]_vars PROVE Configured'
  OBVIOUS
<1>1. TypeOK /\ Configured
  BY DEF IInv
<1>2. CASE SmStart
  BY <1>1, <1>2 DEF SmStart, Goto, Configured
<1>3. CASE SmOpenLog
  BY <1>1, <1>3 DEF SmOpenLog, Configured
<1>4. CASE SmConfigure
  BY <1>1, <1>4 DEF SmConfigure, Configured
<1>5. CASE SmSegment
  BY <1>1, <1>5 DEF SmSegment, Configured
<1>6. CASE Start /\ ~SmStart /\ ~SmOpenLog /\ ~SmConfigure /\ ~SmSegment
  BY <1>1, <1>6
  DEF Start, OpenSemaphore, SmMessageQueue, ArmFlags, ArmPipes, Goto, Configured
<1>7. CASE Close \/ Crash \/ Interrupted
  BY <1>1, <1>7
  DEF Close, CloseMessageQueue, CloseSegment, ClosePipes, CloseLog, Crash, Interrupted, Goto,
      Configured
<1>8. ASSUME UNCHANGED platformVars PROVE Configured'
  BY <1>1, <1>8 DEF Configured, platformVars
<1>9. Start \/ Close \/ Crash \/ Interrupted \/ UNCHANGED platformVars
  BY DEF Next, vars, BackupFlag, Poll, MobileStart, Register, MobileEnd, BackofficeStart,
         BackofficeEnd, BackofficeEof
<1> QED
  BY <1>2, <1>3, <1>4, <1>5, <1>6, <1>7, <1>8, <1>9

\* The steps that touch the segment or what is registered in it.
SegmentSteps == SmSegment \/ ArmFlags \/ CloseSegment \/ BackupFlag
                \/ \E m \in Mobiles : Register(m)

LEMMA OtherSteps ==
    ASSUME [Next]_vars, ~SegmentSteps
    PROVE  UNCHANGED <<segment, aliased, registered>>
BY DEF SegmentSteps, Next, vars, historyVars, Start, SmStart, SmOpenLog, SmConfigure,
       OpenSemaphore, SmMessageQueue, ArmPipes, Crash, Interrupted, Close, CloseMessageQueue,
       ClosePipes, CloseLog, Poll, MobileStart, MobileEnd, BackofficeStart, BackofficeEnd,
       BackofficeEof

LEMMA SegmentStep == IInv /\ [Next]_vars => SegmentTrue'
<1> SUFFICES ASSUME IInv, [Next]_vars PROVE SegmentTrue'
  OBVIOUS
<1>1. TypeOK /\ Configured /\ SegmentTrue /\ AccountsKept
  BY DEF IInv
<1>2. CASE SmSegment
  <2>1. CASE segment # NoSegment
    BY <1>1, <1>2, <2>1 DEF SmSegment, SegmentTrue
  <2>2. CASE segment = NoSegment
    BY <1>1, <1>2, <2>2, NewSegment DEF SmSegment, SegmentTrue
  <2> QED
    BY <2>1, <2>2
<1>3. CASE ArmFlags \/ BackupFlag
  <2>1. segment # NoSegment
    BY <1>1, <1>3 DEF TypeOK, ArmFlags, BackupFlag, Goto
  <2>2. segment \in Segments /\ segment.size = SizeFor(segment.file)
    BY <1>1, <2>1 DEF SegmentTrue
  <2>3. PICK n \in Nat : segment' = [segment EXCEPT !.users = n]
    BY <1>3, <2>2 DEF ArmFlags, BackupFlag, Segments
  <2> QED
    BY <2>2, <2>3 DEF SegmentTrue, Segments
<1>4. CASE CloseSegment
  BY <1>4 DEF CloseSegment, SegmentTrue
<1>5. ASSUME NEW m \in Mobiles, Register(m) PROVE SegmentTrue'
  <2>1. segment # NoSegment
    BY <1>1, <1>5 DEF TypeOK, Register
  <2>2. segment \in Segments /\ segment.size = SizeFor(segment.file)
    BY <1>1, <2>1 DEF SegmentTrue
  <2>3. segment' = [segment EXCEPT !.mobile[segment.users + 1] = m, !.users = @ + 1]
    BY <1>5 DEF Register
  <2>4. /\ segment.users \in Nat /\ segment.mobile \in [Positions -> Mobiles \cup {Nobody}]
        /\ segment.size \in Int /\ segment.file \in Files
    BY <2>2 DEF Segments
  <2>5. segment' = [segment EXCEPT !.mobile = [segment.mobile EXCEPT ![segment.users + 1] = m],
                                   !.users = segment.users + 1]
    BY <2>2, <2>3 DEF Segments
  <2> DEFINE accounts == [segment.mobile EXCEPT ![segment.users + 1] = m]
             number   == segment.users + 1
  <2>6. accounts \in [Positions -> Mobiles \cup {Nobody}] /\ number \in Nat
    <3>1. m \in Mobiles \cup {Nobody}
      BY <1>5
    <3>2. accounts \in [Positions -> Mobiles \cup {Nobody}]
      BY <2>4, <3>1
    <3> QED
      BY <2>4, <3>2
  <2>7. segment' = [segment EXCEPT !.mobile = accounts, !.users = number]
    BY <2>5
  <2> HIDE DEF accounts, number
  <2>8. /\ segment'.size = segment.size /\ segment'.file = segment.file
        /\ segment' \in Segments
    BY <2>2, <2>6, <2>7 DEF Segments
  <2> QED
    BY <2>2, <2>8 DEF SegmentTrue
<1>6. CASE ~SegmentSteps
  BY <1>1, <1>6, OtherSteps DEF SegmentTrue
<1> QED
  BY <1>2, <1>3, <1>4, <1>5, <1>6 DEF SegmentSteps

\* One more account, for a mobile that has none.
LEMMA RegisterKeeps ==
    ASSUME IInv, NEW m \in Mobiles, Register(m)
    PROVE  AccountsKept' /\ segment'.users <= Cardinality(Mobiles) + 1 /\ segment' # NoSegment
<1>1. TypeOK /\ SegmentTrue /\ AccountsKept
  BY DEF IInv
<1>2. segment # NoSegment /\ segment \in Segments
  BY <1>1 DEF Register, TypeOK, SegmentTrue
<1> DEFINE n == segment.users
           k == Cardinality(registered)
<1>3. /\ IsFiniteSet(registered) /\ k \in Nat /\ m \notin registered
      /\ registered' = registered \cup {m} /\ registered' \in SUBSET Mobiles
  <2>1. IsFiniteSet(registered) /\ k \in Nat
    BY <1>1, RegisteredBound
  <2>2. m \notin registered /\ registered' = registered \cup {m}
    BY <1>1 DEF Register, AccountsKept
  <2>3. registered \subseteq Mobiles
    BY <1>1 DEF TypeOK
  <2> QED
    BY <2>1, <2>2, <2>3
<1>4. Cardinality(registered') = k + 1 /\ k + 1 <= Cardinality(Mobiles)
  <2>1. Cardinality(registered \cup {m}) = k + 1
    BY <1>3, FS_AddElement
  <2>2. Cardinality(registered \cup {m}) <= Cardinality(Mobiles)
    BY <1>3, ConstantFacts, FS_Subset
  <2> QED
    BY <1>3, <2>1, <2>2
<1>5. n \in Nat /\ n <= k + 1 /\ segment.mobile \in [Positions -> Mobiles \cup {Nobody}]
  BY <1>1, <1>2 DEF AccountsKept, Segments
<1> HIDE DEF k
<1>6. n + 1 \in Positions /\ 1 .. n \subseteq Positions
  BY <1>3, <1>4, <1>5, ConstantFacts DEF Positions
<1>7. segment' = [segment EXCEPT !.mobile[n + 1] = m, !.users = @ + 1]
  BY DEF Register
<1>8. /\ segment'.users = n + 1
      /\ segment'.mobile = [segment.mobile EXCEPT ![n + 1] = m]
  BY <1>2, <1>7 DEF Segments
<1>9. /\ segment'.mobile[n + 1] = m
      /\ \A i \in 1 .. n : segment'.mobile[i] = segment.mobile[i]
  BY <1>5, <1>6, <1>8
<1>10. 1 .. segment'.users = (1 .. n) \cup {n + 1}
  BY <1>5, <1>8
<1>11. segment' # NoSegment
  BY <1>8, <1>5, <1>6, <1>2 DEF NoSegment
<1>12. ASSUME ~aliased'
       PROVE  /\ segment'.users = Cardinality(registered')
              /\ \A x \in registered' : \E i \in 1 .. segment'.users : segment'.mobile[i] = x
              /\ \A i \in 1 .. segment'.users : segment'.mobile[i] \in registered'
              /\ \A i, j \in 1 .. segment'.users :
                    segment'.mobile[i] = segment'.mobile[j] => i = j
  <2>1. /\ n = Cardinality(registered)
        /\ \A x \in registered : \E i \in 1 .. n : segment.mobile[i] = x
        /\ \A i \in 1 .. n : segment.mobile[i] \in registered
        /\ \A i, j \in 1 .. n : segment.mobile[i] = segment.mobile[j] => i = j
    BY <1>1, <1>2, <1>12 DEF AccountsKept, Register
  <2>2. segment'.users = Cardinality(registered')
    BY <1>4, <1>8, <2>1 DEF k
  <2> HIDE DEF n
  <2>3. \A x \in registered' : \E i \in 1 .. segment'.users : segment'.mobile[i] = x
    BY <1>3, <1>9, <1>10, <2>1
  <2>4. \A i \in 1 .. segment'.users : segment'.mobile[i] \in registered'
    BY <1>3, <1>9, <1>10, <2>1
  <2>5. \A i, j \in 1 .. segment'.users : segment'.mobile[i] = segment'.mobile[j] => i = j
    BY <1>3, <1>9, <1>10, <2>1
  <2> QED
    BY <2>2, <2>3, <2>4, <2>5
<1>13. \A x \in asking' \cup registered' : mobile'[x] # "new"
  <2>1. /\ mobile' = [mobile EXCEPT ![m] = IF mobile[m] = "waiting" THEN "logged" ELSE mobile[m]]
        /\ mobile \in [Mobiles -> {"new", "waiting", "logged", "ended"}]
        /\ asking \subseteq Mobiles /\ registered \subseteq Mobiles /\ mobile[m] # "new"
        /\ asking' \subseteq asking
    BY <1>1 DEF Register, TypeOK, AccountsKept
  <2> QED
    BY <1>1, <1>3, <2>1 DEF AccountsKept
<1>14. asking' \cap registered' = {}
  BY <1>1, <1>3 DEF Register, AccountsKept
<1>15. pc' \in {"pipes", "running"} /\ AUTH_SERVERS' >= MAX_SIZE => aliased'
  BY <1>1 DEF Register, platformVars, AccountsKept, AUTH_SERVERS, MAX_SIZE
<1>16. segment'.users <= Cardinality(registered') + 1
  BY <1>3, <1>4, <1>5, <1>8
<1> QED
  BY <1>4, <1>3, <1>5, <1>8, <1>11, <1>12, <1>13, <1>14, <1>15, <1>16, ConstantFacts
  DEF AccountsKept

LEMMA AccountsStep ==
    IInv /\ [Next]_vars => AccountsKept' /\ segment'.users \in 0 .. Cardinality(Mobiles) + 1
<1> SUFFICES ASSUME IInv, [Next]_vars
             PROVE  AccountsKept' /\ segment'.users \in 0 .. Cardinality(Mobiles) + 1
  OBVIOUS
<1>1. /\ TypeOK /\ Configured /\ SegmentTrue /\ AccountsKept
      /\ segment.users \in 0 .. Cardinality(Mobiles) + 1
      /\ IsFiniteSet(registered) /\ Cardinality(registered) \in Nat
      /\ Cardinality(Mobiles) \in Nat
  BY RegisteredBound, ConstantFacts DEF IInv, TypeOK
<1>2. CASE SmSegment
  <2>1. /\ UNCHANGED <<registered, aliased, asking, mobile, config>>
        /\ pc' \notin {"pipes", "running"}
    BY <1>2 DEF SmSegment, clientVars
  <2>2. CASE segment # NoSegment
    BY <1>1, <1>2, <2>1, <2>2 DEF SmSegment, AccountsKept
  <2>3. CASE segment = NoSegment
    <3>1. segment' \in Segments /\ segment'.users = 0
      BY <1>1, <1>2, <2>3, NewSegment DEF SmSegment
    <3>2. registered = {} /\ ~aliased /\ segment' # NoSegment
      BY <1>1, <2>3, <3>1, SegmentsExist DEF AccountsKept
    <3>3. Cardinality(registered') = 0 /\ 1 .. segment'.users = {}
      BY <2>1, <3>1, <3>2, FS_EmptySet
    <3> QED
      BY <1>1, <2>1, <3>1, <3>2, <3>3 DEF AccountsKept
  <2> QED
    BY <2>2, <2>3
<1>3. CASE ArmFlags
  <2>1. /\ UNCHANGED <<registered, asking, mobile, config>>
        /\ segment # NoSegment /\ segment \in Segments /\ AUTH_SERVERS \in Int
        /\ aliased' = (aliased \/ AUTH_SERVERS >= MAX_SIZE)
    BY <1>1, <1>3, ConfigFacts DEF ArmFlags, Goto, clientVars, TypeOK, SegmentTrue
  <2>2. CASE AUTH_SERVERS >= MAX_SIZE
    <3>1. PICK n \in {0, 1} : segment' = [segment EXCEPT !.users = n]
      BY <1>3, <2>1, <2>2 DEF ArmFlags, MAX_SIZE
    <3>2. segment' \in Segments /\ segment'.users \in {0, 1}
      BY <2>1, <3>1 DEF Segments
    <3>3. segment' # NoSegment /\ aliased'
      BY <2>1, <2>2, <3>2, SegmentsExist
    <3> QED
      BY <1>1, <2>1, <3>2, <3>3 DEF AccountsKept
  <2>3. CASE ~(AUTH_SERVERS >= MAX_SIZE)
    <3>1. segment' = [segment EXCEPT !.users = segment.users]
      BY <1>3, <2>1, <2>3 DEF ArmFlags, MAX_SIZE
    <3>4. aliased' <=> aliased
      BY <2>1, <2>3, Zenon
    <3>2. segment' = segment
      BY <2>1, <3>1 DEF Segments
    <3>3. ~(AUTH_SERVERS' >= MAX_SIZE)
      BY <2>1, <2>3 DEF AUTH_SERVERS
    <3> QED
      BY <1>1, <2>1, <3>2, <3>3, <3>4 DEF AccountsKept
  <2> QED
    BY <2>2, <2>3
<1>4. CASE BackupFlag
  <2>1. /\ UNCHANGED <<registered, aliased, asking, mobile, config, pc>>
        /\ segment # NoSegment /\ segment \in Segments /\ AUTH_SERVERS = MAX_SIZE
    BY <1>1, <1>4 DEF BackupFlag, clientVars, historyVars, platformVars, TypeOK, SegmentTrue
  <2>2. aliased'
    BY <1>1, <1>4, <2>1 DEF BackupFlag, AccountsKept, MAX_SIZE
  <2>3. PICK n \in {0, 1} : segment' = [segment EXCEPT !.users = n]
    BY <1>4 DEF BackupFlag
  <2>4. segment'.users \in {0, 1} /\ segment' # NoSegment
    BY <2>1, <2>3, SegmentsExist DEF Segments
  <2> QED
    BY <1>1, <2>1, <2>2, <2>4 DEF AccountsKept
<1>5. CASE CloseSegment
  <2>1. Cardinality({}) = 0
    BY FS_EmptySet
  <2>2. asking = {}
    BY <1>1, <1>5 DEF CloseSegment, Goto, TypeOK
  <2> QED
    BY <1>1, <1>5, <2>1, <2>2 DEF CloseSegment, Goto, AccountsKept, NoSegment, clientVars
<1>6. ASSUME NEW m \in Mobiles, Register(m)
      PROVE  AccountsKept' /\ segment'.users \in 0 .. Cardinality(Mobiles) + 1
  <2>1. AccountsKept' /\ segment'.users <= Cardinality(Mobiles) + 1
    BY <1>6, RegisterKeeps
  <2>2. segment' # NoSegment
    BY <1>6, RegisterKeeps
  <2>3. segment'.users \in Nat
    BY <1>6, <2>2, SegmentStep DEF SegmentTrue, Segments
  <2> QED
    BY <1>1, <2>1, <2>3
<1>7. CASE ~SegmentSteps
  <2>1. UNCHANGED <<segment, aliased, registered>>
    BY <1>7, OtherSteps
  <2>2. /\ \A m \in asking' \cup registered' : mobile'[m] # "new"
        /\ asking' \cap registered' = {}
    <3>1. ASSUME NEW m \in Mobiles, MobileStart(m)
          PROVE  /\ \A x \in asking' \cup registered' : mobile'[x] # "new"
                 /\ asking' \cap registered' = {}
      <4>1. /\ mobile[m] = "new" /\ mobile' = [mobile EXCEPT ![m] = "waiting"]
            /\ asking' \subseteq asking \cup {m}
            /\ mobile \in [Mobiles -> {"new", "waiting", "logged", "ended"}]
            /\ asking \subseteq Mobiles /\ registered \subseteq Mobiles
        BY <1>1, <3>1 DEF MobileStart, TypeOK
      <4> QED
        BY <1>1, <2>1, <4>1 DEF AccountsKept
    <3>2. ASSUME NEW m \in Mobiles, MobileEnd(m)
          PROVE  /\ \A x \in asking' \cup registered' : mobile'[x] # "new"
                 /\ asking' \cap registered' = {}
      <4>1. /\ mobile' = [mobile EXCEPT ![m] = "ended"] /\ asking' = asking
            /\ mobile \in [Mobiles -> {"new", "waiting", "logged", "ended"}]
            /\ asking \subseteq Mobiles /\ registered \subseteq Mobiles
        BY <1>1, <3>2 DEF MobileEnd, TypeOK
      <4> QED
        BY <1>1, <2>1, <4>1 DEF AccountsKept
    <3>3. ASSUME mobile' = mobile, asking' \subseteq asking
          PROVE  /\ \A x \in asking' \cup registered' : mobile'[x] # "new"
                 /\ asking' \cap registered' = {}
      BY <1>1, <2>1, <3>3 DEF AccountsKept
    <3>4. \/ \E m \in Mobiles : MobileStart(m) \/ MobileEnd(m)
          \/ mobile' = mobile /\ asking' \subseteq asking
      BY <1>7
      DEF SegmentSteps, Next, vars, clientVars, Start, SmStart, SmOpenLog, SmConfigure,
          OpenSemaphore, SmMessageQueue, ArmPipes, Crash, Interrupted, Close,
          CloseMessageQueue, ClosePipes, CloseLog, Poll, BackofficeStart, BackofficeEnd,
          BackofficeEof
    <3> QED
      BY <3>1, <3>2, <3>3, <3>4
  <2>3. pc' \in {"pipes", "running"} /\ AUTH_SERVERS' >= MAX_SIZE => aliased'
    <3>1. CASE ArmPipes
      BY <1>1, <2>1, <3>1 DEF ArmPipes, Goto, AccountsKept, AUTH_SERVERS
    <3>2. CASE ~ArmPipes
      <4>1. pc' \notin {"pipes", "running"} \/ UNCHANGED <<pc, config>>
        BY <1>7, <3>2
        DEF SegmentSteps, Next, vars, platformVars, Start, SmStart, SmOpenLog, SmConfigure,
            OpenSemaphore, SmMessageQueue, ArmPipes, Crash, Interrupted, Close,
            CloseMessageQueue, ClosePipes, CloseLog, Poll, MobileStart, MobileEnd,
            BackofficeStart, BackofficeEnd, BackofficeEof, Goto
      <4> QED
        BY <1>1, <2>1, <4>1 DEF AccountsKept, AUTH_SERVERS
    <3> QED
      BY <3>1, <3>2
  <2> QED
    BY <1>1, <2>1, <2>2, <2>3 DEF AccountsKept
<1> QED
  BY <1>2, <1>3, <1>4, <1>5, <1>6, <1>7 DEF SegmentSteps

LEMMA OwnersStep == IInv /\ [Next]_vars => Owners'
<1> SUFFICES ASSUME IInv, [Next]_vars PROVE Owners'
  OBVIOUS
<1>1. /\ TypeOK /\ Owners
      /\ backoffice \in [Backoffices -> {"new", "running", "ended"}]
  BY DEF IInv, TypeOK
<1>2. ASSUME NEW who, UnlinkSem(who), backoffice' = backoffice, who \notin Backoffices
      PROVE  Owners'
  BY <1>1, <1>2, ConstantFacts DEF UnlinkSem, Owners, Running
<1>3. CASE SmStart \/ Interrupted \/ CloseLog
  BY <1>1, <1>2, <1>3, ConstantFacts DEF SmStart, Interrupted, CloseLog, clientVars
<1>4. CASE SmOpenLog
  BY <1>1, <1>4, ConstantFacts DEF SmOpenLog, clientVars, historyVars, Owners, Running
<1>5. CASE SmConfigure
  <2>1. CASE UnlinkSem(Platform)
    BY <1>1, <1>2, <1>5, <2>1, ConstantFacts DEF SmConfigure, clientVars
  <2>2. CASE UNCHANGED <<semOwner, displaced>>
    BY <1>1, <1>5, <2>2 DEF SmConfigure, clientVars, Owners, Running
  <2> QED
    BY <1>5, <2>1, <2>2 DEF SmConfigure
<1>6. ASSUME NEW b \in Backoffices, BackofficeStart(b) PROVE Owners'
  BY <1>1, <1>6, ConstantFacts
  DEF BackofficeStart, platformVars, historyVars, Owners, Running
<1>7. ASSUME NEW b \in Backoffices, BackofficeEnd(b) PROVE Owners'
  BY <1>1, <1>7, ConstantFacts DEF BackofficeEnd, UnlinkSem, platformVars, Owners, Running
<1>8. ASSUME NEW b \in Backoffices, BackofficeEof(b) PROVE Owners'
  BY <1>1, <1>8, ConstantFacts
  DEF BackofficeEof, platformVars, historyVars, Owners, Running
<1>9. ASSUME UNCHANGED <<semOwner, backoffice, displaced>>, pc' # "log" \/ pc' = pc PROVE Owners'
  BY <1>1, <1>9 DEF Owners, Running
<1>10. \/ SmStart \/ Interrupted \/ CloseLog \/ SmOpenLog \/ SmConfigure
       \/ \E b \in Backoffices : BackofficeStart(b) \/ BackofficeEnd(b) \/ BackofficeEof(b)
       \/ UNCHANGED <<semOwner, backoffice, displaced>> /\ (pc' # "log" \/ pc' = pc)
  BY DEF Next, vars, platformVars, clientVars, historyVars, Start, SmSegment, OpenSemaphore,
         SmMessageQueue, ArmFlags, ArmPipes, Crash, Close, CloseMessageQueue, CloseSegment,
         ClosePipes, BackupFlag, Poll, MobileStart, Register, MobileEnd, Goto
<1> QED
  BY <1>3, <1>4, <1>5, <1>6, <1>7, <1>8, <1>9, <1>10

LEMMA RemainsStep == IInv /\ [Next]_vars => Remains'
<1> SUFFICES ASSUME IInv, [Next]_vars PROVE Remains'
  OBVIOUS
<1> USE DEF Goto, Closing
<1>1. TypeOK /\ Remains /\ Owners
  BY DEF IInv
<1>2. CASE SmStart \/ Interrupted
  <2>1. CASE SmStart
    BY <1>1, <2>1, ConstantFacts DEF SmStart, UnlinkSem, Remains
  <2>2. CASE Interrupted
    <3>1. /\ pc' = "down" /\ semOwner' = Nobody /\ UNCHANGED <<names, segment, msgQueue, recreated>>
          /\ ~abandoned' => ~abandoned /\ pc \in {"config", "segment"}
      BY <2>2 DEF Interrupted, UnlinkSem
    <3> QED
      BY <1>1, <3>1, ConstantFacts DEF Remains
  <2> QED
    BY <1>2, <2>1, <2>2
<1>3. CASE SmOpenLog
  BY <1>1, <1>3 DEF SmOpenLog, historyVars, Remains, Owners
<1>4. CASE SmConfigure
  BY <1>1, <1>4, ConstantFacts DEF SmConfigure, UnlinkSem, historyVars, Remains
<1>5. CASE SmSegment
  BY <1>1, <1>5 DEF SmSegment, Remains
<1>6. CASE \/ OpenSemaphore("shmSem", "shm_sem", "msgSem")
           \/ OpenSemaphore("msgSem", "sem_msg_queue", "msgGet")
           \/ SmMessageQueue \/ ArmFlags \/ ArmPipes
  BY <1>1, <1>6 DEF OpenSemaphore, SmMessageQueue, ArmFlags, ArmPipes, Remains
<1>7. CASE Crash
  BY <1>1, <1>7 DEF Crash, Remains
<1>8. CASE CloseMessageQueue
  BY <1>1, <1>8 DEF CloseMessageQueue, Remains
<1>9. CASE CloseSegment
  BY <1>1, <1>9 DEF CloseSegment, Remains, TypeOK, Names
<1>10. CASE ClosePipes
  BY <1>1, <1>10 DEF ClosePipes, historyVars, Remains
<1>11. CASE CloseLog
  BY <1>1, <1>11, ConstantFacts DEF CloseLog, UnlinkSem, Remains
<1>12. CASE Poll
  BY <1>1, <1>12 DEF Poll, platformVars, Remains
<1>13. CASE BackupFlag \/ \E m \in Mobiles : Register(m)
  BY <1>1, <1>13 DEF BackupFlag, Register, platformVars, Remains
<1>14. ASSUME UNCHANGED <<pc, abandoned, names, segment, msgQueue, recreated>>,
              semOwner' # Platform \/ semOwner' = semOwner
       PROVE  Remains'
  BY <1>1, <1>14 DEF Remains
<1>15. ASSUME \/ \E m \in Mobiles : MobileStart(m) \/ MobileEnd(m)
              \/ \E b \in Backoffices :
                    BackofficeStart(b) \/ BackofficeEnd(b) \/ BackofficeEof(b)
              \/ UNCHANGED vars
       PROVE  /\ UNCHANGED <<pc, abandoned, names, segment, msgQueue, recreated>>
              /\ semOwner' # Platform \/ semOwner' = semOwner
  BY <1>15, ConstantFacts
  DEF MobileStart, MobileEnd, BackofficeStart, BackofficeEnd, BackofficeEof, UnlinkSem,
      platformVars, historyVars, vars
<1> QED
  BY <1>2, <1>3, <1>4, <1>5, <1>6, <1>7, <1>8, <1>9, <1>10, <1>11, <1>12, <1>13, <1>14, <1>15
  DEF Next, Start, Close

LEMMA RecoverStep == IInv /\ [Next]_vars => StartRecovers'
<1> SUFFICES ASSUME IInv, [Next]_vars PROVE StartRecovers'
  OBVIOUS
<1>1. /\ TypeOK /\ Configured /\ SegmentTrue /\ Owners /\ StartRecovers
      /\ backoffice \in [Backoffices -> {"new", "running", "ended"}]
  BY DEF IInv, TypeOK
<1>2. \A b \in Backoffices : backoffice[b] # "new" => backoffice'[b] # "new"
  BY <1>1
  DEF Next, vars, clientVars, Start, SmStart, SmOpenLog, SmConfigure, SmSegment,
      OpenSemaphore, SmMessageQueue, ArmFlags, ArmPipes, Crash, Interrupted, Close,
      CloseMessageQueue, CloseSegment, ClosePipes, CloseLog, BackupFlag, Poll, MobileStart,
      Register, MobileEnd, BackofficeStart, BackofficeEnd, BackofficeEof
<1>3. CASE SmOpenLog
  <2>1. semOwner # Nobody => semOwner \in Backoffices
    BY <1>1, <1>3 DEF SmOpenLog, TypeOK, Owners
  <2> QED
    BY <1>1, <1>2, <1>3, <2>1 DEF SmOpenLog, Owners, StartRecovers
<1>4. CASE SmSegment
  <2>1. CASE outcome' = "segment" /\ pc' = "down"
    <3>1. segment'.size < TotalSize /\ abandoned' /\ file' = file
      BY <1>4, <2>1 DEF SmSegment
    <3>2. segment' # NoSegment => segment'.size = SizeFor(segment'.file)
      BY SegmentStep DEF SegmentTrue
    <3>3. TotalSize \in Int /\ TotalSize = SizeFor(file)
      BY <1>1, <1>4, ConfigFacts DEF SmSegment
    <3>4. segment' # NoSegment
      BY <1>1, <1>4, NewSegment, SegmentsExist DEF SmSegment
    <3> QED
      BY <1>2, <2>1, <3>1, <3>2, <3>3, <3>4 DEF StartRecovers
  <2>2. CASE ~(outcome' = "segment" /\ pc' = "down")
    BY <1>1, <1>2, <1>4, <2>2 DEF SmSegment, StartRecovers
  <2> QED
    BY <2>1, <2>2
<1>5. ASSUME outcome' \notin {"no log", "segment", "semaphore"} PROVE StartRecovers'
  BY <1>5 DEF StartRecovers
<1>6. ASSUME outcome' = outcome,
             pc' # "down" \/ UNCHANGED <<pc, abandoned, segment, file>>
      PROVE  StartRecovers'
  BY <1>1, <1>2, <1>6 DEF StartRecovers
<1>7. ASSUME ~SmOpenLog, ~SmSegment
      PROVE  \/ outcome' \notin {"no log", "segment", "semaphore"}
             \/ /\ outcome' = outcome
                /\ pc' # "down" \/ UNCHANGED <<pc, abandoned, segment, file>>
  BY <1>7
  DEF Next, vars, platformVars, historyVars, Start, SmStart, SmConfigure, OpenSemaphore,
      SmMessageQueue, ArmFlags, ArmPipes, Crash, Interrupted, Close, CloseMessageQueue,
      CloseSegment, ClosePipes, CloseLog, BackupFlag, Poll, MobileStart, Register,
      MobileEnd, BackofficeStart, BackofficeEnd, BackofficeEof, Goto
<1> QED
  BY <1>3, <1>4, <1>5, <1>6, <1>7

\* The segment that is there is large enough for the file the platform runs with.
LEMMA SizeStep ==
    IInv /\ [Next]_vars =>
       (pc' \in {"shmSem", "msgSem", "msgGet", "flags", "pipes", "running"} =>
           segment' # NoSegment /\ segment'.size >= TotalSize')
<1> DEFINE Up == {"shmSem", "msgSem", "msgGet", "flags", "pipes", "running"}
<1> SUFFICES ASSUME IInv, [Next]_vars, pc' \in Up
             PROVE  segment' # NoSegment /\ segment'.size >= TotalSize'
  OBVIOUS
<1>1. TypeOK /\ Configured /\ SegmentTrue /\ AccountsKept
  BY DEF IInv
<1>2. CASE SmSegment
  <2>1. TotalSize' = TotalSize /\ TotalSize \in Int /\ ~(segment'.size < TotalSize)
    BY <1>1, <1>2, ConfigFacts DEF SmSegment, TotalSize, AUTH_SERVERS, MOBILE_USERS
  <2>2. segment' # NoSegment
    BY <1>1, <1>2, NewSegment, SegmentsExist DEF SmSegment
  <2>3. segment'.size \in Int
    BY <2>2, SegmentStep DEF SegmentTrue, Segments
  <2> QED
    BY <2>1, <2>2, <2>3
<1>3. CASE ~SegmentSteps
  <2>1. segment' = segment
    BY <1>3, OtherSteps
  <2>2. pc \in Up /\ config' = config
    BY <1>1, <1>3
    DEF SegmentSteps, TypeOK, Starting, Closing, Next, vars, platformVars, Start, SmStart,
        SmOpenLog, SmConfigure, OpenSemaphore, SmMessageQueue, ArmPipes, Crash, Interrupted,
        Close, CloseMessageQueue, ClosePipes, CloseLog, Poll, MobileStart, MobileEnd,
        BackofficeStart, BackofficeEnd, BackofficeEof, Goto
  <2> QED
    BY <1>1, <2>1, <2>2 DEF TypeOK, TotalSize, AUTH_SERVERS, MOBILE_USERS
<1>4. CASE ArmFlags \/ BackupFlag \/ \E m \in Mobiles : Register(m)
  <2>1. pc \in Up /\ config' = config
    BY <1>4 DEF ArmFlags, BackupFlag, Register, Goto, platformVars
  <2>2. segment # NoSegment /\ segment.size >= TotalSize /\ segment \in Segments
    BY <1>1, <2>1 DEF TypeOK, SegmentTrue
  <2>3. segment'.size = segment.size
    BY <1>4, <2>2 DEF ArmFlags, BackupFlag, Register, Segments
  <2>4. segment' # NoSegment
    <3>1. ASSUME NEW m \in Mobiles, Register(m) PROVE segment' # NoSegment
      BY <3>1, RegisterKeeps
    <3>2. CASE ArmFlags \/ BackupFlag
      <4>1. PICK n \in Nat : segment' = [segment EXCEPT !.users = n]
        BY <2>2, <3>2 DEF ArmFlags, BackupFlag, Segments
      <4>2. segment' \in Segments
        BY <2>2, <4>1 DEF Segments
      <4> QED
        BY <4>2, SegmentsExist
    <3> QED
      BY <1>4, <3>1, <3>2
  <2> QED
    BY <2>1, <2>2, <2>3, <2>4 DEF TotalSize, AUTH_SERVERS, MOBILE_USERS
<1>5. CASE CloseSegment
  BY <1>5 DEF CloseSegment, Goto
<1> QED
  BY <1>2, <1>3, <1>4, <1>5 DEF SegmentSteps

\* The types of what the platform has.
LEMMA PlainTypes ==
    IInv /\ [Next]_vars =>
       /\ pc' \in {"down", "running"} \cup Starting \cup Closing
       /\ file' \in Files \cup {<< >>} /\ starts' \in 0 .. MaxStarts
       /\ outcome' \in {"none", "closed", "crash", "config", "no log", "segment", "interrupted"}
       /\ semOwner' \in {Nobody, Platform} \cup Backoffices
       /\ names' \subseteq Names /\ displaced' \subseteq Backoffices
<1> DEFINE Plain ==
               /\ pc \in {"down", "running"} \cup Starting \cup Closing
               /\ file \in Files \cup {<< >>} /\ starts \in 0 .. MaxStarts
               /\ outcome \in {"none", "closed", "crash", "config", "no log", "segment",
                               "interrupted"}
               /\ semOwner \in {Nobody, Platform} \cup Backoffices
               /\ names \subseteq Names /\ displaced \subseteq Backoffices
<1> SUFFICES ASSUME IInv, [Next]_vars PROVE Plain'
  BY DEF Starting, Closing, Names
<1>1. Plain
  BY DEF IInv, TypeOK
<1> USE DEF Goto, UnlinkSem, clientVars, historyVars, platformVars, Starting, Closing
<1>2. CASE SmStart
  <2>1. starts \in 0 .. MaxStarts /\ starts < MaxStarts /\ starts' = starts + 1
    BY <1>1, <1>2 DEF SmStart
  <2>2. starts' \in 0 .. MaxStarts
    BY <2>1, ConstantFacts
  <2>3. displaced' \subseteq Backoffices
    BY <1>1, <1>2 DEF SmStart
  <2> QED
    BY <1>1, <1>2, <2>2, <2>3 DEF SmStart
<1>3. CASE SmOpenLog \/ SmConfigure \/ SmSegment
  BY <1>1, <1>3 DEF SmOpenLog, SmConfigure, SmSegment
<1>4. CASE \/ OpenSemaphore("shmSem", "shm_sem", "msgSem")
           \/ OpenSemaphore("msgSem", "sem_msg_queue", "msgGet")
           \/ SmMessageQueue \/ ArmPipes \/ ArmFlags
  BY <1>1, <1>4 DEF OpenSemaphore, SmMessageQueue, ArmFlags, ArmPipes, Names
<1>5. CASE Close
  BY <1>1, <1>5 DEF Close, CloseMessageQueue, CloseSegment, ClosePipes, CloseLog, Names
<1>6. CASE Crash \/ Interrupted
  BY <1>1, <1>6 DEF Crash, Interrupted, Names
<1>7. ASSUME NEW b \in Backoffices, BackofficeStart(b) \/ BackofficeEnd(b) \/ BackofficeEof(b)
      PROVE  Plain'
  BY <1>1, <1>7 DEF BackofficeStart, BackofficeEnd, BackofficeEof, Names
<1>8. CASE \/ BackupFlag \/ Poll \/ UNCHANGED vars
           \/ \E m \in Mobiles : MobileStart(m) \/ Register(m) \/ MobileEnd(m)
  <2>1. UNCHANGED <<pc, file, starts, outcome, semOwner, names, displaced>>
    BY <1>8 DEF BackupFlag, Poll, vars, MobileStart, Register, MobileEnd
  <2> QED
    BY <1>1, <2>1 DEF Names
<1> HIDE DEF Plain
<1> QED
  BY <1>2, <1>3, <1>4, <1>5, <1>6, <1>7, <1>8 DEF Next, Start

\* The types of what is true or false.
LEMMA FlagTypes ==
    IInv /\ [Next]_vars =>
       /\ msgQueue' \in BOOLEAN /\ orphans' \in BOOLEAN /\ abandoned' \in BOOLEAN
       /\ recreated' \in BOOLEAN /\ aliased' \in BOOLEAN
<1> SUFFICES ASSUME IInv, [Next]_vars
             PROVE  /\ msgQueue' \in BOOLEAN /\ orphans' \in BOOLEAN /\ abandoned' \in BOOLEAN
                    /\ recreated' \in BOOLEAN /\ aliased' \in BOOLEAN
  OBVIOUS
<1>1. /\ msgQueue \in BOOLEAN /\ orphans \in BOOLEAN /\ abandoned \in BOOLEAN
      /\ recreated \in BOOLEAN /\ aliased \in BOOLEAN
  BY DEF IInv, TypeOK
<1>2. /\ msgQueue' \in {msgQueue, TRUE, FALSE} /\ orphans' \in {orphans, TRUE}
      /\ recreated' \in {recreated, TRUE, FALSE}
      /\ abandoned' = abandoned \/ abandoned' \in BOOLEAN
      /\ aliased' = aliased \/ aliased' \in BOOLEAN
  <2> USE DEF Next, vars, platformVars, clientVars, historyVars, Start, SmStart, SmOpenLog,
              SmConfigure, SmSegment, OpenSemaphore, SmMessageQueue, ArmFlags, ArmPipes, Crash,
              Interrupted, Close, CloseMessageQueue, CloseSegment, ClosePipes, CloseLog,
              BackupFlag, Poll, MobileStart, Register, MobileEnd, BackofficeStart,
              BackofficeEnd, BackofficeEof
  <2>1. msgQueue' \in {msgQueue, TRUE, FALSE}
    OBVIOUS
  <2>2. orphans' \in {orphans, TRUE}
    OBVIOUS
  <2>3. recreated' \in {recreated, TRUE, FALSE}
    OBVIOUS
  <2>4. abandoned' = abandoned \/ abandoned' \in BOOLEAN
    OBVIOUS
  <2>5. aliased' = aliased \/ aliased' \in BOOLEAN
    OBVIOUS
  <2> QED
    BY ONLY <2>1, <2>2, <2>3, <2>4, <2>5
<1> QED
  BY <1>1, <1>2, Zenon

\* The types of what mobiles and backoffices do.
LEMMA ClientTypes ==
    IInv /\ [Next]_vars =>
       /\ mobile' \in [Mobiles -> {"new", "waiting", "logged", "ended"}]
       /\ asking' \subseteq Mobiles /\ (asking' # {} => pc' = "running")
       /\ backoffice' \in [Backoffices -> {"new", "running", "ended"}]
       /\ registered' \subseteq Mobiles
<1> SUFFICES ASSUME IInv, [Next]_vars
             PROVE  /\ mobile' \in [Mobiles -> {"new", "waiting", "logged", "ended"}]
                    /\ asking' \subseteq Mobiles /\ (asking' # {} => pc' = "running")
                    /\ backoffice' \in [Backoffices -> {"new", "running", "ended"}]
                    /\ registered' \subseteq Mobiles
  OBVIOUS
<1>1. /\ mobile \in [Mobiles -> {"new", "waiting", "logged", "ended"}]
      /\ asking \subseteq Mobiles /\ (asking # {} => pc = "running")
      /\ backoffice \in [Backoffices -> {"new", "running", "ended"}]
      /\ registered \subseteq Mobiles
  BY DEF IInv, TypeOK
<1> USE DEF clientVars, platformVars, historyVars, Goto
<1>2. ASSUME NEW m \in Mobiles, MobileStart(m) \/ Register(m) \/ MobileEnd(m)
      PROVE  /\ mobile' \in [Mobiles -> {"new", "waiting", "logged", "ended"}]
             /\ asking' \subseteq Mobiles /\ (asking' # {} => pc' = "running")
             /\ backoffice' = backoffice /\ registered' \subseteq Mobiles
  BY <1>1, <1>2 DEF MobileStart, Register, MobileEnd
<1>3. ASSUME NEW b \in Backoffices, BackofficeStart(b) \/ BackofficeEnd(b) \/ BackofficeEof(b)
      PROVE  /\ backoffice' \in [Backoffices -> {"new", "running", "ended"}]
             /\ UNCHANGED <<mobile, asking, registered, pc>>
  BY <1>1, <1>3 DEF BackofficeStart, BackofficeEnd, BackofficeEof
<1>4. CASE \/ Start \/ Crash \/ Interrupted \/ Close \/ BackupFlag \/ Poll \/ UNCHANGED vars
  <2> USE DEF Start, SmStart, SmOpenLog, SmConfigure, SmSegment, OpenSemaphore,
              SmMessageQueue, ArmFlags, ArmPipes, Crash, Interrupted, Close,
              CloseMessageQueue, CloseSegment, ClosePipes, CloseLog, BackupFlag, Poll, vars
  <2>1. UNCHANGED <<mobile, backoffice>> /\ registered' \in {registered, {}}
    BY <1>4
  <2>2. asking' \in {asking, {}}
    BY <1>4
  <2>3. pc' = pc \/ pc # "running" \/ asking' = {}
    BY <1>4
  <2> QED
    BY <1>1, <2>1, <2>2, <2>3
<1> QED
  BY <1>1, <1>2, <1>3, <1>4 DEF Next

LEMMA TypeStep == IInv /\ [Next]_vars => TypeOK'
<1> SUFFICES ASSUME IInv, [Next]_vars PROVE TypeOK'
  OBVIOUS
<1>1. segment'.users \in 0 .. Cardinality(Mobiles) + 1
  BY AccountsStep
<1>2. pc' \in {"shmSem", "msgSem", "msgGet", "flags", "pipes", "running"} =>
         segment' # NoSegment /\ segment'.size >= TotalSize'
  BY SizeStep
<1>3. Starting' = Starting /\ Closing' = Closing
  BY DEF Starting, Closing
<1> QED
  BY <1>1, <1>2, <1>3, PlainTypes, FlagTypes, ClientTypes DEF TypeOK

LEMMA IInvStep == IInv /\ [Next]_vars => IInv'
BY TypeStep, ConfiguredStep, SegmentStep, AccountsStep, OwnersStep, RemainsStep, RecoverStep
DEF IInv

---------------------------------------------------------------------------
\* THE THEOREMS

\* What survives a crash, who has the name "sem" and what each step of a start or a close
\* finds: together inductive.
THEOREM Inductive == Spec => []IInv
BY IInvInit, IInvStep, PTL DEF Spec

\* The types, and a running platform always has a segment as large as its file asks for.
THEOREM TypeCorrect == Spec => []TypeOK
<1>1. IInv => TypeOK
  BY DEF IInv
<1> QED
  BY <1>1, Inductive, PTL

\* Whatever crashes have left behind, a start fails only for the reasons named there.
THEOREM StartsRecover == Spec => []StartRecovers
<1>1. IInv => StartRecovers
  BY DEF IInv
<1> QED
  BY <1>1, Inductive, PTL

\* A registered mobile keeps its one account through any number of crashes and restarts.
THEOREM AccountsOutliveCrashes == Spec => []AccountsSurvive
<1>1. IInv => AccountsSurvive
  <2> SUFFICES ASSUME IInv, segment # NoSegment, ~aliased, NEW m \in registered
               PROVE  Cardinality({i \in 1 .. segment.users : segment.mobile[i] = m}) = 1
    BY DEF AccountsSurvive
  <2>1. PICK i \in 1 .. segment.users : segment.mobile[i] = m
    BY DEF IInv, AccountsKept
  <2>2. \A j \in 1 .. segment.users : segment.mobile[j] = segment.mobile[i] => j = i
    BY <2>1 DEF IInv, AccountsKept
  <2>3. {j \in 1 .. segment.users : segment.mobile[j] = m} = {i}
    BY <2>1, <2>2
  <2> QED
    BY <2>3, FS_Singleton
<1> QED
  BY <1>1, Inductive, PTL

\* A platform that has closed leaves nothing behind, whatever earlier runs had left.
THEOREM CloseLeavesNothing == Spec => []NothingLeft
<1>1. IInv => NothingLeft
  BY DEF IInv, Remains, NothingLeft
<1> QED
  BY <1>1, Inductive, PTL

\* Two backoffices run only when the name of one of them was taken away.
THEOREM BackofficesExclude == Spec => []OneBackoffice
<1>1. IInv => OneBackoffice
  BY DEF IInv, Owners, OneBackoffice
<1> QED
  BY <1>1, Inductive, PTL

\* A platform that runs works with the six values that its file says, digit by digit, when
\* every line fits into one fgets().
THEOREM ConfigRead == Spec => []ConfigFaithful
<1>1. IInv => ConfigFaithful
  <2> SUFFICES ASSUME IInv, pc = "running", \A k \in DOMAIN file : Len(file[k]) <= 7
               PROVE  config = Meant(file)
    BY DEF ConfigFaithful
  <2>1. file \in Files /\ config = ReadConfig(file) /\ config # Rejected
    BY DEF IInv, Configured
  <2>2. file \in Seq(Seq(Int))
    BY <2>1, FileType
  <2> QED
    BY <2>1, <2>2, ReadAsMeant
<1> QED
  BY <1>1, Inductive, PTL

=============================================================================
