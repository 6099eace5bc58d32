-------------------------- MODULE AccountsProofs --------------------------
(***************************************************************************)
(* Theorems about module Accounts, for every set of mobiles, their         *)
(* arguments, any number of engines and every capacity of the message      *)
(* queue: TypeOK, OneAccountEach, AlertsOnce and BooksBalance follow from  *)
(* one inductive invariant.                                                *)
(***************************************************************************)
EXTENDS Accounts, SequenceTheorems, SumProofs

---------------------------------------------------------------------------
\* THE INDUCTIVE INVARIANT

\* Where the Monitor Engine's index may be.
Scanning ==
    /\ monitorPc = "outside" => index = 1
    /\ monitorPc \in {"acquire", "send", "mark"} => index <= Len(accounts)

\* One process at most sends to the message queue.
OneSender ==
    /\ monitorPc = "send" => msgQueueSem = 0 /\ \A x \in Reporters : reporterPc[x] # "send"
    /\ \A x \in Reporters : reporterPc[x] = "send" =>
          msgQueueSem = 0 /\ \A y \in Reporters : reporterPc[y] = "send" => x = y

\* A mobile registers once.
Registering ==
    /\ \A r \in inFlight : r.type = "REGISTER" =>
          r.number = 0 /\ r.from \notin registered /\ mobilePc[r.from] # "new"
    /\ \A m \in registered : mobilePc[m] # "new"

\* A request is granted once: those that are still to come have other numbers.
Numbered ==
    /\ IsFiniteSet(granted)
    /\ inFlight \cap granted = {}
    /\ \A r \in inFlight : r.type \in Services => r.number <= asked[r.from]
    /\ \A r \in granted : /\ r.type \in Services /\ r.from \in registered
                          /\ r.number <= asked[r.from]

\* OneAccountEach, account by account.
Owned ==
    /\ \A i \in 1 .. Len(accounts) : accounts[i].mobile_id \in registered
    /\ \A i, j \in 1 .. Len(accounts) : accounts[i].mobile_id = accounts[j].mobile_id => i = j
    /\ \A m \in registered : 0 \notin Triggered(m) =>
          \E i \in 1 .. Len(accounts) : accounts[i].mobile_id = m

\* The alerts of an account have not been overtaken by its plafond, and the one that is
\* being sent is due.
InOrder ==
    /\ \A m \in Mobiles \ registered : alerts[m] = << >>
    /\ \A i \in 1 .. Len(accounts) : \A x \in accounts[i].alert_sent :
          Remaining(accounts[i]) <= x
    /\ monitorPc \in {"acquire", "send"} => Due(accounts[index])
    /\ monitorPc = "mark" => Remaining(accounts[index]) \in {0, 10, 20}

IInv == /\ TypeOK /\ Scanning /\ OneSender /\ Registering /\ Numbered
        /\ Owned /\ InOrder /\ AlertsOnce /\ BooksBalance

---------------------------------------------------------------------------
\* THE PERCENTAGE THAT REMAINS

LEMMA DivisionMonotone ==
    ASSUME NEW a \in Nat, NEW b \in Nat, a <= b, NEW n \in Nat \ {0}
    PROVE  a \div n \in Nat /\ a \div n <= b \div n
<1> DEFINE p == a \div n
           q == b \div n
<1>1. p \in Nat /\ n * p <= a
  OBVIOUS
<1>2. q \in Nat /\ b < n * (q + 1)
  OBVIOUS
<1> HIDE DEF p, q
<1>3. n * p < n * (q + 1)
  <2>1. n * p \in Nat /\ n * (q + 1) \in Nat
    BY <1>1, <1>2
  <2> QED
    BY <1>1, <1>2, <2>1
<1>4. ~(q + 1 <= p)
  <2> SUFFICES ASSUME q + 1 <= p PROVE FALSE
    OBVIOUS
  <2>1. PICK d \in Nat : p = q + 1 + d
    BY <1>1, <1>2
  <2>2. n * p = n * (q + 1) + n * d
    BY <1>2, <2>1
  <2>3. n * d \in Nat /\ n * (q + 1) \in Nat /\ n * p \in Nat
    BY <1>1, <1>2
  <2> QED
    BY <1>3, <2>2, <2>3
<1> QED
  BY <1>1, <1>2, <1>4 DEF p, q

LEMMA RoundedMonotone ==
    ASSUME NEW a \in Nat, NEW b \in Nat, a <= b
    PROVE  Rounded(a) \in Nat /\ Rounded(a) <= Rounded(b)
<1>1. Rounded(a) = IF a > 25 THEN a ELSE IF a > 15 THEN 20 ELSE IF a > 0 THEN 10 ELSE 0
  BY DEF Rounded
<1>2. Rounded(b) = IF b > 25 THEN b ELSE IF b > 15 THEN 20 ELSE IF b > 0 THEN 10 ELSE 0
  BY DEF Rounded
<1> QED
  BY <1>1, <1>2

\* The percentage follows the plafond.
LEMMA RemainingMonotone ==
    ASSUME NEW a \in Account, NEW b \in Account,
           a.initial_plafond = b.initial_plafond, a.current_plafond <= b.current_plafond
    PROVE  Remaining(a) \in Nat /\ Remaining(a) <= Remaining(b)
<1> DEFINE n == a.initial_plafond
           p == a.current_plafond * 100
           q == b.current_plafond * 100
<1>1. n \in Nat \ {0} /\ p \in Nat /\ q \in Nat /\ p <= q
  BY DEF Account
<1>2. Remaining(a) = Rounded(p \div n) /\ Remaining(b) = Rounded(q \div n)
  BY DEF Remaining
<1> HIDE DEF n, p, q
<1>3. p \div n \in Nat /\ q \div n \in Nat /\ p \div n <= q \div n
  BY <1>1, DivisionMonotone
<1> QED
  BY <1>2, <1>3, RoundedMonotone

LEMMA RemainingType ==
    ASSUME NEW a \in Account
    PROVE  Remaining(a) \in Nat
BY RemainingMonotone DEF Account

\* Nothing else of an account counts.
LEMMA RemainingSame ==
    ASSUME NEW a, NEW b, a.initial_plafond = b.initial_plafond,
           a.current_plafond = b.current_plafond
    PROVE  Remaining(a) = Remaining(b)
BY DEF Remaining

---------------------------------------------------------------------------
\* THE DATA OF A SET OF REQUESTS

DataWeight(set) == [r \in set |-> Arguments[r.from].data]

FromMobiles(set) == \A r \in set : r.from \in Mobiles

LEMMA DataTotal ==
    ASSUME NEW set, IsFiniteSet(set), FromMobiles(set)
    PROVE  /\ Weights(DataWeight(set), set)
           /\ DataOf(set) = Total(DataWeight(set), set)
<1>1. Weights(DataWeight(set), set)
  BY ArgumentsAssumption DEF Weights, DataWeight, FromMobiles
<1> DEFINE Satisfies(sum) ==
              sum = [s \in SUBSET set |->
                        IF s = {} THEN 0
                        ELSE Arguments[Pick(s).from].data + sum[s \ {Pick(s)}]]
<1>2. ASSUME NEW sum PROVE Satisfies(sum) <=> Adds(sum, DataWeight(set), set)
  <2>1. \A s \in SUBSET set : s # {} =>
            DataWeight(set)[Pick(s)] = Arguments[Pick(s).from].data
    BY PickIn DEF DataWeight
  <2>2. [s \in SUBSET set |-> IF s = {} THEN 0
                        ELSE Arguments[Pick(s).from].data + sum[s \ {Pick(s)}]]
        = [s \in SUBSET set |-> IF s = {} THEN 0
                        ELSE DataWeight(set)[Pick(s)] + sum[s \ {Pick(s)}]]
    BY <2>1
  <2> QED
    BY <2>2 DEF Adds
<1>3. \A sum : Satisfies(sum) => sum[set] = Total(DataWeight(set), set)
  BY <1>1, <1>2, OnlyTotalsAdd
<1>4. \E sum : Satisfies(sum)
  BY <1>1, <1>2, TotalsAdd
<1>5. DataOf(set) = Total(DataWeight(set), set)
  BY <1>3, <1>4 DEF DataOf, MapThenSumSet, MapThenFoldSet, Pick
<1> QED
  BY <1>1, <1>5

LEMMA DataAdd ==
    ASSUME NEW set, IsFiniteSet(set), FromMobiles(set),
           NEW r, r.from \in Mobiles, r \notin set
    PROVE  DataOf(set \cup {r}) = DataOf(set) + Arguments[r.from].data
<1> DEFINE more == set \cup {r}
<1>1. IsFiniteSet(more) /\ FromMobiles(more)
  BY FS_AddElement DEF FromMobiles
<1>2. DataOf(more) = Total(DataWeight(more), more) /\ Weights(DataWeight(more), more)
  BY <1>1, DataTotal
<1>3. Total(DataWeight(more), more)
         = Total(DataWeight(more), set) + DataWeight(more)[r]
  BY <1>2, TotalAdd
<1>4. Total(DataWeight(more), set) = Total(DataWeight(set), set)
  BY TotalSame DEF DataWeight
<1>5. DataWeight(more)[r] = Arguments[r.from].data
  BY DEF DataWeight
<1> QED
  BY <1>2, <1>3, <1>4, <1>5, DataTotal

LEMMA DataNone == DataOf({}) = 0
BY DataTotal, TotalEmpty, FS_EmptySet DEF FromMobiles

LEMMA DataType ==
    ASSUME NEW set, IsFiniteSet(set), FromMobiles(set)
    PROVE  DataOf(set) \in Nat
BY DataTotal, UnitsFinite

---------------------------------------------------------------------------
\* WHAT A STEP DOES TO THE ACCOUNTS

\* Unless an engine serves a request or the Monitor Engine goes on, nothing of this changes.
LEMMA Writers ==
    ASSUME [Next]_vars
    PROVE  \/ UNCHANGED <<accounts, plafondUsed, requests, monitorPc, index, registered,
                          granted, sinceReset, alerts>>
           \/ \E e \in AuthEngines, r \in inFlight :
                 EngineRegister(e, r) \/ EngineAuthorize(e, r) \/ EngineReset(e, r)
           \/ Monitor
<1> USE DEF MobileRegister, MobileAsk, MobileEnd, MobileRead, BackofficeAsk, BackofficeRead,
            Lose, EngineStats, PeriodicWake, ReporterAcquire, ReporterSend, shmVars,
            monitorVars, grantVars
<1> DEFINE Same == UNCHANGED <<accounts, plafondUsed, requests, monitorPc, index,
                               registered, granted, sinceReset, alerts>>
<1>1. ASSUME NEW m \in Mobiles, Mobile(m) PROVE Same
  BY <1>1 DEF Mobile
<1>2. CASE BackofficeUser
  BY <1>2 DEF BackofficeUser
<1>3. ASSUME NEW r \in inFlight, Lose(r) PROVE Same
  BY <1>3
<1>4. ASSUME NEW e \in AuthEngines, NEW r \in inFlight, EngineStats(e, r) PROVE Same
  BY <1>4
<1>5. CASE PeriodicWake
  BY <1>5
<1>6. ASSUME NEW x \in Reporters, Reporter(x) PROVE Same
  BY <1>6 DEF Reporter
<1>7. CASE UNCHANGED vars
  BY <1>7 DEF vars
<1> HIDE DEF Same
<1> QED
  BY <1>1, <1>2, <1>3, <1>4, <1>5, <1>6, <1>7 DEF Next, Engine, Same

\* A mobile's new account is the last one.
LEMMA RegisterFacts ==
    ASSUME TypeOK, Scanning, Registering, NEW e \in AuthEngines, NEW r \in inFlight,
           EngineRegister(e, r)
    PROVE  /\ monitorPc = "outside" /\ index = 1 /\ UNCHANGED <<monitorPc, index, alerts>>
           /\ UNCHANGED <<plafondUsed, requests, granted, sinceReset>>
           /\ r.from \in Mobiles \ registered /\ registered' = registered \cup {r.from}
           /\ mobilePc[r.from] # "new"
           /\ accounts' \in Seq(Account) /\ Len(accounts') = Len(accounts) + 1
           /\ \A i \in 1 .. Len(accounts) : accounts'[i] = accounts[i]
           /\ LET new == accounts'[Len(accounts) + 1]
              IN  /\ new.mobile_id = r.from /\ new.alert_sent = {}
                  /\ new.initial_plafond = new.current_plafond
<1> DEFINE new == [mobile_id |-> r.from, initial_plafond |-> Arguments[r.from].initial,
                   current_plafond |-> Arguments[r.from].initial, alert_sent |-> {}]
<1>1. r.type = "REGISTER" /\ accounts' = Append(accounts, new) /\ ShmFree
  BY DEF EngineRegister, Serve
<1>2. r \in MobileRequest
  BY <1>1 DEF TypeOK, BackofficeRequest
<1>3. r.from \in Mobiles
  BY <1>2 DEF MobileRequest
<1>4. new \in Account /\ accounts \in Seq(Account)
  BY <1>3, ArgumentsAssumption DEF Account, TypeOK
<1>5. r.from \notin registered /\ mobilePc[r.from] # "new"
  BY <1>1 DEF Registering
<1>6. /\ new.mobile_id = r.from /\ new.alert_sent = {}
      /\ new.initial_plafond = new.current_plafond
  OBVIOUS
<1> HIDE DEF new
<1>7. /\ accounts' \in Seq(Account) /\ Len(accounts') = Len(accounts) + 1
      /\ \A i \in 1 .. Len(accounts) : accounts'[i] = accounts[i]
      /\ accounts'[Len(accounts) + 1] = new
  BY <1>1, <1>4, AppendProperties
<1>8. monitorPc = "outside" /\ index = 1
  BY <1>1 DEF ShmFree, Scanning
<1>9. /\ UNCHANGED <<monitorPc, index, alerts>>
      /\ UNCHANGED <<plafondUsed, requests, granted, sinceReset>>
      /\ registered' = registered \cup {r.from}
  BY DEF EngineRegister, monitorVars
<1> QED
  BY <1>3, <1>5, <1>6, <1>7, <1>8, <1>9

\* What a granted request changes of the account at position i, and in the books.
Charged(i, r) ==
    /\ r \in MobileRequest /\ r.type \in Services /\ accounts[i].mobile_id = r.from
    /\ accounts' \in Seq(Account) /\ Len(accounts') = Len(accounts)
    /\ \A j \in (1 .. Len(accounts)) \ {i} : accounts'[j] = accounts[j]
    /\ accounts'[i].mobile_id = accounts[i].mobile_id
    /\ accounts'[i].initial_plafond = accounts[i].initial_plafond
    /\ accounts'[i].alert_sent = accounts[i].alert_sent
    /\ accounts'[i].current_plafond
          = accounts[i].current_plafond - Arguments[r.from].data
    /\ plafondUsed' = [plafondUsed EXCEPT ![r.type] = @ + Arguments[r.from].data]
    /\ requests' = [requests EXCEPT ![r.type] = @ + 1]
    /\ granted' = granted \cup {r} /\ sinceReset' = sinceReset \cup {r}

LEMMA AuthorizeFacts ==
    ASSUME TypeOK, Scanning, Owned, NEW e \in AuthEngines, NEW r \in inFlight,
           EngineAuthorize(e, r)
    PROVE  /\ monitorPc = "outside" /\ index = 1
           /\ UNCHANGED <<monitorPc, index, alerts, registered>>
           /\ \/ UNCHANGED <<accounts, plafondUsed, requests, granted, sinceReset>>
              \/ \E i \in 1 .. Len(accounts) : Charged(i, r)
<1>1. r.type \in Services /\ ShmFree
  BY DEF EngineAuthorize, Serve
<1>2. monitorPc = "outside" /\ index = 1
  BY <1>1 DEF ShmFree, Scanning
<1>3. UNCHANGED <<monitorPc, index, alerts, registered>>
  BY DEF EngineAuthorize, monitorVars
<1>4. CASE UNCHANGED <<shmVars, granted, sinceReset>>
  BY <1>2, <1>3, <1>4 DEF shmVars
<1>5. CASE /\ Positions(r.from) # {}
           /\ Affordable(Min(Positions(r.from)), Arguments[r.from].data)
           /\ Charge(Min(Positions(r.from)), r)
  <2>1. PICK i \in 1 .. Len(accounts) : accounts[i].mobile_id = r.from
    BY <1>5 DEF Positions
  <2>2. Positions(r.from) = {i}
    BY <2>1 DEF Positions, Owned
  <2>3. Min(Positions(r.from)) = i
    BY <2>1, <2>2 DEF Min
  <2>4. Affordable(i, Arguments[r.from].data) /\ Charge(i, r)
    BY <1>5, <2>3
  <2>5. r \in MobileRequest
    BY <1>1, ArgumentsAssumption DEF TypeOK, BackofficeRequest
  <2>6. Arguments[r.from].data \in Nat \ {0}
    BY <2>5, ArgumentsAssumption DEF MobileRequest
  <2> DEFINE data == Arguments[r.from].data
             left == accounts[i].current_plafond - data
             new  == [accounts[i] EXCEPT !.current_plafond = left]
  <2>7. accounts \in Seq(Account) /\ accounts[i] \in Account
    BY <2>1 DEF TypeOK
  <2>8. left \in Nat
    BY <2>4, <2>6, <2>7 DEF Affordable, Account
  <2>9. accounts' = [accounts EXCEPT ![i] = new]
    BY <2>4 DEF Charge
  <2>10. /\ new \in Account
         /\ new.mobile_id = accounts[i].mobile_id
         /\ new.initial_plafond = accounts[i].initial_plafond
         /\ new.alert_sent = accounts[i].alert_sent
         /\ new.current_plafond = left
    <3> HIDE DEF left
    <3> QED
      BY <2>7, <2>8 DEF Account
  <2> HIDE DEF new
  <2>11. /\ accounts' \in Seq(Account) /\ Len(accounts') = Len(accounts)
         /\ \A j \in (1 .. Len(accounts)) \ {i} : accounts'[j] = accounts[j]
         /\ accounts'[i] = new
    BY <2>1, <2>7, <2>9, <2>10, ExceptSeq
  <2>12. /\ plafondUsed' = [plafondUsed EXCEPT ![r.type] = @ + data]
         /\ requests' = [requests EXCEPT ![r.type] = @ + 1]
         /\ granted' = granted \cup {r} /\ sinceReset' = sinceReset \cup {r}
    BY <2>4 DEF Charge
  <2>13. Charged(i, r)
    BY <1>1, <2>1, <2>5, <2>10, <2>11, <2>12 DEF Charged
  <2> QED
    BY <1>2, <1>3, <2>1, <2>13
<1> QED
  BY <1>4, <1>5 DEF EngineAuthorize

\* An alert below 100% is remembered in its account.
Kept ==
    /\ Remaining(accounts[index]) \in {10, 20}
    /\ accounts' \in Seq(Account) /\ Len(accounts') = Len(accounts)
    /\ \A j \in (1 .. Len(accounts)) \ {index} : accounts'[j] = accounts[j]
    /\ accounts'[index].mobile_id = accounts[index].mobile_id
    /\ accounts'[index].initial_plafond = accounts[index].initial_plafond
    /\ accounts'[index].current_plafond = accounts[index].current_plafond
    /\ accounts'[index].alert_sent
          = accounts[index].alert_sent \cup {Remaining(accounts[index])}

\* At 100% the account is removed.
Removed ==
    /\ Remaining(accounts[index]) = 0
    /\ accounts' \in Seq(Account) /\ Len(accounts') = Len(accounts) - 1
    /\ \A k \in 1 .. Len(accounts) - 1 :
          accounts'[k] = IF k < index THEN accounts[k] ELSE accounts[k + 1]

LEMMA MarkFacts ==
    ASSUME TypeOK, Scanning, InOrder, MonitorMark
    PROVE  /\ monitorPc = "mark" /\ index \in 1 .. Len(accounts)
           /\ monitorPc' = "scan" /\ index' = index + 1
           /\ UNCHANGED <<plafondUsed, requests, registered, granted, sinceReset, alerts>>
           /\ Kept \/ Removed
<1>1. /\ monitorPc = "mark" /\ monitorPc' = "scan" /\ index' = index + 1
      /\ UNCHANGED <<plafondUsed, requests, registered, granted, sinceReset, alerts>>
  BY DEF MonitorMark, grantVars
<1>2. accounts \in Seq(Account) /\ Len(accounts) \in Nat /\ index \in 1 .. Len(accounts)
  BY <1>1 DEF TypeOK, Scanning
<1> DEFINE percent == Remaining(accounts[index])
<1>3. percent \in {0, 10, 20}
  BY <1>1 DEF InOrder
<1>4. CASE percent = 0
  <2>1. accounts' = Without(index)
    BY <1>4 DEF MonitorMark
  <2>2. accounts' = [k \in 1 .. Len(accounts) - 1 |->
                        IF k < index THEN accounts[k] ELSE accounts[k + 1]]
    BY <2>1 DEF Without
  <2>3. \A k \in 1 .. Len(accounts) - 1 :
            (IF k < index THEN accounts[k] ELSE accounts[k + 1]) \in Account
    BY <1>2
  <2>4. Len(accounts) - 1 \in Nat
    BY <1>2
  <2>5. accounts' \in Seq(Account) /\ Len(accounts') = Len(accounts) - 1
    BY <2>2, <2>3, <2>4
  <2> QED
    BY <1>1, <1>2, <1>4, <2>2, <2>5 DEF Removed
<1>5. CASE percent # 0
  <2> DEFINE sent == accounts[index].alert_sent \cup {percent}
             new  == [accounts[index] EXCEPT !.alert_sent = sent]
  <2>1. accounts' = [accounts EXCEPT ![index] = new]
    BY <1>5 DEF MonitorMark
  <2>2. accounts[index] \in Account
    BY <1>2
  <2>3. sent \in SUBSET {10, 20}
    <3> HIDE DEF percent
    <3> QED
      BY <1>3, <1>5, <2>2 DEF Account
  <2>4. /\ new \in Account
        /\ new.mobile_id = accounts[index].mobile_id
        /\ new.initial_plafond = accounts[index].initial_plafond
        /\ new.current_plafond = accounts[index].current_plafond
        /\ new.alert_sent = sent
    <3> HIDE DEF sent
    <3> QED
      BY <2>2, <2>3 DEF Account
  <2> HIDE DEF new
  <2>5. /\ accounts' \in Seq(Account) /\ Len(accounts') = Len(accounts)
        /\ \A j \in (1 .. Len(accounts)) \ {index} : accounts'[j] = accounts[j]
        /\ accounts'[index] = new
    BY <1>2, <2>1, <2>4, ExceptSeq
  <2> QED
    BY <1>1, <1>2, <1>3, <1>5, <2>4, <2>5 DEF Kept
<1> QED
  BY <1>4, <1>5

\* The alert that is sent is due, and the last of its mobile's alerts.
LEMMA SendFacts ==
    ASSUME TypeOK, Scanning, InOrder, MonitorSend
    PROVE  LET m == accounts[index].mobile_id
               x == Remaining(accounts[index])
           IN  /\ monitorPc = "send" /\ monitorPc' = "mark" /\ index' = index
               /\ index \in 1 .. Len(accounts) /\ accounts[index] \in Account
               /\ m \in Mobiles /\ x \in {0, 10, 20} /\ ~AlertSent(accounts[index])
               /\ UNCHANGED <<shmVars, registered, granted, sinceReset>>
               /\ inbox' = [inbox EXCEPT ![m] = Append(inbox[m], x)]
               /\ alerts' = [alerts EXCEPT ![m] = Append(alerts[m], x)]
<1> DEFINE m == accounts[index].mobile_id
           x == Remaining(accounts[index])
<1>1. /\ monitorPc = "send" /\ monitorPc' = "mark" /\ index' = index
      /\ UNCHANGED <<shmVars, registered, granted, sinceReset>>
      /\ inbox' = [inbox EXCEPT ![m] = Append(inbox[m], x)]
      /\ alerts' = [alerts EXCEPT ![m] = Append(alerts[m], x)]
  BY DEF MonitorSend, grantVars
<1>2. accounts \in Seq(Account) /\ index \in 1 .. Len(accounts)
  BY <1>1 DEF TypeOK, Scanning
<1>3. accounts[index] \in Account
  BY <1>2
<1>4. m \in Mobiles
  BY <1>3 DEF Account
<1>5. Due(accounts[index])
  BY <1>1 DEF InOrder
<1>6. x \in {0, 10, 20} /\ ~AlertSent(accounts[index])
  BY <1>5 DEF Due
<1> QED
  BY <1>1, <1>2, <1>3, <1>4, <1>6

\* Triggered(m), of the next state.
TriggeredNext(m) == {alerts'[m][k] : k \in 1 .. Len(alerts'[m])}

LEMMA TriggeredSame ==
    ASSUME NEW m, alerts'[m] = alerts[m]
    PROVE  Triggered(m)' = Triggered(m) /\ TriggeredNext(m) = Triggered(m)
BY DEF Triggered, TriggeredNext

LEMMA TriggeredMore ==
    ASSUME NEW m, NEW x, alerts[m] \in Seq({0, 10, 20}), x \in {0, 10, 20},
           alerts'[m] = Append(alerts[m], x)
    PROVE  /\ Triggered(m)' = Triggered(m) \cup {x}
           /\ TriggeredNext(m) = Triggered(m) \cup {x}
<1>1. /\ Len(alerts'[m]) = Len(alerts[m]) + 1 /\ Len(alerts[m]) \in Nat
      /\ \A k \in 1 .. Len(alerts[m]) : alerts'[m][k] = alerts[m][k]
      /\ alerts'[m][Len(alerts[m]) + 1] = x
  BY AppendProperties
<1>2. 1 .. Len(alerts'[m]) = (1 .. Len(alerts[m])) \cup {Len(alerts[m]) + 1}
  BY <1>1
<1>3. TriggeredNext(m) = Triggered(m) \cup {x}
  BY <1>1, <1>2 DEF Triggered, TriggeredNext
<1> QED
  BY <1>3 DEF Triggered, TriggeredNext

---------------------------------------------------------------------------
\* SCANNING: the Monitor Engine keeps shm_sem, so nobody moves the accounts under it

\* The steps of the Monitor Engine that change neither accounts nor alerts.
LEMMA LookFacts ==
    ASSUME TypeOK, MonitorEnter \/ MonitorScan \/ MonitorAcquire
    PROVE  /\ UNCHANGED <<accounts, plafondUsed, requests, registered, granted, sinceReset,
                          alerts>>
           /\ \/ /\ monitorPc = "outside" /\ monitorPc' = "scan" /\ index' = 1
              \/ /\ monitorPc = "scan" /\ monitorPc' = "outside" /\ index' = 1
              \/ /\ monitorPc = "scan" /\ monitorPc' = "scan" /\ index' = index + 1
                 /\ index <= Len(accounts)
              \/ /\ monitorPc = "scan" /\ monitorPc' = "acquire" /\ index' = index
                 /\ index <= Len(accounts) /\ Due(accounts[index])
              \/ /\ monitorPc = "acquire" /\ monitorPc' = "send" /\ index' = index
BY DEF MonitorEnter, MonitorScan, MonitorAcquire, shmVars, grantVars

LEMMA ScanningStep ==
    ASSUME TypeOK, Scanning, Registering, Owned, InOrder, [Next]_vars
    PROVE  /\ Scanning' /\ accounts' \in Seq(Account)
           /\ monitorPc' \in {"outside", "scan", "acquire", "send", "mark"}
           /\ index' \in 1 .. Len(accounts') + 2
<1> DEFINE Goal == /\ Scanning' /\ accounts' \in Seq(Account)
                   /\ monitorPc' \in {"outside", "scan", "acquire", "send", "mark"}
                   /\ index' \in 1 .. Len(accounts') + 2
<1> SUFFICES Goal
  OBVIOUS
<1>0. /\ accounts \in Seq(Account) /\ Len(accounts) \in Nat
      /\ monitorPc \in {"outside", "scan", "acquire", "send", "mark"}
      /\ index \in 1 .. Len(accounts) + 2
  BY DEF TypeOK
<1>1. CASE UNCHANGED <<accounts, monitorPc, index>>
  BY <1>0, <1>1 DEF Scanning
<1>2. ASSUME NEW e \in AuthEngines, NEW r \in inFlight, EngineRegister(e, r) PROVE Goal
  <2>1. /\ monitorPc = "outside" /\ index = 1 /\ UNCHANGED <<monitorPc, index>>
        /\ accounts' \in Seq(Account) /\ Len(accounts') = Len(accounts) + 1
    BY <1>2, RegisterFacts
  <2> QED
    BY <1>0, <2>1 DEF Scanning
<1>3. ASSUME NEW e \in AuthEngines, NEW r \in inFlight, EngineAuthorize(e, r) PROVE Goal
  <2>1. /\ monitorPc = "outside" /\ index = 1 /\ UNCHANGED <<monitorPc, index>>
        /\ accounts' \in Seq(Account) /\ Len(accounts') = Len(accounts)
    BY <1>0, <1>3, AuthorizeFacts DEF Charged
  <2> QED
    BY <1>0, <2>1 DEF Scanning
<1>4. ASSUME NEW e \in AuthEngines, NEW r \in inFlight, EngineReset(e, r) PROVE Goal
  BY <1>1, <1>4 DEF EngineReset, monitorVars
<1>5. CASE MonitorEnter \/ MonitorScan \/ MonitorAcquire
  BY <1>0, <1>5, LookFacts DEF Scanning
<1>6. CASE MonitorSend
  <2>1. /\ accounts' = accounts /\ monitorPc' = "mark" /\ index' = index
        /\ index \in 1 .. Len(accounts)
    BY <1>6, SendFacts DEF shmVars
  <2> QED
    BY <1>0, <2>1 DEF Scanning
<1>7. CASE MonitorMark
  <2>1. /\ monitorPc' = "scan" /\ index' = index + 1 /\ index \in 1 .. Len(accounts)
        /\ accounts' \in Seq(Account)
        /\ Len(accounts') = Len(accounts) \/ Len(accounts') = Len(accounts) - 1
    BY <1>7, MarkFacts DEF Kept, Removed
  <2> QED
    BY <1>0, <2>1 DEF Scanning
<1> HIDE DEF Goal
<1>8. CASE \E e \in AuthEngines, r \in inFlight :
              EngineRegister(e, r) \/ EngineAuthorize(e, r) \/ EngineReset(e, r)
  BY <1>2, <1>3, <1>4, <1>8
<1>9. CASE Monitor
  BY <1>5, <1>6, <1>7, <1>9 DEF Monitor
<1> QED
  BY <1>1, <1>8, <1>9, Writers

---------------------------------------------------------------------------
\* OWNED: every registered mobile has its one account

\* The accounts are whose they were.
SameOwners ==
    /\ Len(accounts') = Len(accounts)
    /\ \A i \in 1 .. Len(accounts) : accounts'[i].mobile_id = accounts[i].mobile_id

LEMMA ChargedOwners ==
    ASSUME NEW r, NEW i \in 1 .. Len(accounts), Charged(i, r)
    PROVE  SameOwners
BY DEF Charged, SameOwners

LEMMA KeptOwners ==
    ASSUME index \in 1 .. Len(accounts), Kept
    PROVE  SameOwners
BY DEF Kept, SameOwners

\* No alert is taken back.
LEMMA OwnersSame ==
    ASSUME Owned, SameOwners, registered' = registered,
           \A m \in registered : Triggered(m) \subseteq Triggered(m)'
    PROVE  Owned'
BY DEF Owned, SameOwners

LEMMA OwnedRegister ==
    ASSUME IInv, NEW e \in AuthEngines, NEW r \in inFlight, EngineRegister(e, r)
    PROVE  Owned'
<1>1. /\ alerts' = alerts /\ r.from \in Mobiles \ registered
      /\ registered' = registered \cup {r.from}
      /\ Len(accounts') = Len(accounts) + 1
      /\ \A i \in 1 .. Len(accounts) : accounts'[i] = accounts[i]
      /\ accounts'[Len(accounts) + 1].mobile_id = r.from
  BY RegisterFacts DEF IInv
<1>2. Len(accounts) \in Nat /\ Owned
  BY DEF IInv, TypeOK
<1>3. /\ Len(accounts) + 1 \in 1 .. Len(accounts')
      /\ \A i \in 1 .. Len(accounts') : i \in 1 .. Len(accounts) \/ i = Len(accounts) + 1
      /\ \A i \in 1 .. Len(accounts) : i \in 1 .. Len(accounts') /\ i # Len(accounts) + 1
  BY <1>1, <1>2
<1>4. \A i \in 1 .. Len(accounts') : accounts'[i].mobile_id \in registered'
  BY <1>1, <1>2, <1>3 DEF Owned
<1>5. \A i, j \in 1 .. Len(accounts') :
          accounts'[i].mobile_id = accounts'[j].mobile_id => i = j
  BY <1>1, <1>2, <1>3 DEF Owned
<1>6. ASSUME NEW m \in registered', 0 \notin Triggered(m)'
      PROVE  \E i \in 1 .. Len(accounts') : accounts'[i].mobile_id = m
  <2>1. CASE m = r.from
    BY <1>1, <1>3, <2>1
  <2>2. CASE m \in registered
    <3>1. 0 \notin Triggered(m)
      BY <1>1, <1>6, TriggeredSame
    <3>2. PICK i \in 1 .. Len(accounts) : accounts[i].mobile_id = m
      BY <1>2, <2>2, <3>1 DEF Owned
    <3> QED
      BY <1>1, <1>3, <3>2
  <2> QED
    BY <1>1, <1>6, <2>1, <2>2
<1> QED
  BY <1>4, <1>5, <1>6 DEF Owned

\* Where the other accounts go when one is removed.
LEMMA Shifted ==
    ASSUME index \in 1 .. Len(accounts), Len(accounts) \in Nat, Removed
    PROVE  \A k \in 1 .. Len(accounts') : \E i \in (1 .. Len(accounts)) \ {index} :
               /\ accounts'[k] = accounts[i]
               /\ i = IF k < index THEN k ELSE k + 1
<1> SUFFICES ASSUME NEW k \in 1 .. Len(accounts')
             PROVE  \E i \in (1 .. Len(accounts)) \ {index} :
                       /\ accounts'[k] = accounts[i]
                       /\ i = IF k < index THEN k ELSE k + 1
  OBVIOUS
<1>1. Len(accounts') = Len(accounts) - 1
  BY DEF Removed
<1>2. accounts'[k] = IF k < index THEN accounts[k] ELSE accounts[k + 1]
  BY <1>1 DEF Removed
<1>3. CASE k < index
  BY <1>1, <1>2, <1>3
<1>4. CASE ~(k < index)
  <2>1. k + 1 \in (1 .. Len(accounts)) \ {index}
    BY <1>1, <1>4
  <2> QED
    BY <1>2, <1>4, <2>1
<1> QED
  BY <1>3, <1>4

LEMMA ShiftedBack ==
    ASSUME index \in 1 .. Len(accounts), Len(accounts) \in Nat, Removed,
           NEW i \in (1 .. Len(accounts)) \ {index}
    PROVE  \E k \in 1 .. Len(accounts') : accounts'[k] = accounts[i]
<1>1. Len(accounts') = Len(accounts) - 1
  BY DEF Removed
<1>2. CASE i < index
  BY <1>1, <1>2 DEF Removed
<1>3. CASE i > index
  <2>1. /\ i - 1 \in 1 .. Len(accounts) - 1 /\ ~(i - 1 < index)
        /\ (i - 1) + 1 = i
    BY <1>3
  <2>2. accounts'[i - 1] = accounts[(i - 1) + 1]
    BY <2>1 DEF Removed
  <2>3. i - 1 \in 1 .. Len(accounts') /\ accounts'[i - 1] = accounts[i]
    BY <1>1, <2>1, <2>2
  <2> QED
    BY <2>3
<1> QED
  BY <1>2, <1>3

\* The alert that is being sent is among those triggered already.
LEMMA MarkTriggered ==
    ASSUME AlertsOnce, monitorPc = "mark", index \in 1 .. Len(accounts)
    PROVE  Triggered(accounts[index].mobile_id)
              = accounts[index].alert_sent \cup {Remaining(accounts[index])}
BY DEF AlertsOnce

LEMMA OwnedRemove ==
    ASSUME IInv, MonitorMark, Removed
    PROVE  Owned'
<1>1. /\ monitorPc = "mark" /\ index \in 1 .. Len(accounts)
      /\ registered' = registered /\ alerts' = alerts
  BY MarkFacts DEF IInv
<1>2. Len(accounts) \in Nat /\ Owned /\ AlertsOnce
  BY DEF IInv, TypeOK
<1>3. \A k \in 1 .. Len(accounts') : \E i \in (1 .. Len(accounts)) \ {index} :
          accounts'[k] = accounts[i] /\ i = IF k < index THEN k ELSE k + 1
  BY <1>1, <1>2, Shifted
<1>4. \A k \in 1 .. Len(accounts') : accounts'[k].mobile_id \in registered'
  BY <1>1, <1>2, <1>3 DEF Owned
<1>5. ASSUME NEW k \in 1 .. Len(accounts'), NEW l \in 1 .. Len(accounts'),
             accounts'[k].mobile_id = accounts'[l].mobile_id
      PROVE  k = l
  <2>1. PICK i \in (1 .. Len(accounts)) \ {index} :
            accounts'[k] = accounts[i] /\ i = IF k < index THEN k ELSE k + 1
    BY <1>3
  <2>2. PICK j \in (1 .. Len(accounts)) \ {index} :
            accounts'[l] = accounts[j] /\ j = IF l < index THEN l ELSE l + 1
    BY <1>3
  <2>3. i = j
    BY <1>2, <1>5, <2>1, <2>2 DEF Owned
  <2>4. k \in Int /\ l \in Int /\ index \in Int
    BY <1>1
  <2> QED
    BY <2>1, <2>2, <2>3, <2>4
<1>6. ASSUME NEW m \in registered', 0 \notin Triggered(m)'
      PROVE  \E k \in 1 .. Len(accounts') : accounts'[k].mobile_id = m
  <2>1. m \in registered /\ 0 \notin Triggered(m)
    BY <1>1, <1>6, TriggeredSame
  <2>2. PICK i \in 1 .. Len(accounts) : accounts[i].mobile_id = m
    BY <1>2, <2>1 DEF Owned
  <2>3. i # index
    BY <1>1, <1>2, <2>1, <2>2, MarkTriggered DEF Removed
  <2> QED
    BY <1>1, <1>2, <2>2, <2>3, ShiftedBack
<1> QED
  BY <1>4, <1>5, <1>6 DEF Owned

LEMMA OwnedStep ==
    ASSUME IInv, [Next]_vars
    PROVE  Owned'
<1>0. TypeOK /\ Scanning /\ Registering /\ Owned /\ InOrder
  BY DEF IInv
<1>1. ASSUME accounts' = accounts, registered' = registered, alerts' = alerts
      PROVE  Owned'
  <2>1. \A m : Triggered(m)' = Triggered(m)
    BY <1>1 DEF Triggered
  <2> QED
    BY <1>0, <1>1, <2>1 DEF Owned
<1>2. ASSUME SameOwners, registered' = registered, alerts' = alerts
      PROVE  Owned'
  BY <1>0, <1>2, OwnersSame, TriggeredSame
<1>3. ASSUME NEW e \in AuthEngines, NEW r \in inFlight, EngineRegister(e, r)
      PROVE  Owned'
  BY <1>3, OwnedRegister
<1>4. ASSUME NEW e \in AuthEngines, NEW r \in inFlight, EngineAuthorize(e, r)
      PROVE  Owned'
  BY <1>0, <1>1, <1>2, <1>4, AuthorizeFacts, ChargedOwners
<1>5. ASSUME NEW e \in AuthEngines, NEW r \in inFlight, EngineReset(e, r)
      PROVE  Owned'
  BY <1>1, <1>5 DEF EngineReset
<1>6. CASE MonitorEnter \/ MonitorScan \/ MonitorAcquire
  BY <1>0, <1>1, <1>6, LookFacts
<1>7. CASE MonitorSend
  <2> DEFINE n == accounts[index].mobile_id
             x == Remaining(accounts[index])
  <2>1. /\ accounts' = accounts /\ registered' = registered
        /\ n \in Mobiles /\ x \in {0, 10, 20}
        /\ alerts' = [alerts EXCEPT ![n] = Append(alerts[n], x)]
    BY <1>0, <1>7, SendFacts DEF shmVars
  <2> HIDE DEF n, x
  <2>2. alerts \in [Mobiles -> Seq({0, 10, 20})] /\ registered \subseteq Mobiles
    BY <1>0 DEF TypeOK
  <2>3. ASSUME NEW m \in registered PROVE Triggered(m) \subseteq Triggered(m)'
    <3>1. CASE m = n
      <4>1. alerts[m] \in Seq({0, 10, 20}) /\ alerts'[m] = Append(alerts[m], x)
        BY <2>1, <2>2, <3>1
      <4>2. Triggered(m)' = Triggered(m) \cup {x}
        BY <2>1, <4>1, TriggeredMore
      <4> QED
        BY <4>2
    <3>2. CASE m # n
      <4>1. alerts'[m] = alerts[m]
        BY <2>1, <2>2, <2>3, <3>2
      <4> QED
        BY <4>1, TriggeredSame
    <3> QED
      BY <3>1, <3>2
  <2>4. SameOwners
    BY <2>1 DEF SameOwners
  <2> QED
    BY <1>0, <2>1, <2>3, <2>4, OwnersSame
<1>8. CASE MonitorMark
  <2>1. CASE Kept
    BY <1>0, <1>2, <1>8, <2>1, MarkFacts, KeptOwners
  <2>2. CASE Removed
    BY <1>8, <2>2, OwnedRemove
  <2> QED
    BY <1>0, <1>8, <2>1, <2>2, MarkFacts
<1>9. CASE \E e \in AuthEngines, r \in inFlight :
              EngineRegister(e, r) \/ EngineAuthorize(e, r) \/ EngineReset(e, r)
  BY <1>3, <1>4, <1>5, <1>9
<1>10. CASE Monitor
  BY <1>6, <1>7, <1>8, <1>10 DEF Monitor
<1> QED
  BY <1>1, <1>9, <1>10, Writers

---------------------------------------------------------------------------
\* IN ORDER: a plafond only goes down, and so do the alerts

LEMMA InOrderStep ==
    ASSUME IInv, [Next]_vars
    PROVE  InOrder'
<1>0. TypeOK /\ Scanning /\ Registering /\ Owned /\ InOrder
  BY DEF IInv
<1>a. /\ accounts \in Seq(Account) /\ Len(accounts) \in Nat
      /\ \A i \in 1 .. Len(accounts) : accounts[i] \in Account
  BY <1>0 DEF TypeOK
<1>1. ASSUME UNCHANGED <<accounts, registered, alerts, monitorPc, index>>
      PROVE  InOrder'
  BY <1>0, <1>1 DEF InOrder, Due, AlertSent, Remaining
<1>2. ASSUME NEW e \in AuthEngines, NEW r \in inFlight, EngineRegister(e, r)
      PROVE  InOrder'
  <2>1. /\ monitorPc' = "outside" /\ alerts' = alerts
        /\ registered' = registered \cup {r.from}
        /\ Len(accounts') = Len(accounts) + 1
        /\ \A i \in 1 .. Len(accounts) : accounts'[i] = accounts[i]
        /\ accounts'[Len(accounts) + 1].alert_sent = {}
    BY <1>0, <1>2, RegisterFacts
  <2>2. ASSUME NEW i \in 1 .. Len(accounts'), NEW x \in accounts'[i].alert_sent
        PROVE  Remaining(accounts'[i]) <= x
    <3>1. i \in 1 .. Len(accounts)
      BY <1>a, <2>1, <2>2
    <3> QED
      BY <1>0, <2>1, <2>2, <3>1 DEF InOrder
  <2>3. \A m \in Mobiles \ registered' : alerts'[m] = << >>
    BY <1>0, <2>1 DEF InOrder
  <2> QED
    BY <2>1, <2>2, <2>3 DEF InOrder, Remaining
<1>3. ASSUME NEW e \in AuthEngines, NEW r \in inFlight, EngineAuthorize(e, r)
      PROVE  InOrder'
  <2>1. /\ monitorPc' = "outside"
        /\ UNCHANGED <<monitorPc, index, alerts, registered>>
    BY <1>0, <1>3, AuthorizeFacts
  <2>2. CASE accounts' = accounts
    BY <1>1, <2>1, <2>2
  <2>3. ASSUME NEW i \in 1 .. Len(accounts), Charged(i, r)
        PROVE  InOrder'
    <3>1. /\ accounts' \in Seq(Account) /\ Len(accounts') = Len(accounts)
          /\ \A j \in (1 .. Len(accounts)) \ {i} : accounts'[j] = accounts[j]
          /\ accounts'[i].initial_plafond = accounts[i].initial_plafond
          /\ accounts'[i].alert_sent = accounts[i].alert_sent
          /\ accounts'[i].current_plafond
                = accounts[i].current_plafond - Arguments[r.from].data
          /\ r \in MobileRequest
      BY <2>3 DEF Charged
    <3>2. Arguments[r.from].data \in Nat
      BY <3>1, ArgumentsAssumption DEF MobileRequest
    <3>3. accounts[i] \in Account /\ accounts'[i] \in Account
      BY <1>a, <3>1
    <3>4. accounts'[i].current_plafond <= accounts[i].current_plafond
      BY <3>1, <3>2, <3>3 DEF Account
    <3>5. /\ Remaining(accounts'[i]) <= Remaining(accounts[i])
          /\ Remaining(accounts'[i]) \in Nat /\ Remaining(accounts[i]) \in Nat
      BY <3>1, <3>3, <3>4, RemainingMonotone, RemainingType
    <3>6. \A x \in accounts[i].alert_sent : x \in Nat
      BY <3>3 DEF Account
    <3>7. \A x \in accounts'[i].alert_sent : Remaining(accounts'[i]) <= x
      BY <1>0, <3>1, <3>5, <3>6 DEF InOrder
    <3>8. \A j \in 1 .. Len(accounts') : \A x \in accounts'[j].alert_sent :
              Remaining(accounts'[j]) <= x
      BY <1>0, <3>1, <3>7 DEF InOrder
    <3>9. \A m \in Mobiles \ registered' : alerts'[m] = << >>
      BY <1>0, <2>1 DEF InOrder
    <3> QED
      BY <2>1, <3>8, <3>9 DEF InOrder, Remaining
  <2> QED
    BY <1>0, <1>3, <2>2, <2>3, AuthorizeFacts
<1>4. ASSUME NEW e \in AuthEngines, NEW r \in inFlight, EngineReset(e, r)
      PROVE  InOrder'
  BY <1>1, <1>4 DEF EngineReset, monitorVars
<1>5. CASE MonitorEnter \/ MonitorScan \/ MonitorAcquire
  <2>1. UNCHANGED <<accounts, registered, alerts>>
    BY <1>0, <1>5, LookFacts
  <2>2. \/ monitorPc' \in {"outside", "scan"}
        \/ index' = index /\ monitorPc' \in {"acquire", "send"} /\ Due(accounts[index])
    BY <1>0, <1>5, LookFacts DEF InOrder
  <2> QED
    BY <1>0, <2>1, <2>2 DEF InOrder, Due, AlertSent, Remaining
<1>6. CASE MonitorSend
  <2> DEFINE n == accounts[index].mobile_id
             x == Remaining(accounts[index])
  <2>1. /\ accounts' = accounts /\ registered' = registered /\ index' = index
        /\ monitorPc' = "mark" /\ x \in {0, 10, 20} /\ index \in 1 .. Len(accounts)
        /\ alerts' = [alerts EXCEPT ![n] = Append(alerts[n], x)]
    BY <1>0, <1>6, SendFacts DEF shmVars
  <2>2. n \in registered
    BY <1>0, <2>1 DEF Owned
  <2> HIDE DEF n
  <2>3. \A m \in Mobiles \ registered' : alerts'[m] = << >>
    <3>1. alerts \in [Mobiles -> Seq({0, 10, 20})]
      BY <1>0 DEF TypeOK
    <3> QED
      BY <1>0, <2>1, <2>2, <3>1 DEF InOrder
  <2> QED
    BY <1>0, <2>1, <2>3 DEF InOrder, Remaining
<1>7. CASE MonitorMark
  <2>1. /\ monitorPc' = "scan" /\ UNCHANGED <<registered, alerts>>
        /\ index \in 1 .. Len(accounts)
        /\ Kept \/ Removed
    BY <1>0, <1>7, MarkFacts
  <2>2. CASE Kept
    <3>1. Remaining(accounts'[index]) = Remaining(accounts[index])
      BY <2>2, RemainingSame DEF Kept
    <3>2. Remaining(accounts[index]) \in Nat
      BY <1>a, <2>1, RemainingType
    <3>3. \A x \in accounts'[index].alert_sent : Remaining(accounts'[index]) <= x
      <4>1. \A x \in accounts[index].alert_sent : Remaining(accounts[index]) <= x
        BY <1>0, <2>1 DEF InOrder
      <4>2. accounts'[index].alert_sent
               = accounts[index].alert_sent \cup {Remaining(accounts[index])}
        BY <2>2 DEF Kept
      <4> QED
        BY <3>1, <3>2, <4>1, <4>2
    <3>4. \A i \in 1 .. Len(accounts') : \A x \in accounts'[i].alert_sent :
              Remaining(accounts'[i]) <= x
      BY <1>0, <2>2, <3>3 DEF InOrder, Kept
    <3>5. \A m \in Mobiles \ registered' : alerts'[m] = << >>
      BY <1>0, <2>1 DEF InOrder
    <3> QED
      BY <2>1, <3>4, <3>5 DEF InOrder, Remaining
  <2>3. CASE Removed
    <3>1. \A k \in 1 .. Len(accounts') : \E i \in 1 .. Len(accounts) :
              accounts'[k] = accounts[i]
      BY <1>0, <1>a, <1>7, <2>3, MarkFacts, Shifted
    <3>2. \A i \in 1 .. Len(accounts') : \A x \in accounts'[i].alert_sent :
              Remaining(accounts'[i]) <= x
      BY <1>0, <3>1 DEF InOrder
    <3>3. \A m \in Mobiles \ registered' : alerts'[m] = << >>
      BY <1>0, <2>1 DEF InOrder
    <3> QED
      BY <2>1, <3>2, <3>3 DEF InOrder, Remaining
  <2> QED
    BY <2>1, <2>2, <2>3
<1>8. CASE \E e \in AuthEngines, r \in inFlight :
              EngineRegister(e, r) \/ EngineAuthorize(e, r) \/ EngineReset(e, r)
  BY <1>2, <1>3, <1>4, <1>8
<1>9. CASE Monitor
  BY <1>5, <1>6, <1>7, <1>9 DEF Monitor
<1> QED
  BY <1>1, <1>8, <1>9, Writers

---------------------------------------------------------------------------
\* ALERTS ONCE: an account remembers what its mobile was told

Decreasing(s) == \A j, k \in 1 .. Len(s) : j < k => s[j] > s[k]

LEMMA AppendDecreasing ==
    ASSUME NEW s \in Seq({0, 10, 20}), Decreasing(s), NEW x \in {0, 10, 20},
           \A k \in 1 .. Len(s) : s[k] > x
    PROVE  Decreasing(Append(s, x))
<1>1. /\ Len(s) \in Nat /\ Len(Append(s, x)) = Len(s) + 1
      /\ \A k \in 1 .. Len(s) : Append(s, x)[k] = s[k]
      /\ Append(s, x)[Len(s) + 1] = x
  BY AppendProperties
<1> SUFFICES ASSUME NEW j \in 1 .. Len(Append(s, x)), NEW k \in 1 .. Len(Append(s, x)),
                    j < k
             PROVE  Append(s, x)[j] > Append(s, x)[k]
  BY DEF Decreasing
<1>2. j \in 1 .. Len(s)
  BY <1>1
<1>3. CASE k \in 1 .. Len(s)
  BY <1>1, <1>2, <1>3 DEF Decreasing
<1>4. CASE k = Len(s) + 1
  BY <1>1, <1>2, <1>4
<1> QED
  BY <1>1, <1>3, <1>4

\* The second conjunct of AlertsOnce, for the account at position i.
Remembers(i) ==
    accounts[i].alert_sent
       \cup (IF monitorPc = "mark" /\ i = index THEN {Remaining(accounts[i])} ELSE {})
       = Triggered(accounts[i].mobile_id)

LEMMA AlertsOnceParts ==
    AlertsOnce <=> /\ \A m \in Mobiles : Decreasing(alerts[m])
                   /\ \A i \in 1 .. Len(accounts) : Remembers(i)
BY DEF AlertsOnce, Decreasing, Remembers

\* While nothing is being marked.
LEMMA RemembersPlain ==
    ASSUME NEW i, monitorPc # "mark" \/ i # index
    PROVE  Remembers(i) <=> accounts[i].alert_sent = Triggered(accounts[i].mobile_id)
BY DEF Remembers

LEMMA RemembersPlainNext ==
    ASSUME NEW i, monitorPc' # "mark" \/ i # index'
    PROVE  Remembers(i)'
              <=> accounts'[i].alert_sent = TriggeredNext(accounts'[i].mobile_id)
BY DEF Remembers, Triggered, TriggeredNext

LEMMA AlertsOnceSame ==
    ASSUME AlertsOnce, alerts' = alerts,
           \A i \in 1 .. Len(accounts') : Remembers(i)'
    PROVE  AlertsOnce'
BY AlertsOnceParts DEF AlertsOnce, Remembers, Triggered, Remaining

LEMMA AlertsOnceRegister ==
    ASSUME IInv, NEW e \in AuthEngines, NEW r \in inFlight, EngineRegister(e, r)
    PROVE  AlertsOnce'
<1>1. /\ monitorPc = "outside" /\ monitorPc' = "outside" /\ alerts' = alerts
      /\ r.from \in Mobiles \ registered
      /\ Len(accounts') = Len(accounts) + 1
      /\ \A i \in 1 .. Len(accounts) : accounts'[i] = accounts[i]
      /\ accounts'[Len(accounts) + 1].mobile_id = r.from
      /\ accounts'[Len(accounts) + 1].alert_sent = {}
  BY RegisterFacts DEF IInv
<1>2. \A m : TriggeredNext(m) = Triggered(m)
  BY <1>1, TriggeredSame
<1>3. Triggered(r.from) = {}
  <2>1. alerts[r.from] = << >>
    BY <1>1 DEF IInv, InOrder
  <2>2. Len(<< >>) = 0
    OBVIOUS
  <2> QED
    BY <2>1, <2>2 DEF Triggered
<1>4. AlertsOnce /\ Len(accounts) \in Nat
  BY DEF IInv, TypeOK
<1>5. ASSUME NEW i \in 1 .. Len(accounts') PROVE Remembers(i)'
  <2> SUFFICES accounts'[i].alert_sent = TriggeredNext(accounts'[i].mobile_id)
    BY <1>1, RemembersPlainNext
  <2>1. CASE i \in 1 .. Len(accounts)
    BY <1>1, <1>2, <1>4, <2>1, AlertsOnceParts, RemembersPlain
  <2>2. CASE i = Len(accounts) + 1
    BY <1>1, <1>2, <1>3, <2>2
  <2> QED
    BY <1>1, <1>4, <2>1, <2>2
<1> QED
  BY <1>1, <1>4, <1>5, AlertsOnceSame

LEMMA AlertsOnceAuthorize ==
    ASSUME IInv, NEW e \in AuthEngines, NEW r \in inFlight, EngineAuthorize(e, r)
    PROVE  AlertsOnce'
<1>1. /\ monitorPc = "outside" /\ monitorPc' = "outside" /\ alerts' = alerts
      /\ \/ accounts' = accounts
         \/ \E i \in 1 .. Len(accounts) : Charged(i, r)
  BY AuthorizeFacts DEF IInv
<1>2. /\ Len(accounts') = Len(accounts)
      /\ \A i \in 1 .. Len(accounts) :
            /\ accounts'[i].mobile_id = accounts[i].mobile_id
            /\ accounts'[i].alert_sent = accounts[i].alert_sent
  BY <1>1 DEF Charged
<1>3. \A m : TriggeredNext(m) = Triggered(m)
  BY <1>1, TriggeredSame
<1>4. AlertsOnce
  BY DEF IInv
<1>5. ASSUME NEW i \in 1 .. Len(accounts') PROVE Remembers(i)'
  <2> SUFFICES accounts'[i].alert_sent = TriggeredNext(accounts'[i].mobile_id)
    BY <1>1, RemembersPlainNext
  <2> QED
    BY <1>1, <1>2, <1>3, <1>4, AlertsOnceParts, RemembersPlain
<1> QED
  BY <1>1, <1>4, <1>5, AlertsOnceSame

\* The alert that is sent is below all that its mobile has got: the account remembers
\* those, its percentage is not above any of them and is none of them.
LEMMA AlertsOnceSend ==
    ASSUME IInv, MonitorSend
    PROVE  AlertsOnce'
<1> DEFINE n == accounts[index].mobile_id
           x == Remaining(accounts[index])
<1>1. /\ monitorPc = "send" /\ monitorPc' = "mark" /\ index' = index
      /\ index \in 1 .. Len(accounts) /\ accounts[index] \in Account
      /\ n \in Mobiles /\ x \in {0, 10, 20} /\ ~AlertSent(accounts[index])
      /\ accounts' = accounts
      /\ alerts' = [alerts EXCEPT ![n] = Append(alerts[n], x)]
  BY SendFacts DEF IInv, shmVars
<1>2. /\ AlertsOnce /\ Owned /\ InOrder
      /\ alerts \in [Mobiles -> Seq({0, 10, 20})]
  BY DEF IInv, TypeOK
<1>3. accounts[index].alert_sent = Triggered(n)
  BY <1>1, <1>2, AlertsOnceParts, RemembersPlain
<1>4. \A y \in accounts[index].alert_sent : y \in {10, 20} /\ x <= y
  BY <1>1, <1>2 DEF InOrder, Account
<1>5. x \notin accounts[index].alert_sent
  <2>1. CASE x = 0
    BY <1>4, <2>1
  <2>2. CASE x # 0
    BY <1>1, <2>2 DEF AlertSent
  <2> QED
    BY <2>1, <2>2
<1>6. Remaining(accounts'[index]) = x
  BY <1>1
<1> HIDE DEF x, n
<1>7. \A y \in accounts[index].alert_sent : y > x
  <2> SUFFICES ASSUME NEW y \in accounts[index].alert_sent PROVE y > x
    OBVIOUS
  <2>1. y # x /\ y \in Int /\ x \in Int /\ x <= y
    BY <1>1, <1>4, <1>5
  <2> QED
    BY <2>1
<1>8. \A k \in 1 .. Len(alerts[n]) : alerts[n][k] > x
  BY <1>3, <1>7 DEF Triggered
<1>9. alerts[n] \in Seq({0, 10, 20}) /\ alerts'[n] = Append(alerts[n], x)
  BY <1>1, <1>2
<1>10. \A m \in Mobiles : Decreasing(alerts'[m])
  <2> SUFFICES ASSUME NEW m \in Mobiles PROVE Decreasing(alerts'[m])
    OBVIOUS
  <2>1. CASE m = n
    BY <1>1, <1>2, <1>8, <1>9, <2>1, AppendDecreasing, AlertsOnceParts
  <2>2. CASE m # n
    BY <1>1, <1>2, <2>2, AlertsOnceParts
  <2> QED
    BY <2>1, <2>2
<1>11. TriggeredNext(n) = Triggered(n) \cup {x}
  BY <1>1, <1>9, TriggeredMore
<1>12. ASSUME NEW i \in 1 .. Len(accounts') PROVE Remembers(i)'
  <2>1. CASE i = index
    <3>1. Remembers(index)'
             <=> accounts'[index].alert_sent \cup {Remaining(accounts'[index])}
                    = TriggeredNext(accounts'[index].mobile_id)
      BY <1>1 DEF Remembers, Triggered, TriggeredNext, Remaining
    <3>2. accounts'[index].mobile_id = n
      BY <1>1 DEF n
    <3> QED
      BY <1>1, <1>3, <1>6, <1>11, <2>1, <3>1, <3>2
  <2>2. CASE i # index
    <3> DEFINE m == accounts[i].mobile_id
    <3>1. m # n
      BY <1>1, <1>2, <2>2 DEF Owned, n
    <3>2. m \in Mobiles
      BY <1>1, <1>2 DEF Owned, IInv, TypeOK
    <3>3. alerts'[m] = alerts[m]
      BY <1>1, <1>2, <3>1, <3>2
    <3>4. TriggeredNext(m) = Triggered(m)
      BY <3>3, TriggeredSame
    <3>5. accounts[i].alert_sent = Triggered(m)
      BY <1>1, <1>2, AlertsOnceParts, RemembersPlain
    <3> QED
      BY <1>1, <2>2, <3>4, <3>5, RemembersPlainNext
  <2> QED
    BY <2>1, <2>2
<1>13. AlertsOnce' <=> /\ \A m \in Mobiles : Decreasing(alerts'[m])
                       /\ \A i \in 1 .. Len(accounts') : Remembers(i)'
  BY DEF AlertsOnce, Decreasing, Remembers, Triggered, Remaining
<1> QED
  BY <1>10, <1>12, <1>13

LEMMA AlertsOnceMark ==
    ASSUME IInv, MonitorMark
    PROVE  AlertsOnce'
<1>1. /\ monitorPc = "mark" /\ index \in 1 .. Len(accounts)
      /\ monitorPc' = "scan" /\ alerts' = alerts
  BY MarkFacts DEF IInv
<1>2. Kept \/ Removed
  BY MarkFacts DEF IInv
<1>3. AlertsOnce /\ Len(accounts) \in Nat
  BY DEF IInv, TypeOK
<1>4. \A m : TriggeredNext(m) = Triggered(m)
  BY <1>1, TriggeredSame
<1>5. \A i \in (1 .. Len(accounts)) \ {index} :
          accounts[i].alert_sent = Triggered(accounts[i].mobile_id)
  BY <1>3, AlertsOnceParts, RemembersPlain
<1>6. ASSUME NEW i \in 1 .. Len(accounts') PROVE Remembers(i)'
  <2> SUFFICES accounts'[i].alert_sent = TriggeredNext(accounts'[i].mobile_id)
    BY <1>1, RemembersPlainNext
  <2>1. CASE Kept
    <3>1. CASE i = index
      <4>1. Triggered(accounts[index].mobile_id)
               = accounts[index].alert_sent \cup {Remaining(accounts[index])}
        BY <1>1, <1>3, MarkTriggered
      <4> QED
        BY <1>4, <2>1, <3>1, <4>1 DEF Kept
    <3>2. CASE i # index
      BY <1>4, <1>5, <2>1, <3>2 DEF Kept
    <3> QED
      BY <3>1, <3>2
  <2>2. CASE Removed
    <3>1. PICK j \in (1 .. Len(accounts)) \ {index} : accounts'[i] = accounts[j]
      BY <1>1, <1>3, <2>2, Shifted
    <3> QED
      BY <1>4, <1>5, <3>1
  <2> QED
    BY <1>2, <2>1, <2>2
<1> QED
  BY <1>1, <1>3, <1>6, AlertsOnceSame

LEMMA AlertsOnceStep ==
    ASSUME IInv, [Next]_vars
    PROVE  AlertsOnce'
<1>0. TypeOK /\ AlertsOnce
  BY DEF IInv
<1>1. ASSUME UNCHANGED <<accounts, alerts, monitorPc, index>> PROVE AlertsOnce'
  BY <1>0, <1>1 DEF AlertsOnce, Triggered, Remaining
<1>2. ASSUME NEW e \in AuthEngines, NEW r \in inFlight, EngineReset(e, r)
      PROVE  AlertsOnce'
  BY <1>1, <1>2 DEF EngineReset, monitorVars
<1>3. CASE MonitorEnter \/ MonitorScan \/ MonitorAcquire
  <2>1. /\ UNCHANGED <<accounts, alerts>>
        /\ monitorPc # "mark" /\ monitorPc' # "mark"
    BY <1>0, <1>3, LookFacts
  <2>2. \A m : TriggeredNext(m) = Triggered(m)
    BY <2>1, TriggeredSame
  <2>3. ASSUME NEW i \in 1 .. Len(accounts') PROVE Remembers(i)'
    BY <1>0, <2>1, <2>2, AlertsOnceParts, RemembersPlain, RemembersPlainNext
  <2> QED
    BY <1>0, <2>1, <2>3, AlertsOnceSame
<1>4. CASE \E e \in AuthEngines, r \in inFlight :
              EngineRegister(e, r) \/ EngineAuthorize(e, r) \/ EngineReset(e, r)
  BY <1>2, <1>4, AlertsOnceRegister, AlertsOnceAuthorize
<1>5. CASE Monitor
  BY <1>3, <1>5, AlertsOnceSend, AlertsOnceMark DEF Monitor
<1> QED
  BY <1>1, <1>4, <1>5, Writers

---------------------------------------------------------------------------
\* THE REQUESTS: registered once, granted once

\* Who changes what the requests depend on.
LEMMA RequestWriters ==
    ASSUME [Next]_vars
    PROVE  \/ UNCHANGED <<inFlight, registered, granted, mobilePc, asked>>
           \/ \E m \in Mobiles : \/ MobileRegister(m) \/ MobileEnd(m) \/ MobileRead(m)
                                 \/ \E service \in Services : MobileAsk(m, service)
           \/ \E command \in {"data_stats", "reset"} : BackofficeAsk(command)
           \/ \E r \in inFlight : Lose(r)
           \/ \E e \in AuthEngines, r \in inFlight :
                 EngineRegister(e, r) \/ EngineAuthorize(e, r) \/ EngineReset(e, r)
                    \/ EngineStats(e, r)
<1> DEFINE Same == UNCHANGED <<inFlight, registered, granted, mobilePc, asked>>
<1>1. CASE BackofficeRead
  BY <1>1 DEF BackofficeRead, mobileVars, grantVars
<1>2. CASE PeriodicWake
  BY <1>2 DEF PeriodicWake, mobileVars, grantVars
<1>3. ASSUME NEW x \in Reporters, Reporter(x) PROVE Same
  BY <1>3 DEF Reporter, ReporterAcquire, ReporterSend, mobileVars, grantVars
<1>4. CASE Monitor
  BY <1>4 DEF Monitor, MonitorEnter, MonitorScan, MonitorAcquire, MonitorSend, MonitorMark,
              mobileVars, grantVars
<1>5. CASE UNCHANGED vars
  BY <1>5 DEF vars, mobileVars, grantVars
<1> HIDE DEF Same
<1> QED
  BY <1>1, <1>2, <1>3, <1>4, <1>5 DEF Next, Mobile, BackofficeUser, Engine, Same

\* The conjuncts of TypeOK about the requests, and what the invariant adds.
RequestTypes ==
    /\ mobilePc \in [Mobiles -> {"new", "registering", "running", "ended"}]
    /\ asked \in [Mobiles -> Nat]
    /\ \A m \in Mobiles : asked[m] <= Arguments[m].requests
    /\ \A r \in inFlight : r \in MobileRequest \/ r \in BackofficeRequest
    /\ registered \subseteq Mobiles
    /\ \A r \in granted : r \in MobileRequest

Requested == RequestTypes /\ Registering /\ Numbered

\* What kind of request the type of a request says it is.
LEMMA RequestKinds ==
    ASSUME NEW r, r \in MobileRequest \/ r \in BackofficeRequest
    PROVE  /\ r.type \in Services \cup {"REGISTER"} => r \in MobileRequest /\ r.from \in Mobiles
           /\ r.type = "REGISTER" => r.type \notin Services
           /\ r.number \in Nat
BY ArgumentsAssumption DEF MobileRequest, BackofficeRequest

\* Fewer requests, and mobiles that go on but not back to the start.
LEMMA FewerRequests ==
    ASSUME Requested, inFlight' \subseteq inFlight, UNCHANGED <<asked, registered, granted>>,
           mobilePc' \in [Mobiles -> {"new", "registering", "running", "ended"}],
           \A m \in Mobiles : mobilePc[m] # "new" => mobilePc'[m] # "new"
    PROVE  Requested'
<1>1. RequestTypes'
  BY DEF Requested, RequestTypes
<1>2. Registering'
  <2>1. \A r \in inFlight' : r.type = "REGISTER" =>
            r.number = 0 /\ r.from \notin registered' /\ mobilePc'[r.from] # "new"
    <3> SUFFICES ASSUME NEW r \in inFlight', r.type = "REGISTER"
                 PROVE  r.number = 0 /\ r.from \notin registered' /\ mobilePc'[r.from] # "new"
      OBVIOUS
    <3>1. r \in inFlight /\ r.from \in Mobiles
      BY RequestKinds DEF Requested, RequestTypes
    <3> QED
      BY <3>1 DEF Requested, Registering
  <2>2. \A m \in registered' : mobilePc'[m] # "new"
    BY DEF Requested, RequestTypes, Registering
  <2> QED
    BY <2>1, <2>2 DEF Registering
<1>3. Numbered'
  BY DEF Requested, Numbered
<1> QED
  BY <1>1, <1>2, <1>3 DEF Requested

\* A new request: of a mobile that has not registered, with the next number, or of the
\* backoffice.
LEMMA MobileRegisterRequests ==
    ASSUME Requested, NEW m \in Mobiles, MobileRegister(m)
    PROVE  Requested'
<1> DEFINE new == [from |-> m, type |-> "REGISTER", number |-> 0]
<1>1. /\ mobilePc[m] = "new" /\ mobilePc' = [mobilePc EXCEPT ![m] = "registering"]
      /\ inFlight' = inFlight \cup {new}
      /\ UNCHANGED <<asked, registered, granted>>
  BY DEF MobileRegister, grantVars
<1>2. /\ new \in MobileRequest /\ new.type \notin Services /\ new.from = m
      /\ new.number = 0
  BY ArgumentsAssumption DEF MobileRequest
<1> HIDE DEF new
<1>3. RequestTypes /\ Registering /\ Numbered
  BY DEF Requested
<1>4. /\ mobilePc' \in [Mobiles -> {"new", "registering", "running", "ended"}]
      /\ \A n \in Mobiles : mobilePc[n] # "new" \/ n = m => mobilePc'[n] # "new"
  BY <1>1, <1>3 DEF RequestTypes
<1>5. RequestTypes'
  BY <1>1, <1>2, <1>3, <1>4 DEF RequestTypes
<1>6. Registering'
  <2>1. ASSUME NEW r \in inFlight', r.type = "REGISTER"
        PROVE  r.number = 0 /\ r.from \notin registered' /\ mobilePc'[r.from] # "new"
    <3>1. CASE r = new
      BY <1>1, <1>2, <1>3, <1>4, <3>1 DEF Registering
    <3>2. CASE r \in inFlight
      <4>1. r.from \in Mobiles
        BY <1>3, <2>1, <3>2, RequestKinds DEF RequestTypes
      <4> QED
        BY <1>1, <1>3, <1>4, <2>1, <3>2, <4>1 DEF Registering
    <3> QED
      BY <1>1, <2>1, <3>1, <3>2
  <2>2. \A n \in registered' : mobilePc'[n] # "new"
    BY <1>1, <1>3, <1>4 DEF RequestTypes, Registering
  <2> QED
    BY <2>1, <2>2 DEF Registering
<1>7. Numbered'
  <2>1. new \notin granted
    BY <1>2, <1>3 DEF Numbered
  <2> QED
    BY <1>1, <1>2, <1>3, <2>1 DEF Numbered
<1> QED
  BY <1>5, <1>6, <1>7 DEF Requested

LEMMA MobileAskRequests ==
    ASSUME Requested, NEW m \in Mobiles, NEW service \in Services, MobileAsk(m, service)
    PROVE  Requested'
<1> DEFINE next == asked[m] + 1
           new  == [from |-> m, type |-> service, number |-> next]
<1>1. RequestTypes /\ Registering /\ Numbered
  BY DEF Requested
<1>2. asked \in [Mobiles -> Nat] /\ next \in Nat
  BY <1>1 DEF RequestTypes
<1>3. /\ asked' = [asked EXCEPT ![m] = next] /\ asked[m] < Arguments[m].requests
      /\ UNCHANGED <<mobilePc, registered, granted>>
  BY DEF MobileAsk, grantVars
<1>4. asked'[m] = next
  BY <1>2, <1>3
<1>5. inFlight' = inFlight \cup {new}
  BY <1>4 DEF MobileAsk
<1>6. /\ new \in MobileRequest /\ new.type \in Services /\ new.from = m
      /\ new.number = next /\ new.type # "REGISTER"
  BY <1>2, ArgumentsAssumption DEF MobileRequest
<1> HIDE DEF new
<1>7. Arguments[m].requests \in Nat
  BY ArgumentsAssumption
<1>8. \A n \in Mobiles : /\ asked'[n] \in Nat /\ asked[n] <= asked'[n]
                         /\ asked'[n] <= Arguments[n].requests
  BY <1>1, <1>2, <1>3, <1>7 DEF RequestTypes
<1>9. RequestTypes'
  BY <1>1, <1>2, <1>3, <1>5, <1>6, <1>8 DEF RequestTypes
<1>10. Registering'
  BY <1>1, <1>3, <1>5, <1>6 DEF Registering
<1>11. Numbered'
  <2>1. new \notin granted
    BY <1>1, <1>2, <1>6 DEF Numbered
  <2>2. ASSUME NEW r, r.number \in Nat, r.from \in Mobiles, r.number <= asked[r.from]
        PROVE  r.number <= asked'[r.from]
    BY <1>2, <1>8, <2>2
  <2>3. \A r \in inFlight' : r.type \in Services => r.number <= asked'[r.from]
    <3> SUFFICES ASSUME NEW r \in inFlight', r.type \in Services
                 PROVE  r.number <= asked'[r.from]
      OBVIOUS
    <3>1. CASE r = new
      BY <1>2, <1>4, <1>6, <3>1
    <3>2. CASE r \in inFlight
      <4>1. r.number \in Nat /\ r.from \in Mobiles
        BY <1>1, <3>2, RequestKinds DEF RequestTypes
      <4> QED
        BY <1>1, <2>2, <3>2, <4>1 DEF Numbered
    <3> QED
      BY <1>5, <3>1, <3>2
  <2>4. \A r \in granted' : r.number <= asked'[r.from]
    <3> SUFFICES ASSUME NEW r \in granted
                 PROVE  r.number <= asked'[r.from]
      BY <1>3
    <3>1. r.number \in Nat /\ r.from \in Mobiles
      BY <1>1 DEF RequestTypes, MobileRequest
    <3> QED
      BY <1>1, <2>2, <3>1 DEF Numbered
  <2> QED
    BY <1>1, <1>3, <1>5, <2>1, <2>3, <2>4 DEF Numbered
<1> QED
  BY <1>9, <1>10, <1>11 DEF Requested

LEMMA BackofficeAskRequests ==
    ASSUME Requested, commands \in Nat, NEW command \in {"data_stats", "reset"},
           BackofficeAsk(command)
    PROVE  Requested'
<1> DEFINE new == [from |-> Backoffice, type |-> command, number |-> commands + 1]
<1>1. /\ inFlight' = inFlight \cup {new}
      /\ UNCHANGED <<mobilePc, asked, registered, granted>>
  BY DEF BackofficeAsk, grantVars, mobileVars
<1>2. new \in BackofficeRequest /\ new.type \notin Services \cup {"REGISTER"}
  BY ArgumentsAssumption DEF BackofficeRequest
<1> HIDE DEF new
<1>3. RequestTypes /\ Registering /\ Numbered
  BY DEF Requested
<1>4. RequestTypes'
  BY <1>1, <1>2, <1>3 DEF RequestTypes
<1>5. Registering'
  BY <1>1, <1>2, <1>3 DEF Registering
<1>6. Numbered'
  BY <1>1, <1>2, <1>3 DEF Numbered
<1> QED
  BY <1>4, <1>5, <1>6 DEF Requested

\* A mobile has one request to register, so none is left when it is served.
LEMMA RegisterRequests ==
    ASSUME Requested, NEW e \in AuthEngines, NEW r \in inFlight, EngineRegister(e, r)
    PROVE  Requested'
<1>1. /\ r.type = "REGISTER" /\ inFlight' = inFlight \ {r}
      /\ registered' = registered \cup {r.from}
      /\ UNCHANGED <<asked, granted>>
      /\ \/ mobilePc' = [mobilePc EXCEPT ![r.from] = "running"]
         \/ mobilePc' = mobilePc
  BY DEF EngineRegister, Serve
<1>2. RequestTypes /\ Registering /\ Numbered
  BY DEF Requested
<1>3. r \in MobileRequest /\ r.from \in Mobiles
  BY <1>1, <1>2, RequestKinds DEF RequestTypes
<1>4. /\ mobilePc' \in [Mobiles -> {"new", "registering", "running", "ended"}]
      /\ \A m \in Mobiles : mobilePc[m] # "new" => mobilePc'[m] # "new"
  BY <1>1, <1>2, <1>3 DEF RequestTypes
<1>5. RequestTypes'
  BY <1>1, <1>2, <1>3, <1>4 DEF RequestTypes
<1>6. Registering'
  <2>1. ASSUME NEW s \in inFlight', s.type = "REGISTER"
        PROVE  s.number = 0 /\ s.from \notin registered' /\ mobilePc'[s.from] # "new"
    <3>1. s \in inFlight /\ s # r /\ s \in MobileRequest /\ s.from \in Mobiles
      BY <1>1, <1>2, <2>1, RequestKinds DEF RequestTypes
    <3>2. s.number = 0 /\ r.number = 0
      BY <1>1, <1>2, <2>1, <3>1 DEF Registering
    <3>3. s.from # r.from
      BY <1>1, <1>3, <2>1, <3>1, <3>2 DEF MobileRequest
    <3> QED
      BY <1>1, <1>2, <1>4, <2>1, <3>1, <3>2, <3>3 DEF Registering
  <2>2. \A m \in registered' : mobilePc'[m] # "new"
    BY <1>1, <1>2, <1>3, <1>4 DEF RequestTypes, Registering
  <2> QED
    BY <2>1, <2>2 DEF Registering
<1>7. Numbered'
  BY <1>1, <1>2 DEF Numbered
<1> QED
  BY <1>5, <1>6, <1>7 DEF Requested

\* Only a registered mobile has an account to charge.
LEMMA AuthorizeRequests ==
    ASSUME IInv, Requested, NEW e \in AuthEngines, NEW r \in inFlight, EngineAuthorize(e, r)
    PROVE  Requested'
<1>1. /\ r.type \in Services /\ inFlight' = inFlight \ {r}
      /\ UNCHANGED <<mobilePc, asked, registered>>
  BY DEF EngineAuthorize, Serve, mobileVars
<1>2. CASE granted' = granted
  BY <1>1, <1>2, FewerRequests DEF Requested, RequestTypes
<1>3. ASSUME NEW i \in 1 .. Len(accounts), Charged(i, r) PROVE Requested'
  <2>1. RequestTypes /\ Registering /\ Numbered
    BY DEF Requested
  <2>2. granted' = granted \cup {r} /\ r \in MobileRequest /\ r.from \in registered
    BY <1>3 DEF Charged, IInv, Owned
  <2>3. RequestTypes'
    BY <1>1, <2>1, <2>2 DEF RequestTypes
  <2>4. Registering'
    BY <1>1, <2>1 DEF Registering
  <2>5. IsFiniteSet(granted')
    BY <2>1, <2>2, FS_AddElement DEF Numbered
  <2>6. Numbered'
    BY <1>1, <2>1, <2>2, <2>5 DEF Numbered
  <2> QED
    BY <2>3, <2>4, <2>6 DEF Requested
<1> QED
  BY <1>2, <1>3, AuthorizeFacts DEF IInv

LEMMA RequestedStep ==
    ASSUME IInv, [Next]_vars
    PROVE  Requested'
<1>0. /\ Requested /\ commands \in Nat
      /\ mobilePc \in [Mobiles -> {"new", "registering", "running", "ended"}]
  BY DEF IInv, TypeOK, Requested, RequestTypes
<1>1. CASE UNCHANGED <<inFlight, registered, granted, mobilePc, asked>>
  BY <1>0, <1>1, FewerRequests
<1>2. ASSUME NEW m \in Mobiles, MobileEnd(m) \/ MobileRead(m) PROVE Requested'
  <2>1. /\ inFlight' = inFlight /\ UNCHANGED <<asked, registered, granted>>
        /\ mobilePc' = mobilePc \/ mobilePc' = [mobilePc EXCEPT ![m] = "ended"]
    BY <1>2 DEF MobileEnd, MobileRead, grantVars
  <2>2. /\ mobilePc' \in [Mobiles -> {"new", "registering", "running", "ended"}]
        /\ \A n \in Mobiles : mobilePc[n] # "new" => mobilePc'[n] # "new"
    BY <1>0, <2>1
  <2> QED
    BY <1>0, <2>1, <2>2, FewerRequests
<1>3. ASSUME NEW r \in inFlight, Lose(r) PROVE Requested'
  BY <1>0, <1>3, FewerRequests DEF Lose, mobileVars, grantVars
<1>4. ASSUME NEW e \in AuthEngines, NEW r \in inFlight, EngineReset(e, r) \/ EngineStats(e, r)
      PROVE  Requested'
  BY <1>0, <1>4, FewerRequests DEF EngineReset, EngineStats, Serve, mobileVars, grantVars
<1>5. CASE \E m \in Mobiles : \/ MobileRegister(m) \/ MobileEnd(m) \/ MobileRead(m)
                              \/ \E service \in Services : MobileAsk(m, service)
  BY <1>0, <1>2, <1>5, MobileRegisterRequests, MobileAskRequests
<1>6. CASE \E command \in {"data_stats", "reset"} : BackofficeAsk(command)
  BY <1>0, <1>6, BackofficeAskRequests
<1>7. CASE \E e \in AuthEngines, r \in inFlight :
              EngineRegister(e, r) \/ EngineAuthorize(e, r) \/ EngineReset(e, r)
                 \/ EngineStats(e, r)
  BY <1>0, <1>4, <1>7, RegisterRequests, AuthorizeRequests
<1> QED
  BY <1>1, <1>3, <1>5, <1>6, <1>7, RequestWriters

---------------------------------------------------------------------------
\* THE MESSAGE QUEUE: one sender at a time, and never more than there is room for

\* The conjuncts of TypeOK about messages and their senders.
MessageTypes ==
    /\ inbox \in [Mobiles -> Seq({0, 10, 20})]
    /\ reports \in Nat /\ msgQueueSem \in {0, 1}
    /\ Messages <= QueueCapacity
    /\ reporterPc \in [Reporters -> {"idle", "acquire", "send"}]
    /\ wakeUps \in 0 .. MaxReports /\ commands \in 0 .. MaxCommands
    /\ alerts \in [Mobiles -> Seq({0, 10, 20})]

LEMMA MessageWriters ==
    ASSUME [Next]_vars
    PROVE  \/ UNCHANGED <<queueVars, reporterPc, boundVars, alerts>>
                 /\ \/ UNCHANGED monitorPc
                    \/ MonitorEnter \/ MonitorScan \/ MonitorMark
           \/ \E m \in Mobiles : MobileRead(m)
           \/ \E command \in {"data_stats", "reset"} : BackofficeAsk(command)
           \/ BackofficeRead
           \/ \E e \in AuthEngines, r \in inFlight : EngineStats(e, r)
           \/ PeriodicWake
           \/ \E x \in Reporters : ReporterAcquire(x) \/ ReporterSend(x)
           \/ MonitorAcquire
           \/ MonitorSend
<1> DEFINE Same == /\ UNCHANGED <<queueVars, reporterPc, boundVars, alerts>>
                   /\ \/ UNCHANGED monitorPc
                      \/ MonitorEnter \/ MonitorScan \/ MonitorMark
<1>1. ASSUME NEW m \in Mobiles, MobileRegister(m) \/ MobileEnd(m) PROVE Same
  BY <1>1 DEF MobileRegister, MobileEnd, monitorVars
<1>2. ASSUME NEW m \in Mobiles, NEW s \in Services, MobileAsk(m, s) PROVE Same
  BY <1>2 DEF MobileAsk, monitorVars
<1>3. ASSUME NEW r \in inFlight, Lose(r) PROVE Same
  BY <1>3 DEF Lose, monitorVars
<1>4. ASSUME NEW e \in AuthEngines, NEW r \in inFlight,
             EngineRegister(e, r) \/ EngineAuthorize(e, r) \/ EngineReset(e, r)
      PROVE  Same
  BY <1>4 DEF EngineRegister, EngineAuthorize, EngineReset, monitorVars
<1>5. ASSUME MonitorEnter \/ MonitorScan \/ MonitorMark PROVE Same
  BY <1>5 DEF MonitorEnter, MonitorScan, MonitorMark
<1>6. ASSUME UNCHANGED vars PROVE Same
  BY <1>6 DEF vars, monitorVars
<1> HIDE DEF Same
<1> DEFINE Result == \/ Same
                     \/ \E m \in Mobiles : MobileRead(m)
                     \/ \E command \in {"data_stats", "reset"} : BackofficeAsk(command)
                     \/ BackofficeRead
                     \/ \E e \in AuthEngines, r \in inFlight : EngineStats(e, r)
                     \/ PeriodicWake
                     \/ \E x \in Reporters : ReporterAcquire(x) \/ ReporterSend(x)
                     \/ MonitorAcquire
                     \/ MonitorSend
<1>7. ASSUME NEW m \in Mobiles, Mobile(m) PROVE Result
  BY <1>1, <1>2, <1>7 DEF Mobile
<1>8. ASSUME NEW e \in AuthEngines, Engine(e) PROVE Result
  BY <1>4, <1>8 DEF Engine
<1>9. ASSUME NEW x \in Reporters, Reporter(x) PROVE Result
  BY <1>9 DEF Reporter
<1>10. ASSUME BackofficeUser PROVE Result
  BY <1>10 DEF BackofficeUser
<1>11. ASSUME Monitor PROVE Result
  BY <1>5, <1>11 DEF Monitor
<1>12. Same => Result
  OBVIOUS
<1>13. PeriodicWake => Result
  OBVIOUS
<1>14. Result
  <2> HIDE DEF Result
  <2> QED
    BY <1>3, <1>6, <1>7, <1>8, <1>9, <1>10, <1>11, <1>12, <1>13 DEF Next
<1> QED
  BY <1>14 DEF Same

\* The messages in the inboxes.
InboxTotal(box) == SumFunction([m \in Mobiles |-> Len(box[m])])

LEMMA InboxTotalValue ==
    ASSUME NEW box \in [Mobiles -> Seq({0, 10, 20})]
    PROVE  /\ Weights([m \in Mobiles |-> Len(box[m])], Mobiles)
           /\ InboxTotal(box) = Total([m \in Mobiles |-> Len(box[m])], Mobiles)
           /\ InboxTotal(box) \in Nat
<1> DEFINE lengths == [m \in Mobiles |-> Len(box[m])]
<1>1. Weights(lengths, Mobiles)
  BY DEF Weights
<1>2. DOMAIN lengths = Mobiles /\ IsFiniteSet(Mobiles)
  BY ArgumentsAssumption
<1>3. InboxTotal(box) = SumFunction(lengths)
  BY DEF InboxTotal
<1> HIDE DEF lengths
<1>4. InboxTotal(box) = Total(lengths, Mobiles) /\ InboxTotal(box) \in Nat
  BY <1>1, <1>2, <1>3, SumFunctionTotal, UnitsFinite
<1> QED
  BY <1>1, <1>4 DEF lengths

\* Another sequence in one inbox.
LEMMA InboxTotalChange ==
    ASSUME NEW box \in [Mobiles -> Seq({0, 10, 20})], NEW m \in Mobiles,
           NEW s \in Seq({0, 10, 20})
    PROVE  InboxTotal([box EXCEPT ![m] = s]) = InboxTotal(box) + Len(s) - Len(box[m])
<1> DEFINE other == [box EXCEPT ![m] = s]
           v == [n \in Mobiles |-> Len(box[n])]
           w == [n \in Mobiles |-> Len(other[n])]
<1>1. other \in [Mobiles -> Seq({0, 10, 20})]
  OBVIOUS
<1>2. v[m] = Len(box[m]) /\ w[m] = Len(s) /\ \A n \in Mobiles \ {m} : v[n] = w[n]
  OBVIOUS
<1> HIDE DEF other
<1>3. /\ Weights(v, Mobiles) /\ InboxTotal(box) = Total(v, Mobiles)
      /\ Weights(w, Mobiles) /\ InboxTotal(other) = Total(w, Mobiles)
  BY <1>1, InboxTotalValue
<1> HIDE DEF v, w
<1>4. Total(w, Mobiles) = Total(v, Mobiles) + w[m] - v[m]
  BY <1>2, <1>3, ArgumentsAssumption, TotalChange
<1>5. InboxTotal(other) = InboxTotal(box) + Len(s) - Len(box[m])
  BY <1>2, <1>3, <1>4
<1> QED
  BY <1>5 DEF other

LEMMA MessagesNow == Messages = reports + InboxTotal(inbox)
BY DEF Messages, InboxTotal

LEMMA MessagesNext == Messages' = reports' + InboxTotal(inbox')
BY DEF Messages, InboxTotal

\* Reading makes room.
LEMMA MobileReadMessages ==
    ASSUME MessageTypes, NEW m \in Mobiles, MobileRead(m)
    PROVE  MessageTypes'
<1>1. /\ inbox[m] # << >> /\ inbox' = [inbox EXCEPT ![m] = Tail(inbox[m])]
      /\ UNCHANGED <<reports, msgQueueSem, reporterPc, wakeUps, commands, alerts>>
  BY DEF MobileRead, boundVars
<1>2. inbox \in [Mobiles -> Seq({0, 10, 20})] /\ inbox[m] \in Seq({0, 10, 20})
  BY DEF MessageTypes
<1> DEFINE rest == Tail(inbox[m])
<1>3. /\ rest \in Seq({0, 10, 20}) /\ Len(rest) = Len(inbox[m]) - 1
      /\ Len(inbox[m]) \in Nat
  BY <1>1, <1>2
<1> HIDE DEF rest
<1>4. inbox' = [inbox EXCEPT ![m] = rest]
  BY <1>1 DEF rest
<1>5. inbox' \in [Mobiles -> Seq({0, 10, 20})]
  BY <1>2, <1>3, <1>4
<1>6. InboxTotal(inbox') = InboxTotal(inbox) + Len(rest) - Len(inbox[m])
  BY <1>2, <1>3, <1>4, InboxTotalChange
<1>7. InboxTotal(inbox) \in Nat /\ InboxTotal(inbox') \in Nat
  BY <1>2, <1>5, InboxTotalValue
<1>8. Messages' <= QueueCapacity
  <2>1. reports + InboxTotal(inbox) <= QueueCapacity /\ reports \in Nat
    BY MessagesNow DEF MessageTypes
  <2>2. QueueCapacity \in Nat
    BY ArgumentsAssumption
  <2> QED
    BY <1>1, <1>3, <1>6, <1>7, <2>1, <2>2, MessagesNext
<1> QED
  BY <1>1, <1>5, <1>8 DEF MessageTypes

\* An alert takes the room that was found.
LEMMA MonitorSendMessages ==
    ASSUME IInv, MonitorSend
    PROVE  MessageTypes'
<1> DEFINE m == accounts[index].mobile_id
           x == Remaining(accounts[index])
<1>1. /\ monitorPc = "send" /\ m \in Mobiles /\ x \in {0, 10, 20}
      /\ inbox' = [inbox EXCEPT ![m] = Append(inbox[m], x)]
      /\ alerts' = [alerts EXCEPT ![m] = Append(alerts[m], x)]
  BY SendFacts DEF IInv
<1>2. /\ HasRoom /\ msgQueueSem' = msgQueueSem + 1
      /\ UNCHANGED <<reports, reporterPc, wakeUps, commands>>
  BY DEF MonitorSend, boundVars
<1>3. /\ inbox \in [Mobiles -> Seq({0, 10, 20})] /\ reports \in Nat
      /\ alerts \in [Mobiles -> Seq({0, 10, 20})]
      /\ reporterPc \in [Reporters -> {"idle", "acquire", "send"}]
      /\ wakeUps \in 0 .. MaxReports /\ commands \in 0 .. MaxCommands
  BY DEF IInv, TypeOK
<1>4. msgQueueSem = 0
  BY <1>1 DEF IInv, OneSender
<1> HIDE DEF m, x
<1> DEFINE more == Append(inbox[m], x)
           told == Append(alerts[m], x)
<1>5. /\ more \in Seq({0, 10, 20}) /\ Len(more) = Len(inbox[m]) + 1
      /\ told \in Seq({0, 10, 20}) /\ Len(inbox[m]) \in Nat
  BY <1>1, <1>3
<1>6. inbox' = [inbox EXCEPT ![m] = more] /\ alerts' = [alerts EXCEPT ![m] = told]
  BY <1>1
<1> HIDE DEF more, told
<1>7. inbox' \in [Mobiles -> Seq({0, 10, 20})] /\ alerts' \in [Mobiles -> Seq({0, 10, 20})]
  BY <1>1, <1>3, <1>5, <1>6
<1>8. InboxTotal(inbox') = InboxTotal(inbox) + Len(more) - Len(inbox[m])
  <2>1. m \in Mobiles /\ more \in Seq({0, 10, 20})
    BY <1>1, <1>5
  <2>2. InboxTotal([inbox EXCEPT ![m] = more])
           = InboxTotal(inbox) + Len(more) - Len(inbox[m])
    BY <1>3, <2>1, InboxTotalChange, Zenon
  <2> QED
    BY <1>6, <2>2, Zenon
<1>9. InboxTotal(inbox) \in Nat
  BY <1>3, InboxTotalValue
<1>10. Messages' <= QueueCapacity
  <2>1. reports + InboxTotal(inbox) < QueueCapacity
    BY <1>2, MessagesNow DEF HasRoom
  <2>2. QueueCapacity \in Nat
    BY ArgumentsAssumption
  <2> QED
    BY <1>2, <1>3, <1>5, <1>8, <1>9, <2>1, <2>2, MessagesNext
<1> QED
  BY <1>2, <1>3, <1>4, <1>7, <1>10 DEF MessageTypes

\* So does a report.
LEMMA ReporterSendMessages ==
    ASSUME MessageTypes, OneSender, NEW x \in Reporters, ReporterSend(x)
    PROVE  MessageTypes'
<1>1. /\ reporterPc[x] = "send" /\ HasRoom /\ reports' = reports + 1
      /\ msgQueueSem' = msgQueueSem + 1
      /\ reporterPc' = [reporterPc EXCEPT ![x] = "idle"]
      /\ UNCHANGED <<inbox, wakeUps, commands, alerts>>
  BY DEF ReporterSend, boundVars
<1>2. msgQueueSem = 0
  BY <1>1 DEF OneSender
<1>3. inbox \in [Mobiles -> Seq({0, 10, 20})] /\ reports \in Nat
  BY DEF MessageTypes
<1>4. Messages' <= QueueCapacity
  <2>1. InboxTotal(inbox) \in Nat
    BY <1>3, InboxTotalValue
  <2>2. reports + InboxTotal(inbox) < QueueCapacity
    BY <1>1, MessagesNow DEF HasRoom
  <2>3. QueueCapacity \in Nat
    BY ArgumentsAssumption
  <2> QED
    BY <1>1, <1>3, <2>1, <2>2, <2>3, MessagesNext
<1>5. reporterPc' \in [Reporters -> {"idle", "acquire", "send"}]
  BY <1>1 DEF MessageTypes
<1> QED
  BY <1>1, <1>2, <1>4, <1>5 DEF MessageTypes

LEMMA BackofficeReadMessages ==
    ASSUME MessageTypes, BackofficeRead
    PROVE  MessageTypes'
<1>1. /\ reports > 0 /\ reports' = reports - 1
      /\ UNCHANGED <<inbox, msgQueueSem, reporterPc, wakeUps, commands, alerts>>
  BY DEF BackofficeRead, boundVars
<1>2. inbox \in [Mobiles -> Seq({0, 10, 20})] /\ reports \in Nat
  BY DEF MessageTypes
<1>3. Messages' <= QueueCapacity
  <2>1. InboxTotal(inbox) \in Nat
    BY <1>2, InboxTotalValue
  <2>2. reports + InboxTotal(inbox) <= QueueCapacity
    BY MessagesNow DEF MessageTypes
  <2>3. QueueCapacity \in Nat
    BY ArgumentsAssumption
  <2> QED
    BY <1>1, <1>2, <2>1, <2>2, <2>3, MessagesNext
<1> QED
  BY <1>1, <1>2, <1>3 DEF MessageTypes

\* Who sends next has taken msg_queue_sem from 1 to 0.
LEMMA OneSenderStep ==
    ASSUME MessageTypes, OneSender, [Next]_vars
    PROVE  OneSender'
<1>0. reporterPc \in [Reporters -> {"idle", "acquire", "send"}] /\ msgQueueSem \in {0, 1}
  BY DEF MessageTypes
<1>1. ASSUME UNCHANGED <<msgQueueSem, reporterPc>>, monitorPc' = monitorPc \/ monitorPc' # "send"
      PROVE  OneSender'
  BY <1>1 DEF OneSender
<1>2. ASSUME UNCHANGED <<msgQueueSem, monitorPc>>, NEW x \in Reporters,
             reporterPc[x] = "idle", reporterPc' = [reporterPc EXCEPT ![x] = "acquire"]
      PROVE  OneSender'
  BY <1>0, <1>2 DEF OneSender
<1>3. CASE /\ UNCHANGED <<queueVars, reporterPc, boundVars, alerts>>
           /\ \/ UNCHANGED monitorPc
              \/ MonitorEnter \/ MonitorScan \/ MonitorMark
  <2>1. monitorPc' = monitorPc \/ monitorPc' # "send"
    BY <1>3 DEF MonitorEnter, MonitorScan, MonitorMark
  <2> QED
    BY <1>1, <1>3, <2>1 DEF queueVars
<1>4. CASE \E m \in Mobiles : MobileRead(m)
  BY <1>1, <1>4 DEF MobileRead, monitorVars
<1>5. CASE \E command \in {"data_stats", "reset"} : BackofficeAsk(command)
  BY <1>1, <1>5 DEF BackofficeAsk, queueVars, monitorVars
<1>6. CASE BackofficeRead
  BY <1>1, <1>6 DEF BackofficeRead, monitorVars
<1>7. CASE \E e \in AuthEngines, r \in inFlight : EngineStats(e, r)
  BY <1>2, <1>7 DEF EngineStats, Serve, queueVars, monitorVars, Reporters
<1>8. CASE PeriodicWake
  BY <1>2, <1>8 DEF PeriodicWake, queueVars, monitorVars, Reporters
<1>9. ASSUME NEW x \in Reporters, ReporterAcquire(x)
      PROVE  OneSender'
  <2>1. /\ msgQueueSem = 1 /\ msgQueueSem' = 0 /\ monitorPc' = monitorPc
        /\ reporterPc' = [reporterPc EXCEPT ![x] = "send"]
    BY <1>0, <1>9 DEF ReporterAcquire, monitorVars
  <2>2. monitorPc # "send" /\ \A y \in Reporters : reporterPc[y] # "send"
    BY <2>1 DEF OneSender
  <2> QED
    BY <1>0, <2>1, <2>2 DEF OneSender
<1>10. ASSUME NEW x \in Reporters, ReporterSend(x)
       PROVE  OneSender'
  <2>1. /\ reporterPc[x] = "send" /\ monitorPc' = monitorPc
        /\ reporterPc' = [reporterPc EXCEPT ![x] = "idle"]
    BY <1>10 DEF ReporterSend, monitorVars
  <2>2. monitorPc # "send" /\ \A y \in Reporters : reporterPc[y] = "send" => x = y
    BY <2>1 DEF OneSender
  <2>3. \A y \in Reporters : reporterPc'[y] # "send"
    BY <1>0, <2>1, <2>2
  <2> QED
    BY <2>1, <2>2, <2>3 DEF OneSender
<1>11. CASE MonitorAcquire
  <2>1. /\ msgQueueSem = 1 /\ msgQueueSem' = 0 /\ reporterPc' = reporterPc
    BY <1>0, <1>11 DEF MonitorAcquire
  <2> QED
    BY <2>1 DEF OneSender
<1>12. CASE MonitorSend
  <2>1. /\ monitorPc = "send" /\ monitorPc' = "mark" /\ reporterPc' = reporterPc
    BY <1>12 DEF MonitorSend
  <2> QED
    BY <2>1 DEF OneSender
<1>13. CASE \E x \in Reporters : ReporterAcquire(x) \/ ReporterSend(x)
  BY <1>9, <1>10, <1>13
<1> QED
  BY <1>3, <1>4, <1>5, <1>6, <1>7, <1>8, <1>11, <1>12, <1>13, MessageWriters

LEMMA MessageTypesStep ==
    ASSUME IInv, [Next]_vars
    PROVE  MessageTypes'
<1>0. MessageTypes /\ OneSender
  BY DEF IInv, TypeOK, MessageTypes
<1>1. ASSUME UNCHANGED <<inbox, reports, alerts>>, msgQueueSem' \in {0, 1},
             reporterPc' \in [Reporters -> {"idle", "acquire", "send"}],
             wakeUps' \in 0 .. MaxReports, commands' \in 0 .. MaxCommands
      PROVE  MessageTypes'
  <2>1. Messages' = Messages
    BY <1>1, MessagesNow, MessagesNext
  <2> QED
    BY <1>0, <1>1, <2>1 DEF MessageTypes
<1>2. /\ reporterPc \in [Reporters -> {"idle", "acquire", "send"}]
      /\ msgQueueSem \in {0, 1} /\ wakeUps \in 0 .. MaxReports
      /\ commands \in 0 .. MaxCommands /\ MaxReports \in Nat /\ MaxCommands \in Nat
  BY <1>0, ArgumentsAssumption DEF MessageTypes
<1>3. CASE UNCHANGED <<queueVars, reporterPc, boundVars, alerts>>
  BY <1>1, <1>2, <1>3 DEF queueVars, boundVars
<1>4. CASE \E m \in Mobiles : MobileRead(m)
  BY <1>0, <1>4, MobileReadMessages
<1>5. CASE \E command \in {"data_stats", "reset"} : BackofficeAsk(command)
  BY <1>1, <1>2, <1>5 DEF BackofficeAsk, queueVars
<1>6. CASE BackofficeRead
  BY <1>0, <1>6, BackofficeReadMessages
<1>7. CASE \E e \in AuthEngines, r \in inFlight : EngineStats(e, r)
  BY <1>1, <1>2, <1>7 DEF EngineStats, Serve, queueVars, boundVars, Reporters
<1>8. CASE PeriodicWake
  BY <1>1, <1>2, <1>8 DEF PeriodicWake, queueVars, Reporters
<1>9. CASE \E x \in Reporters : ReporterAcquire(x) \/ ReporterSend(x)
  <2>1. ASSUME NEW x \in Reporters, ReporterAcquire(x) PROVE MessageTypes'
    BY <1>1, <1>2, <2>1 DEF ReporterAcquire, boundVars
  <2> QED
    BY <1>0, <1>9, <2>1, ReporterSendMessages
<1>10. CASE MonitorAcquire
  BY <1>1, <1>2, <1>10 DEF MonitorAcquire, boundVars
<1>11. CASE MonitorSend
  BY <1>11, MonitorSendMessages
<1> QED
  BY <1>3, <1>4, <1>5, <1>6, <1>7, <1>8, <1>9, <1>10, <1>11, MessageWriters

---------------------------------------------------------------------------
\* THE BOOKS

OfMobile(set, m)  == {r \in set : r.from = m}
OfService(set, s) == {r \in set : r.type = s}

\* Each account against the requests granted; each service against those since the reset.
Balanced(book, set) ==
    \A i \in 1 .. Len(book) :
       book[i].initial_plafond - book[i].current_plafond
          = DataOf(OfMobile(set, book[i].mobile_id))

Totalled(used, count, set) ==
    \A s \in Services : /\ used[s] = DataOf(OfService(set, s))
                        /\ count[s] = Cardinality(OfService(set, s))

LEMMA BooksParts ==
    /\ BooksBalance <=> /\ Balanced(accounts, granted)
                        /\ Totalled(plafondUsed, requests, sinceReset)
    /\ BooksBalance' <=> /\ Balanced(accounts', granted')
                         /\ Totalled(plafondUsed', requests', sinceReset')
<1>1. BooksBalance <=> /\ Balanced(accounts, granted)
                       /\ Totalled(plafondUsed, requests, sinceReset)
  BY DEF BooksBalance, Balanced, Totalled, OfMobile, OfService, GrantedTo
<1>2. BooksBalance' <=> /\ Balanced(accounts', granted')
                        /\ Totalled(plafondUsed', requests', sinceReset')
  BY DEF BooksBalance, Balanced, Totalled, OfMobile, OfService, GrantedTo
<1> QED
  BY <1>1, <1>2

\* The conjuncts of TypeOK about the books.
BookTypes ==
    /\ plafondUsed \in [Services -> Nat] /\ requests \in [Services -> Nat]
    /\ sinceReset \subseteq granted

\* A subset of the granted requests has its data.
LEMMA GrantedSubset ==
    ASSUME IInv, NEW set \in SUBSET granted
    PROVE  IsFiniteSet(set) /\ FromMobiles(set) /\ DataOf(set) \in Nat
                            /\ Cardinality(set) \in Nat
<1>1. IsFiniteSet(granted) /\ \A r \in granted : r.from \in Mobiles
  BY DEF IInv, Numbered, TypeOK, MobileRequest
<1>2. IsFiniteSet(set) /\ FromMobiles(set)
  BY <1>1, FS_Subset DEF FromMobiles
<1> QED
  BY <1>2, DataType, FS_CardinalityType

\* The books of an account that is as it was.
SameBook(k, i) ==
    /\ accounts'[k].mobile_id = accounts[i].mobile_id
    /\ accounts'[k].initial_plafond = accounts[i].initial_plafond
    /\ accounts'[k].current_plafond = accounts[i].current_plafond

LEMMA BalancedSame ==
    ASSUME Balanced(accounts, granted), granted' = granted,
           \A k \in 1 .. Len(accounts') : \E i \in 1 .. Len(accounts) : SameBook(k, i)
    PROVE  Balanced(accounts', granted')
BY DEF Balanced, SameBook

LEMMA BooksRegister ==
    ASSUME IInv, NEW e \in AuthEngines, NEW r \in inFlight, EngineRegister(e, r)
    PROVE  BookTypes' /\ BooksBalance'
<1>1. /\ UNCHANGED <<plafondUsed, requests, granted, sinceReset>>
      /\ r.from \notin registered
      /\ accounts' \in Seq(Account) /\ Len(accounts') = Len(accounts) + 1
      /\ \A i \in 1 .. Len(accounts) : accounts'[i] = accounts[i]
      /\ accounts'[Len(accounts) + 1].mobile_id = r.from
      /\ accounts'[Len(accounts) + 1].initial_plafond
            = accounts'[Len(accounts) + 1].current_plafond
  BY RegisterFacts DEF IInv
<1>2. BookTypes /\ Len(accounts) \in Nat
  BY DEF IInv, TypeOK, BookTypes
<1>3. Balanced(accounts, granted) /\ Totalled(plafondUsed, requests, sinceReset)
  BY BooksParts DEF IInv
<1>4. OfMobile(granted, r.from) = {}
  BY <1>1 DEF OfMobile, IInv, Numbered
<1> DEFINE new == accounts'[Len(accounts) + 1]
<1>5. new.initial_plafond - new.current_plafond = 0
  <2>1. new \in Account
    BY <1>1, <1>2
  <2> HIDE DEF new
  <2>2. new.initial_plafond \in Nat
    BY <2>1 DEF Account
  <2> QED
    BY <1>1, <2>2 DEF new
<1>6. Balanced(accounts', granted')
  <2> SUFFICES ASSUME NEW i \in 1 .. Len(accounts')
               PROVE  accounts'[i].initial_plafond - accounts'[i].current_plafond
                         = DataOf(OfMobile(granted, accounts'[i].mobile_id))
    BY <1>1 DEF Balanced
  <2>1. CASE i \in 1 .. Len(accounts)
    BY <1>1, <1>3, <2>1 DEF Balanced
  <2>2. CASE i = Len(accounts) + 1
    BY <1>1, <1>4, <1>5, <2>2, DataNone
  <2> QED
    BY <1>1, <1>2, <2>1, <2>2
<1> QED
  BY <1>1, <1>2, <1>3, <1>6, BooksParts DEF BookTypes

\* The request that is granted is new to all the sums it enters.
LEMMA BooksCharged ==
    ASSUME IInv, NEW r \in inFlight, NEW i \in 1 .. Len(accounts), Charged(i, r)
    PROVE  BookTypes' /\ BooksBalance'
<1> DEFINE data == Arguments[r.from].data
<1>1. /\ r \in MobileRequest /\ r.type \in Services /\ accounts[i].mobile_id = r.from
      /\ accounts' \in Seq(Account) /\ Len(accounts') = Len(accounts)
      /\ \A j \in (1 .. Len(accounts)) \ {i} : accounts'[j] = accounts[j]
      /\ accounts'[i].mobile_id = accounts[i].mobile_id
      /\ accounts'[i].initial_plafond = accounts[i].initial_plafond
      /\ accounts'[i].current_plafond = accounts[i].current_plafond - data
      /\ plafondUsed' = [plafondUsed EXCEPT ![r.type] = @ + data]
      /\ requests' = [requests EXCEPT ![r.type] = @ + 1]
      /\ granted' = granted \cup {r} /\ sinceReset' = sinceReset \cup {r}
  BY DEF Charged
<1>2. r.from \in Mobiles /\ data \in Nat
  BY <1>1, ArgumentsAssumption DEF MobileRequest
<1>3. r \notin granted /\ r \notin sinceReset
  BY DEF IInv, Numbered, TypeOK
<1>4. BookTypes /\ Owned /\ accounts \in Seq(Account)
  BY DEF IInv, TypeOK, BookTypes
<1>5. Balanced(accounts, granted) /\ Totalled(plafondUsed, requests, sinceReset)
  BY BooksParts DEF IInv
<1> HIDE DEF data
<1>6. BookTypes'
  BY <1>1, <1>2, <1>4 DEF BookTypes
<1>7. ASSUME NEW set \in SUBSET granted
      PROVE  /\ DataOf(set \cup {r}) = DataOf(set) + data
             /\ Cardinality(set \cup {r}) = Cardinality(set) + 1
             /\ DataOf(set) \in Nat
  <2>1. IsFiniteSet(set) /\ FromMobiles(set) /\ r \notin set /\ DataOf(set) \in Nat
    BY <1>3, GrantedSubset
  <2> QED
    BY <1>2, <2>1, DataAdd, FS_AddElement DEF data
<1>8. Balanced(accounts', granted')
  <2> SUFFICES ASSUME NEW j \in 1 .. Len(accounts)
               PROVE  accounts'[j].initial_plafond - accounts'[j].current_plafond
                         = DataOf(OfMobile(granted', accounts'[j].mobile_id))
    BY <1>1 DEF Balanced
  <2>1. CASE j = i
    <3> DEFINE before == OfMobile(granted, r.from)
    <3>1. before \in SUBSET granted /\ OfMobile(granted', r.from) = before \cup {r}
      BY <1>1 DEF OfMobile
    <3>2. DataOf(OfMobile(granted', r.from)) = DataOf(before) + data /\ DataOf(before) \in Nat
      BY <1>7, <3>1
    <3>3. accounts[i].initial_plafond - accounts[i].current_plafond = DataOf(before)
      BY <1>1, <1>5 DEF Balanced
    <3>4. accounts[i].initial_plafond \in Nat /\ accounts[i].current_plafond \in Nat
      <4>1. accounts[i] \in Account
        BY <1>4
      <4> QED
        BY <4>1 DEF Account
    <3> HIDE DEF before
    <3> QED
      BY <1>1, <1>2, <2>1, <3>2, <3>3, <3>4
  <2>2. CASE j # i
    <3>1. accounts'[j] = accounts[j] /\ accounts[j].mobile_id # r.from
      BY <1>1, <1>4, <2>2 DEF Owned
    <3>2. OfMobile(granted', accounts[j].mobile_id) = OfMobile(granted, accounts[j].mobile_id)
      BY <1>1, <3>1 DEF OfMobile
    <3> QED
      BY <1>5, <3>1, <3>2 DEF Balanced
  <2> QED
    BY <2>1, <2>2
<1>9. Totalled(plafondUsed', requests', sinceReset')
  <2> SUFFICES ASSUME NEW s \in Services
               PROVE  /\ plafondUsed'[s] = DataOf(OfService(sinceReset', s))
                      /\ requests'[s] = Cardinality(OfService(sinceReset', s))
    BY DEF Totalled
  <2> DEFINE before == OfService(sinceReset, s)
  <2>1. plafondUsed[s] = DataOf(before) /\ requests[s] = Cardinality(before)
    BY <1>5 DEF Totalled
  <2>2. CASE s = r.type
    <3>1. before \in SUBSET granted /\ OfService(sinceReset', s) = before \cup {r}
      BY <1>1, <1>4, <2>2 DEF OfService, BookTypes
    <3>2. /\ DataOf(OfService(sinceReset', s)) = DataOf(before) + data
          /\ Cardinality(OfService(sinceReset', s)) = Cardinality(before) + 1
      BY <1>7, <3>1
    <3> HIDE DEF before
    <3>3. plafondUsed'[s] = plafondUsed[s] + data /\ requests'[s] = requests[s] + 1
      BY <1>1, <1>4, <2>2 DEF BookTypes
    <3> QED
      BY <2>1, <3>2, <3>3
  <2>3. CASE s # r.type
    <3>1. OfService(sinceReset', s) = before
      BY <1>1, <2>3 DEF OfService
    <3>2. plafondUsed'[s] = plafondUsed[s] /\ requests'[s] = requests[s]
      BY <1>1, <1>4, <2>3 DEF BookTypes
    <3> QED
      BY <2>1, <3>1, <3>2
  <2> QED
    BY <2>2, <2>3
<1> QED
  BY <1>6, <1>8, <1>9, BooksParts

LEMMA BooksStep ==
    ASSUME IInv, [Next]_vars
    PROVE  BookTypes' /\ BooksBalance'
<1>0. /\ TypeOK /\ Scanning /\ Owned /\ InOrder /\ BookTypes
      /\ accounts \in Seq(Account) /\ Len(accounts) \in Nat
  BY DEF IInv, TypeOK, BookTypes
<1>1. Balanced(accounts, granted) /\ Totalled(plafondUsed, requests, sinceReset)
  BY BooksParts DEF IInv
<1>2. ASSUME UNCHANGED <<accounts, plafondUsed, requests, granted, sinceReset>>
      PROVE  BookTypes' /\ BooksBalance'
  BY <1>0, <1>1, <1>2, BooksParts DEF BookTypes
<1>3. ASSUME NEW e \in AuthEngines, NEW r \in inFlight, EngineAuthorize(e, r)
      PROVE  BookTypes' /\ BooksBalance'
  BY <1>0, <1>2, <1>3, AuthorizeFacts, BooksCharged
<1>4. ASSUME NEW e \in AuthEngines, NEW r \in inFlight, EngineReset(e, r)
      PROVE  BookTypes' /\ BooksBalance'
  <2>1. /\ UNCHANGED <<accounts, granted>> /\ sinceReset' = {}
        /\ plafondUsed' = [s \in Services |-> 0] /\ requests' = [s \in Services |-> 0]
    BY <1>4 DEF EngineReset
  <2>2. \A s \in Services : OfService({}, s) = {}
    BY DEF OfService
  <2>3. Totalled(plafondUsed', requests', sinceReset')
    BY <2>1, <2>2, DataNone, FS_EmptySet DEF Totalled
  <2>4. BookTypes'
    BY <2>1 DEF BookTypes
  <2> QED
    BY <1>1, <2>1, <2>3, <2>4, BooksParts
<1>5. CASE MonitorEnter \/ MonitorScan \/ MonitorAcquire
  BY <1>0, <1>2, <1>5, LookFacts
<1>6. CASE MonitorSend
  BY <1>0, <1>2, <1>6, SendFacts DEF shmVars
<1>7. CASE MonitorMark
  <2>1. /\ UNCHANGED <<plafondUsed, requests, granted, sinceReset>>
        /\ index \in 1 .. Len(accounts)
        /\ Kept \/ Removed
    BY <1>0, <1>7, MarkFacts
  <2>2. \A k \in 1 .. Len(accounts') : \E i \in 1 .. Len(accounts) : SameBook(k, i)
    <3>1. CASE Kept
      <4>1. \A k \in 1 .. Len(accounts) : SameBook(k, k)
        BY <3>1 DEF Kept, SameBook
      <4> QED
        BY <3>1, <4>1 DEF Kept
    <3>2. CASE Removed
      BY <1>0, <2>1, <3>2, Shifted DEF SameBook
    <3> QED
      BY <2>1, <3>1, <3>2
  <2>3. Balanced(accounts', granted')
    BY <1>1, <2>1, <2>2, BalancedSame
  <2> QED
    BY <1>0, <1>1, <2>1, <2>3, BooksParts DEF BookTypes
<1>8. CASE \E e \in AuthEngines, r \in inFlight :
              EngineRegister(e, r) \/ EngineAuthorize(e, r) \/ EngineReset(e, r)
  BY <1>3, <1>4, <1>8, BooksRegister
<1>9. CASE Monitor
  BY <1>5, <1>6, <1>7, <1>9 DEF Monitor
<1> QED
  BY <1>2, <1>8, <1>9, Writers

---------------------------------------------------------------------------
\* THEOREMS

LEMMA InitInvariant == Init => IInv
<1> SUFFICES ASSUME Init PROVE IInv
  OBVIOUS
<1>1. /\ accounts = << >> /\ Len(accounts) = 0 /\ accounts \in Seq(Account)
      /\ inFlight = {} /\ registered = {} /\ granted = {} /\ sinceReset = {}
      /\ reports = 0 /\ msgQueueSem = 1 /\ monitorPc = "outside" /\ index = 1
      /\ wakeUps = 0 /\ commands = 0
      /\ plafondUsed = [s \in Services |-> 0] /\ requests = [s \in Services |-> 0]
      /\ mobilePc = [m \in Mobiles |-> "new"] /\ asked = [m \in Mobiles |-> 0]
      /\ reporterPc = [r \in Reporters |-> "idle"]
      /\ inbox = [m \in Mobiles |-> << >>] /\ alerts = [m \in Mobiles |-> << >>]
  BY DEF Init
<1>2. << >> \in Seq({0, 10, 20}) /\ Len(<< >>) = 0
  OBVIOUS
<1>3. /\ inbox \in [Mobiles -> Seq({0, 10, 20})] /\ alerts \in [Mobiles -> Seq({0, 10, 20})]
      /\ \A m \in Mobiles : Len(inbox[m]) = 0 /\ Len(alerts[m]) = 0
  BY <1>1, <1>2
<1>4. InboxTotal(inbox) = 0
  <2> DEFINE lengths == [m \in Mobiles |-> Len(inbox[m])]
  <2>1. InboxTotal(inbox) = Total(lengths, Mobiles)
    BY <1>3, InboxTotalValue
  <2>2. \A m \in Mobiles : lengths[m] = 0
    BY <1>3
  <2> HIDE DEF lengths
  <2> QED
    BY <2>1, <2>2, TotalNothing
<1>5. Messages <= QueueCapacity
  BY <1>1, <1>4, MessagesNow, ArgumentsAssumption
<1>6. /\ \A m \in Mobiles : asked[m] <= Arguments[m].requests
      /\ wakeUps \in 0 .. MaxReports /\ commands \in 0 .. MaxCommands
      /\ asked \in [Mobiles -> Nat]
  BY <1>1, ArgumentsAssumption
<1>7. TypeOK
  BY <1>1, <1>3, <1>5, <1>6 DEF TypeOK
<1>8. Scanning /\ OneSender /\ Registering
  BY <1>1 DEF Scanning, OneSender, Registering
<1>9. Numbered
  BY <1>1, FS_EmptySet DEF Numbered
<1>10. Owned /\ InOrder
  BY <1>1 DEF Owned, InOrder
<1>11. AlertsOnce
  BY <1>1, <1>3 DEF AlertsOnce
<1>12. BooksBalance
  <2>1. Balanced(accounts, granted)
    BY <1>1 DEF Balanced
  <2>2. \A s \in Services : OfService(sinceReset, s) = {}
    BY <1>1 DEF OfService
  <2>3. Totalled(plafondUsed, requests, sinceReset)
    BY <1>1, <2>2, DataNone, FS_EmptySet DEF Totalled
  <2> QED
    BY <2>1, <2>3, BooksParts
<1> QED
  BY <1>7, <1>8, <1>9, <1>10, <1>11, <1>12 DEF IInv

LEMMA NextInvariant ==
    ASSUME IInv, [Next]_vars
    PROVE  IInv'
<1>1. TypeOK /\ Scanning /\ OneSender /\ Registering /\ Owned /\ InOrder /\ MessageTypes
  BY DEF IInv, TypeOK, MessageTypes
<1>2. /\ Scanning' /\ accounts' \in Seq(Account)
      /\ monitorPc' \in {"outside", "scan", "acquire", "send", "mark"}
      /\ index' \in 1 .. Len(accounts') + 2
  BY <1>1, ScanningStep
<1>3. RequestTypes' /\ Registering' /\ Numbered'
  BY RequestedStep DEF Requested
<1>4. MessageTypes' /\ OneSender'
  BY <1>1, MessageTypesStep, OneSenderStep
<1>5. BookTypes' /\ BooksBalance'
  BY BooksStep
<1>6. TypeOK'
  BY <1>2, <1>3, <1>4, <1>5 DEF TypeOK, RequestTypes, MessageTypes, BookTypes
<1>7. Owned' /\ InOrder' /\ AlertsOnce'
  BY OwnedStep, InOrderStep, AlertsOnceStep
<1> QED
  BY <1>2, <1>3, <1>4, <1>5, <1>6, <1>7 DEF IInv

\* The invariant holds of every reachable state.
THEOREM Inductive == Spec => []IInv
<1>1. Init => IInv
  BY InitInvariant
<1>2. IInv /\ [Next]_vars => IInv'
  BY NextInvariant
<1> QED
  BY <1>1, <1>2, PTL DEF Spec

\* No plafond is ever negative, both semaphores stay 0 or 1, and the message queue never
\* holds more than it has room for.
THEOREM TypeCorrect == Spec => []TypeOK
<1>1. IInv => TypeOK
  BY DEF IInv
<1> QED
  BY <1>1, Inductive, PTL

\* What accounts have lost and services have used is the data of the requests granted,
\* each counted once, whatever the order of requests, resets and removals.
THEOREM NothingUnpaid == Spec => []BooksBalance
<1>1. IInv => BooksBalance
  BY DEF IInv
<1> QED
  BY <1>1, Inductive, PTL

\* A mobile gets each alert at most once, and 80% before 90% before 100%.
THEOREM AlertedOnce == Spec => []AlertsOnce
<1>1. IInv => AlertsOnce
  BY DEF IInv
<1> QED
  BY <1>1, Inductive, PTL

\* A registered mobile has one account until its 100% alert and none after, though
\* removals move the accounts and the Monitor Engine's index goes on.
THEOREM AccountPerMobile == Spec => []OneAccountEach
<1>1. ASSUME IInv PROVE OneAccountEach
  <2>1. Owned /\ AlertsOnce /\ Scanning /\ TypeOK
    BY <1>1 DEF IInv
  <2>2. accounts \in Seq(Account) /\ Len(accounts) \in Nat /\ index \in 1 .. Len(accounts) + 2
    BY <2>1 DEF TypeOK
  <2> SUFFICES ASSUME NEW m \in Mobiles
               PROVE  IF m \in registered
                            /\ (0 \in Triggered(m) =>
                                   monitorPc = "mark" /\ accounts[index].mobile_id = m)
                      THEN \E i \in Positions(m) : Positions(m) = {i}
                      ELSE Positions(m) = {}
    BY DEF OneAccountEach
  <2>3. ASSUME NEW i \in 1 .. Len(accounts), accounts[i].mobile_id = m
        PROVE  Positions(m) = {i}
    BY <2>1, <2>3 DEF Positions, Owned
  <2>4. CASE m \notin registered
    BY <2>1, <2>4 DEF Positions, Owned
  <2>5. CASE m \in registered /\ 0 \notin Triggered(m)
    <3>1. PICK i \in 1 .. Len(accounts) : accounts[i].mobile_id = m
      BY <2>1, <2>5 DEF Owned
    <3> QED
      BY <2>3, <2>5, <3>1
  <2>6. CASE /\ m \in registered /\ 0 \in Triggered(m)
             /\ monitorPc = "mark" /\ accounts[index].mobile_id = m
    <3>1. index \in 1 .. Len(accounts)
      BY <2>1, <2>2, <2>6 DEF Scanning
    <3> QED
      BY <2>3, <2>6, <3>1
  <2>7. CASE /\ m \in registered /\ 0 \in Triggered(m)
             /\ ~(monitorPc = "mark" /\ accounts[index].mobile_id = m)
    <3>1. ASSUME NEW i \in 1 .. Len(accounts), accounts[i].mobile_id = m
          PROVE  FALSE
      <4>1. monitorPc # "mark" \/ i # index
        BY <2>7, <3>1
      <4>2. accounts[i].alert_sent = Triggered(m)
        BY <2>1, <3>1, <4>1, AlertsOnceParts, RemembersPlain
      <4>3. accounts[i] \in Account
        BY <2>2
      <4> QED
        BY <2>7, <4>2, <4>3 DEF Account
    <3> QED
      BY <2>7, <3>1 DEF Positions
  <2> QED
    BY <2>4, <2>5, <2>6, <2>7
<1> QED
  BY <1>1, Inductive, PTL
============================================================================
