------------------------------ MODULE PaperRun -------------------------------
(***************************************************************************)
(* What the account of paper trading keeps when one process runs at a      *)
(* time.                                                                   *)
(***************************************************************************)
EXTENDS PaperTheorems

-----------------------------------------------------------------------------
(* Steps that leave the account alone. *)

\* What nothing stored changes for is kept by every step that goes on.
LEMMA QuietKeeps ==
    ASSUME OneProcess, IntentInv, PaperInv, NEW p \in Process, Advances(p),
           UNCHANGED <<signals, orders, lifecycle, portfolio, market>>
    PROVE  PaperInv'
<1>1. TablesOK /\ OrdersStored /\ AccountKept /\ SignalsKept
  BY DEF PaperInv, IntentInv, AccountKept, SignalsKept
<1>2. today' = today /\ today \in Nat
  BY <1>1, Tables DEF today
<1>3. SignalsOK' /\ SettledAgreesWithOrder'
  <2>1. SignalsOK'
    BY <1>1, <1>2 DEF TablesOK, SignalsOK
  <2>. QED
    BY <1>1, <2>1 DEF TablesOK, SettledAgreesWithOrder, Status
<1>4. TablesOK'
  BY <1>1, <1>2, <1>3, TablesKept
<1>5. PICK k : Become(p, k) /\ RunInv(k)
  BY DEF Advances
<1>6. Outstanding(k.day)' = Outstanding(k.day) /\ \A s : Bar(k.day, s)' = Bar(k.day, s)
  BY DEF Outstanding, Bar
<1>7. RunInv(k)'
  BY <1>1, <1>2, <1>5, <1>6, RunKept
<1>. QED
  BY <1>4, <1>5, <1>7, OneStep

\* A new session and a new signal are later than what a run works on.
LEMMA WorldKeeps ==
    ASSUME IntentInv, PaperInv, OpenSession \/ QueueSignal
    PROVE  PaperInv'
<1>1. TablesOK /\ OrdersStored /\ OrdersOK
  BY DEF PaperInv, IntentInv, TablesOK
<1>2. /\ today \in Nat /\ today > 0 /\ DOMAIN signals = 1 .. Len(signals)
      /\ Len(signals) \in Nat /\ market \in Seq(Markets)
      /\ signals \in Seq([day : Nat, symbol : Symbol, atr : Payload,
                          status : SignalStatus])
      /\ \A i \in DOMAIN signals : signals[i].day <= today
  BY <1>1, Tables
<1>3. AccountKept /\ UNCHANGED job
  BY DEF OpenSession, QueueSignal, AccountKept, storeVars
<1>4. ASSUME SignalsKept, SignalsOK', SettledAgreesWithOrder', today' \in Nat,
             today <= today',
             \A day \in 1 .. today : Outstanding(day)' = Outstanding(day)
                                     /\ \A s : Bar(day, s)' = Bar(day, s)
      PROVE  PaperInv'
  <2>1. TablesOK'
    BY <1>1, <1>2, <1>3, <1>4, TablesKept
  <2>2. ASSUME NEW p \in Process, NEW j \in {job'[p]} PROVE RunInv(j)'
    <3>1. RunInv(j)
      BY <1>3, <2>2 DEF PaperInv
    <3>2. j.phase # "idle" => j.day \in 1 .. today
      BY <3>1 DEF RunInv, RunOK
    <3>. QED
      BY <1>2, <1>3, <1>4, <3>1, <3>2, RunKept
  <2>. QED
    BY <1>3, <2>1, <2>2 DEF PaperInv
<1>5. CASE OpenSession
  <2>1. UNCHANGED <<signals, orders>>
    BY <1>5 DEF OpenSession, storeVars
  <2>2. PICK bars \in Markets : market' = Append(market, bars)
    BY <1>5 DEF OpenSession
  <2>3. /\ market' \in Seq(Markets) /\ market' # <<>> /\ Len(market') = Len(market) + 1
        /\ \A day \in 1 .. Len(market) : market'[day] = market[day]
    BY <1>2, <2>2
  <2>4. today' \in Nat /\ today <= today' /\ SignalsKept
    BY <1>2, <2>1, <2>3 DEF today, SignalsKept
  <2>5. SignalsOK'
    <3>1. \A i \in DOMAIN signals' : signals'[i].day <= today'
      <4>1. ASSUME NEW i \in DOMAIN signals PROVE signals[i].day <= today'
        <5>1. signals[i].day \in Nat /\ signals[i].day <= today
          BY <1>1, Tables
        <5>. QED
          BY <1>2, <2>4, <5>1
      <4>. QED
        BY <2>1, <4>1
    <3>. QED
      BY <1>2, <2>1, <2>3, <3>1 DEF SignalsOK
  <2>6. SettledAgreesWithOrder'
    BY <1>1, <2>1 DEF TablesOK, SettledAgreesWithOrder, Status
  <2>7. \A day \in 1 .. today : Outstanding(day)' = Outstanding(day)
                                /\ \A s : Bar(day, s)' = Bar(day, s)
    BY <2>1, <2>3 DEF Outstanding, Bar, today
  <2>. QED
    BY <1>4, <2>4, <2>5, <2>6, <2>7
<1>6. CASE QueueSignal
  <2>1. UNCHANGED <<orders, market>>
    BY <1>6 DEF QueueSignal, Others
  <2>2. PICK s \in Symbol, atr \in Payload : Queue(today, s, atr)
    BY <1>6 DEF QueueSignal
  <2>. PICK new : new = [day |-> today, symbol |-> s, atr |-> atr, status |-> "PENDING"]
    OBVIOUS
  <2>. PICK n : n = Len(signals)
    OBVIOUS
  <2>3. signals' = Append(signals, new)
    BY <2>2 DEF Queue
  <2>4. /\ new \in [day : Nat, symbol : Symbol, atr : Payload, status : SignalStatus]
        /\ new.day = today /\ new.status = "PENDING"
    BY <1>2 DEF SignalStatus
  <2>5. /\ signals' \in Seq([day : Nat, symbol : Symbol, atr : Payload,
                             status : SignalStatus])
        /\ DOMAIN signals' = 1 .. n + 1 /\ signals'[n + 1] = new
        /\ \A i \in 1 .. n : signals'[i] = signals[i]
    <3>1. ASSUME NEW R, signals \in Seq(R), new \in R
          PROVE  /\ signals' \in Seq(R)
                 /\ DOMAIN signals' = 1 .. n + 1 /\ signals'[n + 1] = new
                 /\ \A i \in 1 .. n : signals'[i] = signals[i]
      BY <2>3, <3>1
    <3>. QED
      BY <1>2, <2>4, <3>1
  <2>6. /\ DOMAIN signals = 1 .. n /\ n \in Nat
        /\ \A i \in DOMAIN signals' : i \in DOMAIN signals \/ i = n + 1
    BY <1>2, <2>5
  <2>7. SignalsKept /\ today' = today
    BY <2>1, <2>5, <2>6 DEF SignalsKept, today
  <2>8. SignalsOK'
    <3>1. \A i \in DOMAIN signals' : signals'[i].day <= today
      BY <1>2, <2>4, <2>5, <2>6
    <3>2. market' \in Seq(Markets) /\ market' # <<>>
      BY <1>1, <2>1 DEF TablesOK, SignalsOK
    <3>3. \A i \in DOMAIN signals' : signals'[i].day <= today'
      BY <2>7, <3>1
    <3>4. signals' \in Seq([day : Nat, symbol : Symbol, atr : Payload,
                            status : SignalStatus])
      BY <2>5
    <3>. QED
      BY <3>2, <3>3, <3>4, Zenon DEF SignalsOK
  <2>9. SettledAgreesWithOrder'
    BY <1>1, <2>1, <2>4, <2>5, <2>6 DEF TablesOK, SettledAgreesWithOrder, Status
  <2>10. ASSUME NEW day \in 1 .. today
         PROVE  Outstanding(day)' = Outstanding(day) /\ \A r : Bar(day, r)' = Bar(day, r)
    <3>1. ~(signals'[n + 1].day < day)
      BY <1>2, <2>4, <2>5
    <3>. QED
      BY <2>1, <2>5, <2>6, <3>1 DEF Outstanding, Bar
  <2>. QED
    BY <1>2, <1>4, <2>7, <2>8, <2>9, <2>10
<1>. QED
  BY <1>5, <1>6

\* Completing a pending signal with what agrees with its order.
LEMMA CompleteKeeps ==
    ASSUME TablesOK, OrdersStored, NEW i \in DOMAIN signals, NEW status,
           Agrees(i, status), Complete(i, status),
           UNCHANGED <<orders, lifecycle, portfolio, market>>
    PROVE  /\ TablesOK' /\ AccountKept /\ SignalsKept
           /\ \A day : Outstanding(day)' = Outstanding(day) \ {i}
<1>. PICK n : n = Len(signals)
  OBVIOUS
<1>. PICK R : R = [day : Nat, symbol : Symbol, atr : Payload, status : SignalStatus]
  OBVIOUS
<1>1. /\ today \in Nat /\ DOMAIN signals = 1 .. n /\ n \in Nat
      /\ signals \in Seq(R)
      /\ \A k \in 1 .. n : signals[k].day <= today
  BY Tables
<1>2. \A k \in 1 .. n : signals[k] \in R
  <2>1. ASSUME NEW Q, signals \in Seq(Q) PROVE \A k \in 1 .. n : signals[k] \in Q
    BY <1>1, <2>1
  <2>. QED
    BY <1>1, <2>1
<1>3. status \in SignalStatus /\ status # "PENDING"
  BY DEF Agrees
<1>4. /\ DOMAIN signals' = 1 .. n /\ signals' = [k \in 1 .. n |-> signals'[k]]
      /\ \A k \in 1 .. n : k # i => signals'[k] = signals[k]
      /\ signals[i].status = "PENDING" => signals'[i] = [signals[i] EXCEPT !.status = status]
      /\ signals[i].status # "PENDING" => signals'[i] = signals[i]
  <2>1. /\ DOMAIN signals' = 1 .. n /\ signals' = [k \in 1 .. n |-> signals'[k]]
        /\ \A k \in 1 .. n : k # i => signals'[k] = signals[k]
    BY <1>1 DEF Complete
  <2>2. PICK r : r = signals[i] /\ r \in R
    BY <1>1, <1>2
  <2>3. signals'[i] = [r EXCEPT !.status = IF @ = "PENDING" THEN status ELSE @]
    BY <1>1, <2>2 DEF Complete
  <2>4. r.status = "PENDING" => signals'[i] = [r EXCEPT !.status = status]
    BY <2>3
  <2>5. r.status # "PENDING" => signals'[i] = r
    BY <2>2, <2>3
  <2>. QED
    BY <2>1, <2>2, <2>4, <2>5
<1>5. /\ signals'[i] \in R /\ signals'[i].day = signals[i].day
      /\ signals'[i].symbol = signals[i].symbol /\ signals'[i].status # "PENDING"
      /\ signals[i].status = "PENDING" => signals'[i].status = status
      /\ signals[i].status # "PENDING" => signals'[i].status = signals[i].status
  BY <1>2, <1>3, <1>4
<1>6. signals' \in Seq(R)
  <2>1. \A k \in 1 .. n : signals'[k] \in R
    BY <1>2, <1>4, <1>5
  <2>2. signals' \in [1 .. n -> R]
    BY <1>4, <2>1
  <2>. QED
    BY <1>1, <2>2
<1>7. SignalsKept /\ AccountKept /\ today' = today
  BY <1>1, <1>4, <1>5 DEF SignalsKept, AccountKept, today
<1>8. SignalsOK'
  <2>1. market' \in Seq(Markets) /\ market' # <<>>
    BY DEF TablesOK, SignalsOK
  <2>2. \A k \in DOMAIN signals' : signals'[k].day <= today
    BY <1>1, <1>4, <1>5
  <2>. QED
    BY <1>6, <1>7, <2>1, <2>2 DEF SignalsOK
<1>9. SettledAgreesWithOrder'
  <2>1. \A k : Status(Entry(k))' = Status(Entry(k))
    BY DEF Status
  <2>2. ASSUME NEW k \in DOMAIN signals', signals'[k].status # "PENDING"
        PROVE  signals'[k].status \in {"FILLED", "ALREADY_EXECUTED"}
               <=> Status(Entry(k)) = "FILLED"
    <3>1. CASE k # i \/ signals[i].status # "PENDING"
      BY <1>1, <1>4, <1>5, <2>2, <3>1 DEF TablesOK, SettledAgreesWithOrder
    <3>2. CASE k = i /\ signals[i].status = "PENDING"
      BY <1>5, <3>2 DEF Agrees, Bought
    <3>. QED
      BY <3>1, <3>2
  <2>. QED
    BY <2>1, <2>2 DEF SettledAgreesWithOrder
<1>10. TablesOK'
  BY <1>1, <1>7, <1>8, <1>9, TablesKept
<1>11. ASSUME NEW day PROVE Outstanding(day)' = Outstanding(day) \ {i}
  BY <1>1, <1>4, <1>5 DEF Outstanding
<1>. QED
  BY <1>7, <1>10, <1>11
\* The first loops settle a signal and go on with the others.
LEMMA SettleKeeps ==
    ASSUME OneProcess, IntentInv, PaperInv, NEW p \in Process, SettleSignal(p)
    PROVE  PaperInv'
<1>. PICK j : j = job[p]
  OBVIOUS
<1>. PICK i : i = Head(j.todo)
  OBVIOUS
<1>1. TablesOK /\ OrdersStored /\ RunInv(j) /\ j.phase \in {"settle", "settlePriced"}
  BY DEF PaperInv, IntentInv, SettleSignal
<1>2. /\ Fields(j) /\ RunOK(j) /\ j.todo # <<>> /\ Agrees(i, j.verdict)
      /\ j.phase = "settle" => VisitOK(j, Outstanding(j.day), Executable(j))
      /\ j.phase = "settlePriced" => VisitOK(j, Executable(j), Tradable(j))
      /\ VisitOK(j, Outstanding(j.day), Executable(j))
  <2>1. Tradable(j) \subseteq Executable(j) /\ Executable(j) \subseteq Outstanding(j.day)
    BY DEF Tradable, Executable
  <2>2. /\ Fields(j) /\ RunOK(j) /\ j.todo # <<>> /\ Agrees(i, j.verdict)
        /\ j.phase = "settle" => VisitOK(j, Outstanding(j.day), Executable(j))
        /\ j.phase = "settlePriced" => VisitOK(j, Executable(j), Tradable(j))
    BY <1>1 DEF RunInv, FirstLoops
  <2>. QED
    BY <1>1, <2>1, <2>2 DEF VisitOK
<1>. PICK S : j.todo \in Seq(S) /\ j.kept \in Seq(S)
  BY <1>2 DEF VisitOK
<1>3. /\ Tail(j.todo) \in Seq(S)
      /\ Elements(j.todo) = {i} \cup Elements(Tail(j.todo))
      /\ Distinct(Tail(j.todo)) /\ i \notin Elements(Tail(j.todo))
  BY <1>2, VisitFirst DEF VisitOK
<1>4. i \in Outstanding(j.day) /\ i \in DOMAIN signals /\ i \notin Elements(j.kept)
  BY <1>2, <1>3 DEF VisitOK, Outstanding
<1>5. UNCHANGED <<orders, lifecycle, portfolio, market>> /\ Complete(i, j.verdict)
  BY DEF SettleSignal, Others, First
<1>6. /\ TablesOK' /\ AccountKept /\ SignalsKept
      /\ \A day : Outstanding(day)' = Outstanding(day) \ {i}
  BY <1>1, <1>2, <1>4, <1>5, CompleteKeeps
<1>. DEFINE k == [j EXCEPT !.phase = IF @ = "settle" THEN "fresh" ELSE "price",
                           !.todo = Tail(@), !.verdict = ""]
<1>7. Become(p, k)
  BY DEF SettleSignal
<1>8. /\ Fields(k) /\ k.todo = Tail(j.todo) /\ k.kept = j.kept /\ k.day = j.day
      /\ k.mem = j.mem
      /\ k.phase = IF j.phase = "settle" THEN "fresh" ELSE "price"
  BY <1>2 DEF Fields
<1>. HIDE DEF k
<1>9. RunOK(k)'
  BY <1>2, <1>5, <1>8 DEF RunOK, today
<1>10. /\ Executable(k)' = Executable(j) \ {i}
       /\ Tradable(k)' = Tradable(j) \ {i}
  <2>1. Executable(k)' = Executable(j) \ {i}
    <3>1. \A m : Status(Entry(m))' = Status(Entry(m))
      BY <1>5 DEF Status
    <3>2. \A m \in Outstanding(j.day) : signals'[m].day = signals[m].day
      BY <1>6 DEF SignalsKept, Outstanding
    <3>. QED
      BY <1>6, <1>8, <3>1, <3>2 DEF Executable
  <2>2. \A m \in Executable(j) : signals'[m].symbol = signals[m].symbol
    BY <1>6 DEF SignalsKept, Executable, Outstanding
  <2>. QED
    BY <1>5, <1>8, <2>1, <2>2 DEF Tradable, Bar
<1>11. ASSUME NEW may, NEW passed, VisitOK(j, may, passed)
       PROVE  VisitOK(k, may \ {i}, passed \ {i})'
  BY <1>3, <1>4, <1>6, <1>8, <1>11 DEF VisitOK
<1>12. FirstLoops(k)'
  <2>. PICK out : out = Outstanding(j.day)
    OBVIOUS
  <2>. PICK due : due = Executable(j)
    OBVIOUS
  <2>. PICK priced : priced = Tradable(j)
    OBVIOUS
  <2>1. CASE j.phase = "settle"
    <3>1. VisitOK(k, out \ {i}, due \ {i})'
      BY <1>2, <1>11, <2>1
    <3>2. Outstanding(k.day)' = out \ {i} /\ Executable(k)' = due \ {i}
      BY <1>6, <1>8, <1>10
    <3>. QED
      BY <1>8, <2>1, <3>1, <3>2 DEF FirstLoops, VisitOK
  <2>2. CASE j.phase = "settlePriced"
    <3>1. VisitOK(k, due \ {i}, priced \ {i})'
      BY <1>2, <1>11, <2>2
    <3>2. Executable(k)' = due \ {i} /\ Tradable(k)' = priced \ {i}
      BY <1>10
    <3>. QED
      BY <1>8, <2>2, <3>1, <3>2 DEF FirstLoops, VisitOK
  <2>. QED
    BY <1>1, <2>1, <2>2
<1>13. RunInv(k)'
  BY <1>8, <1>9, <1>12 DEF RunInv, LastLoops, Managing, Phase, Fields
<1>. QED
  BY <1>6, <1>7, <1>13, OneStep

\* The last loop completes every executed signal with its result.
LEMMA CompleteSignalKeeps ==
    ASSUME OneProcess, IntentInv, PaperInv, NEW p \in Process, CompleteSignal(p)
    PROVE  PaperInv'
<1>. PICK j : j = job[p]
  OBVIOUS
<1>. PICK q : q = j.todo
  OBVIOUS
<1>. PICK i : i = Head(q)[1]
  OBVIOUS
<1>. PICK status : status = Head(q)[2]
  OBVIOUS
<1>1. TablesOK /\ OrdersStored /\ RunInv(j) /\ j.phase = "complete" /\ q # <<>>
  BY DEF PaperInv, IntentInv, CompleteSignal, At
<1>2. /\ Fields(j) /\ RunOK(j) /\ ResultsOK(q) /\ Visited(q) = Outstanding(j.day)
  BY <1>1 DEF RunInv, LastLoops
<1>. PICK S : q \in Seq(S)
  BY <1>2 DEF ResultsOK
<1>3. /\ Head(q) = q[1] /\ 1 \in DOMAIN q
      /\ Tail(q) \in Seq(S) /\ Len(q) \in Nat /\ DOMAIN q = 1 .. Len(q)
      /\ DOMAIN Tail(q) = 1 .. Len(q) - 1
      /\ \A m \in DOMAIN Tail(q) : Tail(q)[m] = q[m + 1]
  BY <1>1
<1>4. \A m \in DOMAIN Tail(q) : m + 1 \in DOMAIN q /\ m + 1 # 1
  BY <1>3
<1>5. i \in DOMAIN signals /\ Agrees(i, status)
  BY <1>2, <1>3 DEF ResultsOK
<1>6. UNCHANGED <<orders, lifecycle, portfolio, market>> /\ Complete(i, status)
  BY DEF CompleteSignal, Others, First
<1>7. /\ TablesOK' /\ AccountKept /\ SignalsKept
      /\ \A day : Outstanding(day)' = Outstanding(day) \ {i}
  BY <1>1, <1>5, <1>6, CompleteKeeps
<1>. DEFINE k == [j EXCEPT !.todo = Tail(@)]
<1>8. Become(p, k)
  BY DEF CompleteSignal
<1>9. /\ Fields(k) /\ k.todo = Tail(q) /\ k.day = j.day /\ k.mem = j.mem
      /\ k.phase = "complete"
  BY <1>1, <1>2 DEF Fields
<1>. HIDE DEF k
<1>10. RunOK(k)'
  BY <1>2, <1>6, <1>9 DEF RunOK, today
<1>11. ResultsOK(k.todo)'
  <2>1. \A m : Bought(m)' <=> Bought(m)
    BY <1>6 DEF Bought, Status
  <2>2. \A m \in DOMAIN Tail(q) : /\ Tail(q)[m] = <<Tail(q)[m][1], Tail(q)[m][2]>>
                                  /\ Tail(q)[m][1] \in DOMAIN signals'
                                  /\ Agrees(Tail(q)[m][1], Tail(q)[m][2])'
    BY <1>2, <1>3, <1>4, <1>7, <2>1 DEF ResultsOK, Agrees, SignalsKept
  <2>3. ASSUME NEW m \in DOMAIN Tail(q), NEW n \in DOMAIN Tail(q),
               Tail(q)[m][1] = Tail(q)[n][1]
        PROVE  m = n
    <3>1. m + 1 = n + 1
      BY <1>2, <1>3, <1>4, <2>3 DEF ResultsOK
    <3>. QED
      BY <1>3, <3>1
  <2>. QED
    BY <1>3, <1>9, <2>2, <2>3 DEF ResultsOK
<1>12. Visited(k.todo) = Visited(q) \ {i}
  <2>1. \A m \in DOMAIN Tail(q) : Tail(q)[m][1] # i /\ Tail(q)[m][1] \in Visited(q)
    BY <1>2, <1>3, <1>4 DEF ResultsOK, Visited
  <2>2. \A m \in DOMAIN q : m = 1 \/ (m - 1 \in DOMAIN Tail(q) /\ Tail(q)[m - 1] = q[m])
    BY <1>3
  <2>3. ASSUME NEW m \in DOMAIN q, q[m][1] # i
        PROVE  \E n \in DOMAIN Tail(q) : Tail(q)[n][1] = q[m][1]
    <3>1. m # 1
      BY <1>3, <2>3
    <3>. QED
      BY <2>2, <3>1
  <2>4. Visited(Tail(q)) \subseteq Visited(q) \ {i}
    BY <2>1 DEF Visited
  <2>5. ASSUME NEW v \in Visited(q), v # i PROVE v \in Visited(Tail(q))
    <3>1. PICK m \in DOMAIN q : q[m][1] = v
      BY <2>5 DEF Visited
    <3>2. PICK n \in DOMAIN Tail(q) : Tail(q)[n][1] = v
      BY <2>3, <2>5, <3>1
    <3>. QED
      BY <3>2 DEF Visited
  <2>. QED
    BY <1>9, <2>4, <2>5
<1>13. Visited(k.todo)' = Outstanding(k.day)'
  BY <1>2, <1>7, <1>9, <1>12 DEF Visited
<1>14. RunInv(k)'
  BY <1>9, <1>10, <1>11, <1>13 DEF RunInv, FirstLoops, LastLoops, Managing, Phase, Fields
<1>. QED
  BY <1>7, <1>8, <1>14, OneStep

-----------------------------------------------------------------------------
(* Steps that save a lifecycle row again. *)

\* A valid row of a symbol with a row replaces it: it is of the same signal.
LEMMA SaveRowKeeps ==
    ASSUME TablesOK, NEW s \in Symbol, NEW r, lifecycle[s] # NoRow, RowOK(s, r),
           SaveLifecycle(s, r), UNCHANGED <<signals, orders, portfolio, market>>
    PROVE  /\ TablesOK' /\ lifecycle'[s] # NoRow /\ lifecycle'[s].day = r.day
           /\ \A t \in Symbol : t # s => lifecycle'[t] = lifecycle[t]
<1>. DEFINE new == [entry |-> r.entry, day |-> r.day, price |-> r.price,
                    qty |-> r.qty, stop |-> r.stop, target |-> r.target,
                    highest |-> r.highest, trailing |-> r.trailing,
                    since |-> r.since, stamp |-> clock + 1]
<1>1. /\ RowFields(new) /\ new.entry = r.entry /\ new.day = r.day /\ new.price = r.price
      /\ new.stop = r.stop /\ new.target = r.target /\ new.highest = r.highest
      /\ new.trailing = r.trailing /\ new # NoRow
  <2>1. "day" \in DOMAIN new /\ "day" \notin DOMAIN NoRow
    BY DEF NoRow
  <2>2. new # NoRow
    BY <2>1
  <2>. QED
    BY <2>2 DEF RowFields
<1>2. lifecycle' = [lifecycle EXCEPT ![s] = new]
  BY DEF SaveLifecycle
<1>. HIDE DEF new
<1>3. /\ lifecycle' = [t \in Symbol |-> lifecycle'[t]] /\ lifecycle'[s] = new
      /\ \A t \in Symbol : t # s => lifecycle'[t] = lifecycle[t]
  BY <1>2 DEF TablesOK, LifecycleOK
<1>4. /\ \A x : Status(x)' = Status(x)
      /\ \A i : Bought(i)' <=> Bought(i)
      /\ \A i : Sold(i)' <=> Sold(i)
      /\ OpenSells' = OpenSells /\ today' = today
      /\ \A t : Holds(portfolio, t)' <=> Holds(portfolio, t)
  BY DEF Status, Bought, Sold, OpenSells, Holds, today
<1>5. ASSUME NEW t \in Symbol, NEW x, RowOK(t, x) PROVE RowOK(t, x)'
  BY <1>4, <1>5 DEF RowOK
<1>6. RowOK(s, new)
  BY <1>1 DEF RowOK, ValidRow
<1>7. LifecycleOK'
  <2>1. ASSUME NEW t \in Symbol, lifecycle'[t] # NoRow PROVE RowOK(t, lifecycle[t])'
    <3>. PICK x : x = lifecycle'[t]
      OBVIOUS
    <3>1. RowOK(t, x)
      BY <1>3, <1>6, <2>1 DEF TablesOK, LifecycleOK
    <3>2. RowOK(t, x)'
      BY <1>5, <3>1
    <3>. QED
      BY <3>2 DEF RowOK, RowFields
  <2>. QED
    BY <1>3, <2>1 DEF LifecycleOK
<1>8. HeldHasLifecycle'
  BY <1>1, <1>3, <1>4 DEF TablesOK, HeldHasLifecycle
<1>9. DealsOK'
  <2>1. \A i \in DOMAIN signals : signals[i].symbol \in Symbol
    BY Tables
  <2>2. lifecycle[s].entry = r.entry
    BY DEF TablesOK, DealsOK, RowOK
  <2>. QED
    BY <1>1, <1>3, <1>4, <2>1, <2>2 DEF TablesOK, DealsOK
<1>10. OrdersOK' /\ OpenSalesOK'
  BY <1>4 DEF TablesOK, OrdersOK, OpenSalesOK, BuyOK, SellTerms
<1>11. SignalsOK' /\ portfolio' \in PortfolioType /\ SettledAgreesWithOrder'
  BY <1>4 DEF TablesOK, SignalsOK, SettledAgreesWithOrder
<1>. QED
  BY <1>1, <1>3, <1>7, <1>8, <1>9, <1>10, <1>11 DEF TablesOK
\* No row is later than the run that saves one.
LEMMA SavedRowDay ==
    ASSUME NEW j, RunOK(j), NEW s \in Symbol, NEW r, r.day <= j.day,
           lifecycle'[s].day = r.day,
           \A t \in Symbol : t # s => lifecycle'[t] = lifecycle[t],
           UNCHANGED <<portfolio, market>>,
           NEW k, k.mem = j.mem, k.day = j.day
    PROVE  RunOK(k)'
<1>1. \A t \in Symbol : lifecycle'[t] # NoRow => lifecycle'[t].day <= k.day
  BY DEF RunOK
<1>2. k.mem = portfolio' /\ k.day \in 1 .. today'
  BY DEF RunOK, today
<1>. QED
  BY <1>1, <1>2 DEF RunOK

\* The row of a bought position is saved a second time.
LEMMA InitializeKeeps ==
    ASSUME OneProcess, IntentInv, PaperInv, NEW p \in Process, InitializePosition(p)
    PROVE  PaperInv'
<1>. PICK j : j = job[p]
  OBVIOUS
<1>. PICK i : i = Head(j.todo)
  OBVIOUS
<1>. PICK s : s = signals[i].symbol
  OBVIOUS
<1>1. TablesOK /\ RunInv(j) /\ j.phase = "initialize"
  BY DEF PaperInv, InitializePosition, At
<1>2. Fields(j) /\ RunOK(j) /\ InitializeOK(j)
  BY <1>1 DEF RunInv, LastLoops
<1>3. /\ j.todo # <<>> /\ ExecuteOK(j, {i}) /\ i \in Outstanding(j.day)
      /\ Agrees(i, j.verdict) /\ lifecycle[s] # NoRow
      /\ RowOK(s, j.row) /\ j.row.day <= j.day
  BY <1>1, <1>2 DEF InitializeOK
<1>4. s \in Symbol
  BY <1>1, <1>3, Tables DEF Outstanding
<1>5. SaveLifecycle(s, j.row) /\ UNCHANGED <<signals, orders, portfolio, market>>
  BY DEF InitializePosition, First, Others
<1>6. /\ TablesOK' /\ lifecycle'[s] # NoRow /\ lifecycle'[s].day = j.row.day
      /\ \A t \in Symbol : t # s => lifecycle'[t] = lifecycle[t]
  BY <1>1, <1>3, <1>4, <1>5, SaveRowKeeps
<1>. DEFINE k == [j EXCEPT !.phase = "initialized", !.row = NoRow]
<1>7. Become(p, k)
  BY DEF InitializePosition
<1>8. /\ Fields(k) /\ k.todo = j.todo /\ k.kept = j.kept /\ k.day = j.day
      /\ k.mem = j.mem /\ k.verdict = j.verdict /\ k.phase = "initialized"
  BY <1>2 DEF Fields
<1>. HIDE DEF k
<1>9. RunOK(k)'
  BY <1>2, <1>3, <1>4, <1>5, <1>6, <1>8, SavedRowDay
<1>10. ExecuteOK(k, {i})
  BY <1>3, <1>8 DEF ExecuteOK, Tradable, Executable
<1>11. ExecuteOK(k, {i})' /\ Agrees(i, k.verdict)' /\ i \in Outstanding(k.day)'
  <2>1. /\ Outstanding(k.day)' = Outstanding(k.day) /\ Executable(k)' = Executable(k)
        /\ Tradable(k)' = Tradable(k)
        /\ \A m, v : Agrees(m, v)' <=> Agrees(m, v)
    BY <1>5 DEF Outstanding, Executable, Tradable, Bar, Status, Agrees, Bought
  <2>2. ResultsOK(k.kept)'
    BY <1>5, <1>10, <2>1 DEF ExecuteOK, ResultsOK
  <2>3. ExecuteOK(k, {i})'
    BY <1>10, <2>1, <2>2 DEF ExecuteOK
  <2>. QED
    BY <1>3, <1>8, <2>1, <2>3
<1>12. InitializeOK(k)'
  <2>1. Head(k.todo) = i /\ k.todo # <<>> /\ k.phase # "initialize"
        /\ signals'[i].symbol = s
    BY <1>3, <1>5, <1>8
  <2>. QED
    BY <1>6, <1>11, <2>1 DEF InitializeOK
<1>13. RunInv(k)'
  BY <1>8, <1>9, <1>12 DEF RunInv, FirstLoops, LastLoops, Managing, Phase, Fields
<1>. QED
  BY <1>6, <1>7, <1>13, OneStep

\* The row of a position that is held is saved with the levels carried over.
LEMMA SaveHoldKeeps ==
    ASSUME OneProcess, IntentInv, PaperInv, NEW p \in Process, SaveHold(p)
    PROVE  PaperInv'
<1>. PICK j : j = job[p]
  OBVIOUS
<1>. PICK s : s = j.sale[1]
  OBVIOUS
<1>1. TablesOK /\ RunInv(j) /\ j.phase = "hold"
  BY DEF PaperInv, SaveHold, At
<1>2. /\ Fields(j) /\ RunOK(j) /\ ManageOK(j, {}) /\ s \in j.held
      /\ RowOK(s, j.row) /\ j.row.day <= j.day
      /\ \A x \in OpenSells : orders[x].symbol # s
  BY <1>1 DEF RunInv, Managing, HoldOK
<1>3. s \in Symbol /\ Holds(portfolio, s)
  BY <1>2 DEF ManageOK
<1>4. lifecycle[s] # NoRow
  BY <1>1, <1>3 DEF TablesOK, HeldHasLifecycle
<1>5. SaveLifecycle(s, j.row) /\ UNCHANGED <<signals, orders, portfolio, market>>
  BY DEF SaveHold, Others
<1>6. /\ TablesOK' /\ lifecycle'[s].day = j.row.day
      /\ \A t \in Symbol : t # s => lifecycle'[t] = lifecycle[t]
  BY <1>1, <1>2, <1>3, <1>4, <1>5, SaveRowKeeps
<1>. PICK k : k = Done(p, s)
  OBVIOUS
<1>7. Become(p, k)
  BY <1>2, <1>3 DEF SaveHold, RunOK
<1>8. /\ Fields(k) /\ k.phase = "manage" /\ k.day = j.day /\ k.mem = j.mem
      /\ k.held = j.held \ {s} /\ k.list = j.list /\ k.sells = j.sells
  <2>1. j = job[p] /\ Fields(j) /\ k = Done(p, s)
    BY <1>2
  <2>. QED
    BY ONLY <2>1, DoneFields
<1>9. ManageOK(k, {})
  BY <1>2, <1>8, DoneKnows
<1>10. ManageOK(k, {})'
  BY <1>5, <1>9 DEF ManageOK, Outstanding, OpenSells, Status, Bar, Holds
<1>11. RunOK(k)'
  BY <1>2, <1>3, <1>5, <1>6, <1>8, SavedRowDay
<1>12. RunInv(k)'
  BY <1>8, <1>10, <1>11 DEF RunInv, FirstLoops, LastLoops, Managing, Phase, Fields
<1>. QED
  BY <1>6, <1>7, <1>12, OneStep

-----------------------------------------------------------------------------
(* Steps that store an entry. *)

\* The order of a tradable signal is the one its entry may have.
LEMMA EntryTerms ==
    ASSUME TablesOK, NEW p, NEW j, j = job[p], RunOK(j), NEW i, i = First(p),
           i \in Tradable(j), NEW qty \in Quantity, NEW o, o = BuyOrder(p, qty)
    PROVE  /\ i \in DOMAIN signals /\ signals[i].symbol \in Symbol
           /\ OrderRecord(o) /\ o.status = "NEW"
           /\ o.side = "BUY" /\ o.symbol = signals[i].symbol
           /\ o.day = signals[i].day + 1 /\ o.day = j.day /\ o.day <= today
           /\ o.day \in Nat
           /\ o.qty = qty /\ qty \in Nat \ {0} /\ o.price \in Price
           /\ o.stop \in Int /\ o.target \in Int
<1>1. /\ i \in DOMAIN signals /\ signals[i].day + 1 = j.day
      /\ Bar(j.day, signals[i].symbol) # NoBar
  BY DEF Tradable, Executable, Outstanding
<1>2. /\ signals[i].symbol \in Symbol /\ signals[i].atr \in Nat /\ signals[i].day \in Nat
  BY <1>1, Tables, ExecutionAssumption
<1>. PICK b : b = Bar(j.day, signals[i].symbol)
  OBVIOUS
<1>3. ValidBar(b)
  BY <1>1, <1>2, StoredBar DEF RunOK
<1>4. Open(p) = b.open /\ b.open \in Price
  BY <1>3 DEF Open, ValidBar
<1>. PICK down : down = StopAtr * signals[i].atr
  OBVIOUS
<1>. PICK up : up = TargetAtr * signals[i].atr
  OBVIOUS
<1>5. down \in Int /\ up \in Int
  BY <1>2, StoreAssumption
<1>6. /\ o.price = b.open /\ o.stop = b.open - down /\ o.target = b.open + up
      /\ o.side = "BUY" /\ o.symbol = signals[i].symbol /\ o.day = j.day
      /\ o.qty = qty /\ o.status = "NEW" /\ OrderRecord(o)
  BY <1>4, <1>5 DEF BuyOrder, Stop, OrderRecord
<1>7. o.stop \in Int /\ o.target \in Int
  BY <1>4, <1>5, <1>6 DEF Price
<1>8. qty \in Nat \ {0}
  BY ExecutionAssumption
<1>9. o.day <= today /\ o.day \in Nat
  BY <1>6, Tables DEF RunOK
<1>. QED
  BY <1>1, <1>2, <1>4, <1>6, <1>7, <1>8, <1>9

\* The order of a signal joins the stored ones.
AddsEntryOrder(i, o) ==
    orders' = [x \in DOMAIN orders \cup {Entry(i)} |-> IF x = Entry(i) THEN o ELSE orders[x]]

\* The first order of a pending signal concerns no other signal and no exit.
LEMMA EntryOrderAdded ==
    ASSUME TablesOK, OrdersStored, NEW i \in DOMAIN signals,
           signals[i].status = "PENDING", Status(Entry(i)) = "NONE",
           NEW o, BuyOK(i, o), AddsEntryOrder(i, o), UNCHANGED <<signals, market>>
    PROVE  /\ OrdersOK' /\ SignalsOK' /\ SettledAgreesWithOrder'
           /\ \A x : x # Entry(i) => Status(x)' = Status(x)
           /\ Status(Entry(i))' = o.status
           /\ \A m : m # i => (Bought(m)' <=> Bought(m))
           /\ \A m : Sold(m)' <=> Sold(m)
           /\ OpenSells' = OpenSells
           /\ \A x \in OpenSells : orders'[x] = orders[x]
<1>1. Entry(i) \notin DOMAIN orders
  BY NoneIsNew DEF OrdersStored
<1>2. /\ DOMAIN orders' = DOMAIN orders \cup {Entry(i)} /\ orders'[Entry(i)] = o
      /\ \A x \in DOMAIN orders : orders'[x] = orders[x] /\ x # Entry(i)
  BY <1>1 DEF AddsEntryOrder
<1>3. /\ \A x : x # Entry(i) => Status(x)' = Status(x)
      /\ Status(Entry(i))' = o.status
  BY <1>2 DEF Status
<1>4. \A m : m # i => (Bought(m)' <=> Bought(m))
  BY <1>3, EntryIntents DEF Bought
<1>5. o.side = "BUY"
  BY DEF BuyOK
<1>6. \A m : Sold(m)' <=> Sold(m)
  BY <1>2, <1>3, <1>5 DEF Sold
<1>7. OpenSells' = OpenSells /\ \A x \in OpenSells : orders'[x] = orders[x]
  BY <1>2, <1>3, <1>5 DEF OpenSells
<1>8. SignalsOK'
  BY DEF TablesOK, SignalsOK, today
<1>9. OrdersOK'
  <2>1. ASSUME NEW m, NEW q, BuyOK(m, q) PROVE BuyOK(m, q)'
    BY <2>1 DEF BuyOK, today
  <2>2. ASSUME NEW x, NEW q, SellTerms(x, q) PROVE SellTerms(x, q)'
    <3>1. ~Bought(i)
      BY DEF Bought
    <3>. QED
      BY <1>4, <2>2, <3>1 DEF SellTerms
  <2>3. ASSUME NEW x \in DOMAIN orders'
        PROVE  \/ \E m \in DOMAIN signals' : x = Entry(m) /\ BuyOK(m, orders[x])'
               \/ IsExit(x) /\ SellTerms(x, orders[x])'
    <3>. PICK q : q = orders'[x]
      OBVIOUS
    <3>1. \/ \E m \in DOMAIN signals : x = Entry(m) /\ BuyOK(m, q)
          \/ IsExit(x) /\ SellTerms(x, q)
      BY <1>2 DEF TablesOK, OrdersOK
    <3>2. \/ \E m \in DOMAIN signals' : x = Entry(m) /\ BuyOK(m, q)'
          \/ IsExit(x) /\ SellTerms(x, q)'
      BY <2>1, <2>2, <3>1
    <3>. QED
      BY <3>2 DEF BuyOK, SellTerms
  <2>. QED
    BY <2>3 DEF OrdersOK, IsExit
<1>10. SettledAgreesWithOrder'
  <2>1. ASSUME NEW m \in DOMAIN signals, signals[m].status # "PENDING"
        PROVE  Status(Entry(m))' = Status(Entry(m))
    BY <1>3, <2>1, EntryIntents
  <2>. QED
    BY <2>1 DEF TablesOK, SettledAgreesWithOrder
<1>. QED
  BY <1>3, <1>4, <1>6, <1>7, <1>8, <1>9, <1>10

\* What is not yet executed stays tradable, and results stay true.
LEMMA OthersExecutable ==
    ASSUME NEW j, ExecuteOK(j, {Head(j.todo)}), j.todo # <<>>,
           NEW i, i = Head(j.todo), UNCHANGED <<signals, market>>,
           \A x : x # Entry(i) => Status(x)' = Status(x),
           NEW k, k.todo = j.todo, k.kept = j.kept, k.day = j.day
    PROVE  ExecuteOK(k, {i})'
<1>1. PICK S : j.todo \in Seq(S)
  BY DEF ExecuteOK
<1>2. i \in Elements(j.todo)
  BY <1>1, VisitFirst
<1>3. i \notin Visited(j.kept)
  BY <1>2 DEF ExecuteOK
<1>4. \A m : m # i => Status(Entry(m))' = Status(Entry(m))
  BY EntryIntents
<1>5. ResultsOK(k.kept)'
  <2>1. \A m \in DOMAIN j.kept : j.kept[m][1] # i
    BY <1>3 DEF Visited
  <2>2. \A m, v : m # i /\ Agrees(m, v) => Agrees(m, v)'
    BY <1>4 DEF Agrees, Bought
  <2>. QED
    BY <2>1, <2>2 DEF ExecuteOK, ResultsOK
<1>6. Outstanding(k.day)' = Outstanding(j.day)
  BY DEF Outstanding
<1>7. Tradable(j) \ {i} \subseteq Tradable(k)'
  BY <1>4, <1>6 DEF Tradable, Executable, Bar
<1>8. Elements(k.todo) \ {i} \subseteq Tradable(k)'
  BY <1>7 DEF ExecuteOK
<1>. QED
  BY <1>1, <1>5, <1>6, <1>8 DEF ExecuteOK

\* An order that is rejected changes nothing of the account.
LEMMA RejectKeeps ==
    ASSUME OneProcess, IntentInv, PaperInv, NEW p \in Process, RejectEntry(p)
    PROVE  PaperInv'
<1>. PICK j : j = job[p]
  OBVIOUS
<1>. PICK i : i = Head(j.todo)
  OBVIOUS
<1>1. /\ TablesOK /\ OrdersStored /\ RunInv(j) /\ j.phase = "execute" /\ j.todo # <<>>
      /\ First(p) = i /\ UNCHANGED <<signals, portfolio, lifecycle, market>>
  BY DEF PaperInv, IntentInv, RejectEntry, At, First, Others
<1>2. /\ Fields(j) /\ RunOK(j) /\ ExecuteOK(j, {i}) /\ i \in Tradable(j)
      /\ i \in Outstanding(j.day) /\ i \in DOMAIN signals /\ Status(Entry(i)) = "NONE"
  BY <1>1, ExecuteFirst
<1>3. signals[i].status = "PENDING"
  BY <1>2 DEF Outstanding
<1>4. PICK qty \in Quantity :
          /\ InsertOrder(Entry(i), [BuyOrder(p, qty) EXCEPT !.status = "REJECTED"])
          /\ Result(p, j, "REJECTED")
  BY <1>1, <1>2 DEF RejectEntry
<1>. PICK b : b = BuyOrder(p, qty)
  OBVIOUS
<1>. PICK o : o = [b EXCEPT !.status = "REJECTED"]
  OBVIOUS
<1>5. BuyOK(i, o) /\ o.status = "REJECTED"
  <2>1. /\ OrderRecord(b) /\ b.side = "BUY" /\ b.symbol = signals[i].symbol
        /\ b.day = signals[i].day + 1 /\ b.day <= today
        /\ b.qty = qty /\ qty \in Nat \ {0} /\ b.price \in Price
        /\ b.stop \in Int /\ b.target \in Int
    BY <1>1, <1>2, EntryTerms
  <2>2. /\ o.status = "REJECTED" /\ o.side = b.side /\ o.symbol = b.symbol
        /\ o.day = b.day /\ o.qty = b.qty /\ o.price = b.price /\ o.stop = b.stop
        /\ o.target = b.target
    BY <2>1 DEF OrderRecord
  <2>. QED
    BY <2>1, <2>2 DEF BuyOK
<1>6. AddsEntryOrder(i, o)
  BY <1>4 DEF InsertOrder, AddsEntryOrder
<1>7. /\ OrdersOK' /\ SignalsOK' /\ SettledAgreesWithOrder'
      /\ \A x : x # Entry(i) => Status(x)' = Status(x)
      /\ Status(Entry(i))' = "REJECTED"
      /\ \A m : Sold(m)' <=> Sold(m)
      /\ OpenSells' = OpenSells
      /\ \A x \in OpenSells : orders'[x] = orders[x]
      /\ \A m : m # i => (Bought(m)' <=> Bought(m))
  BY <1>1, <1>2, <1>3, <1>5, <1>6, EntryOrderAdded
<1>8. \A m : Bought(m)' <=> Bought(m)
  BY <1>2, <1>7 DEF Bought
<1>9. TablesOK'
  <2>1. LifecycleOK'
    BY <1>1, <1>7, <1>8 DEF TablesOK, LifecycleOK, RowOK
  <2>2. DealsOK' /\ OpenSalesOK'
    BY <1>1, <1>7, <1>8 DEF TablesOK, DealsOK, OpenSalesOK
  <2>3. portfolio' \in PortfolioType /\ HeldHasLifecycle'
    BY <1>1 DEF TablesOK, HeldHasLifecycle, Holds
  <2>. QED
    BY <1>7, <2>1, <2>2, <2>3 DEF TablesOK
<1>. DEFINE k == [j EXCEPT !.phase = "execute", !.verdict = "", !.todo = Tail(@),
                           !.kept = Append(@, <<i, "REJECTED">>)]
<1>10. Become(p, k)
  BY <1>1, <1>4 DEF Result
<1>11. /\ Fields(k) /\ k.todo = Tail(j.todo) /\ k.kept = Append(j.kept, <<i, "REJECTED">>)
       /\ k.day = j.day /\ k.mem = j.mem /\ k.phase = "execute"
  BY <1>2 DEF Fields
<1>. HIDE DEF k
<1>12. RunOK(k)'
  BY <1>1, <1>2, <1>11 DEF RunOK, today
<1>13. ExecuteOK(j, {i})'
  BY <1>1, <1>2, <1>7, OthersExecutable
<1>14. Agrees(i, "REJECTED")'
  BY <1>7 DEF Agrees, Bought, SignalStatus
<1>15. ExecuteOK(k, {})'
  <2>1. ResultPassed'
    BY ResultIsPassed, PTL
  <2>2. ExecuteOK(j, {Head(j.todo)})' /\ Agrees(Head(j.todo), "REJECTED")'
    BY <1>13, <1>14
  <2>3. Fields(k)' /\ i \in DOMAIN signals'
    BY <1>1, <1>2, <1>11 DEF Fields
  <2>. QED
    BY <1>1, <1>11, <2>1, <2>2, <2>3 DEF ResultPassed
<1>16. RunInv(k)'
  BY <1>11, <1>12, <1>15 DEF RunInv, FirstLoops, LastLoops, Managing, Phase, Fields
<1>. QED
  BY <1>9, <1>10, <1>16, OneStep
\* A buy that can be paid keeps the account typed and gives the symbol a position.
LEMMA BuyTypes ==
    ASSUME portfolio \in PortfolioType, NEW s \in Symbol, NEW qty \in Nat \ {0},
           NEW price \in Price, BuyCost(qty, price) <= portfolio.cash,
           NEW q, q = ApplyBuy(portfolio, s, qty, price)
    PROVE  /\ q \in PortfolioType
           /\ Holds(q, s)
           /\ \A t \in Symbol : t # s => q.position[t] = portfolio.position[t]
<1>. PICK cost : cost = BuyCost(qty, price)
  OBVIOUS
<1>. PICK average : average = BuyPrice(price) + Fee
  OBVIOUS
<1>. PICK row : row = [qty |-> qty, average |-> average]
  OBVIOUS
<1>1. average \in Nat /\ cost \in Nat
  <2>1. average \in Nat
    BY StoreAssumption DEF BuyPrice, Price
  <2>. QED
    BY <2>1 DEF BuyCost
<1>2. /\ portfolio.cash \in Nat /\ portfolio.realized \in Int
      /\ portfolio.position \in [Symbol -> [qty : Nat, average : Nat]]
      /\ portfolio = [cash |-> portfolio.cash, realized |-> portfolio.realized,
                      position |-> portfolio.position]
  BY DEF PortfolioType
<1>3. portfolio.cash - cost \in Nat
  BY <1>1, <1>2
<1>4. q = [cash |-> portfolio.cash - cost, realized |-> portfolio.realized,
           position |-> [portfolio.position EXCEPT ![s] = row]]
  <2>1. q = [portfolio EXCEPT !.cash = portfolio.cash - cost, !.position[s] = row]
    BY DEF ApplyBuy
  <2>. QED
    BY <1>2, <2>1
<1>5. row \in [qty : Nat, average : Nat] /\ row.qty = qty
  BY <1>1
<1>6. /\ q.position \in [Symbol -> [qty : Nat, average : Nat]]
      /\ q.position[s] = row
      /\ \A t \in Symbol : t # s => q.position[t] = portfolio.position[t]
  BY <1>2, <1>4, <1>5
<1>7. q \in PortfolioType
  BY <1>2, <1>3, <1>4, <1>6 DEF PortfolioType
<1>. QED
  BY <1>5, <1>6, <1>7 DEF Holds

\* The row of an entry, as it is stored.
LEMMA EntryRowOK ==
    ASSUME NEW i, NEW o, o.day \in Nat, o.price \in Price, o.stop \in Int,
           o.target \in Int, ValidRow(EntryRow(i, o)),
           NEW r, r.entry = i, r.day = o.day, r.price = BuyPrice(o.price),
           r.stop = o.stop, r.target = o.target, r.highest = BuyPrice(o.price),
           r.trailing = NoPrice
    PROVE  /\ {r.day, r.price, r.stop, r.target, r.highest, r.trailing} \subseteq Nat
           /\ ValidRow(r)
<1>1. BuyPrice(o.price) \in Nat
  BY StoreAssumption DEF BuyPrice, Price
<1>2. 0 < o.stop /\ o.stop < BuyPrice(o.price) /\ BuyPrice(o.price) < o.target
  BY DEF ValidRow, EntryRow
<1>. QED
  BY <1>1, <1>2 DEF ValidRow, NoPrice

\* A buy that may be made, and its effect on the tables.
Payable(i, s, o) ==
    /\ i \in DOMAIN signals /\ signals[i].status = "PENDING" /\ signals[i].day \in Nat
    /\ Status(Entry(i)) = "NONE"
    /\ s = signals[i].symbol /\ s \in Symbol /\ ~Holds(portfolio, s)
    /\ BuyOK(i, o) /\ o.status = "FILLED" /\ BuyCost(o.qty, o.price) <= portfolio.cash

\* What the fill of a bought entry writes.
Buys(i, s, o, r) ==
    /\ r = EntryRow(i, o) /\ AddsEntryOrder(i, o)
    /\ portfolio' = ApplyBuy(portfolio, s, o.qty, o.price)
    /\ SaveLifecycle(s, r)
    /\ UNCHANGED <<signals, market>>

\* A buy stores order, fill, position and row together: the tables stay in step.
LEMMA BuyKeepsTables ==
    ASSUME TablesOK, OrdersStored, NEW i, NEW s, NEW o, NEW r,
           Payable(i, s, o), Buys(i, s, o, r)
    PROVE  /\ TablesOK' /\ lifecycle'[s] # NoRow /\ lifecycle'[s].day = r.day
           /\ RowOK(s, r)'
           /\ \A t \in Symbol : t # s => lifecycle'[t] = lifecycle[t]
<1>. USE DEF Payable, Buys
<1>. PICK new : new = [entry |-> r.entry, day |-> r.day, price |-> r.price,
                       qty |-> r.qty, stop |-> r.stop, target |-> r.target,
                       highest |-> r.highest, trailing |-> r.trailing,
                       since |-> r.since, stamp |-> clock + 1]
  OBVIOUS
<1>1. /\ OrdersOK' /\ SignalsOK' /\ SettledAgreesWithOrder'
      /\ \A x : x # Entry(i) => Status(x)' = Status(x)
      /\ Status(Entry(i))' = "FILLED"
      /\ \A m : m # i => (Bought(m)' <=> Bought(m))
      /\ \A m : Sold(m)' <=> Sold(m)
      /\ OpenSells' = OpenSells
      /\ \A x \in OpenSells : orders'[x] = orders[x]
  BY EntryOrderAdded
<1>2. Bought(i)' /\ ~Bought(i) /\ ~Sold(i)
  BY <1>1, DueIsNotSold DEF Bought
<1>3. /\ o.qty \in Nat \ {0} /\ o.price \in Price /\ o.stop \in Int /\ o.target \in Int
      /\ o.day = signals[i].day + 1 /\ o.day \in Nat /\ ValidRow(r)
  BY DEF BuyOK
<1>4. /\ RowFields(r) /\ r.entry = i /\ r.day = o.day /\ r.price = BuyPrice(o.price)
      /\ r.stop = o.stop /\ r.target = o.target /\ r.highest = BuyPrice(o.price)
      /\ r.trailing = NoPrice
  BY DEF EntryRow, RowFields
<1>5. /\ RowFields(new) /\ new.entry = i /\ new.day = o.day
      /\ new.price = BuyPrice(o.price) /\ new.stop = o.stop /\ new.target = o.target
      /\ new.highest = BuyPrice(o.price) /\ new.trailing = NoPrice /\ new # NoRow
  <2>1. "day" \in DOMAIN new /\ "day" \notin DOMAIN NoRow
    BY DEF NoRow
  <2>2. new # NoRow
    BY <2>1
  <2>. QED
    BY <1>4, <2>2 DEF RowFields
<1>6. lifecycle' = [lifecycle EXCEPT ![s] = new]
  BY DEF SaveLifecycle
<1>7. /\ lifecycle' = [t \in Symbol |-> lifecycle'[t]] /\ lifecycle'[s] = new
      /\ \A t \in Symbol : t # s => lifecycle'[t] = lifecycle[t]
  BY <1>6 DEF TablesOK, LifecycleOK
<1>8. RowOK(s, r)' /\ RowOK(s, new)'
  <2>1. ASSUME NEW x, RowFields(x), x.entry = i, x.day = o.day,
               x.price = BuyPrice(o.price), x.stop = o.stop, x.target = o.target,
               x.highest = BuyPrice(o.price), x.trailing = NoPrice
        PROVE  RowOK(s, x)'
    <3>1. /\ {x.day, x.price, x.stop, x.target, x.highest, x.trailing} \subseteq Nat
          /\ ValidRow(x)
      BY <1>3, <2>1, EntryRowOK
    <3>2. ~Sold(i)'
      BY <1>1, <1>2
    <3>. QED
      BY <1>2, <1>3, <2>1, <3>1, <3>2 DEF RowOK
  <2>2. RowOK(s, r)'
    BY <1>4, <2>1
  <2>3. RowOK(s, new)'
    BY <1>5, <2>1
  <2>. QED
    BY <2>2, <2>3
<1>9. lifecycle[s] = NoRow
  BY DEF TablesOK, HeldHasLifecycle
<1>10. LifecycleOK'
  <2>1. ASSUME NEW t \in Symbol, lifecycle'[t] # NoRow PROVE RowOK(t, lifecycle[t])'
    <3>. PICK x : x = lifecycle'[t]
      OBVIOUS
    <3>1. CASE t = s
      <4>1. x = new
        BY <1>7, <3>1
      <4>2. RowOK(t, x)'
        BY <1>8, <3>1, <4>1
      <4>. QED
        BY <4>2 DEF RowOK, RowFields
    <3>2. CASE t # s
      <4>1. RowOK(t, x)
        BY <1>7, <2>1, <3>2 DEF TablesOK, LifecycleOK
      <4>2. RowOK(t, x)'
        BY <1>1, <1>2, <4>1 DEF RowOK
      <4>. QED
        BY <4>2 DEF RowOK, RowFields
    <3>. QED
      BY <3>1, <3>2
  <2>. QED
    BY <1>7, <2>1 DEF LifecycleOK
<1>11. /\ portfolio' \in PortfolioType /\ Holds(portfolio, s)'
       /\ \A t \in Symbol : t # s => portfolio'.position[t] = portfolio.position[t]
  BY <1>3, BuyTypes DEF TablesOK, Holds
<1>12. HeldHasLifecycle'
  BY <1>5, <1>7, <1>11 DEF TablesOK, HeldHasLifecycle, Holds
<1>13. DealsOK'
  <2>1. ASSUME NEW m \in DOMAIN signals, Bought(m)', ~Sold(m)'
        PROVE  /\ lifecycle'[signals[m].symbol] # NoRow
               /\ lifecycle'[signals[m].symbol].entry = m
    <3>1. CASE m = i
      BY <1>5, <1>7, <3>1
    <3>2. CASE m # i
      <4>1. /\ lifecycle[signals[m].symbol] # NoRow
            /\ lifecycle[signals[m].symbol].entry = m
        BY <1>1, <2>1, <3>2 DEF TablesOK, DealsOK
      <4>2. signals[m].symbol \in Symbol /\ signals[m].symbol # s
        BY <1>9, <4>1, Tables
      <4>. QED
        BY <1>7, <4>1, <4>2
    <3>. QED
      BY <3>1, <3>2
  <2>. QED
    BY <2>1 DEF DealsOK
<1>14. OpenSalesOK'
  <2>1. ASSUME NEW x \in OpenSells
        PROVE  orders[x].symbol \in Symbol /\ orders[x].symbol # s
    BY <1>9, SaleHeld
  <2>. QED
    BY <1>1, <1>11, <2>1 DEF TablesOK, OpenSalesOK
<1>. QED
  BY <1>1, <1>5, <1>7, <1>8, <1>10, <1>11, <1>12, <1>13, <1>14 DEF TablesOK

\* The run after its order b of signal i was filled.
Filled(j, i, b) ==
    [j EXCEPT !.phase = "initialize", !.verdict = "FILLED", !.count = @ + 1,
              !.row = EntryRow(i, b), !.mem = ApplyBuy(@, b.symbol, b.qty, b.price)]

\* The two outcomes of filling an order of so many lots.
FillsOrEnds(p, qty, o) ==
    \/ /\ Affordable(p, o)
       /\ ValidRow(EntryRow(First(p), o))
       /\ SaveEntry(First(p), o, job[p].mem)
       /\ Become(p, [job[p] EXCEPT
              !.phase = "initialize", !.verdict = "FILLED", !.count = @ + 1,
              !.row = EntryRow(First(p), o),
              !.mem = ApplyBuy(@, o.symbol, qty, o.price)])
    \/ Abort(p) /\ UNCHANGED storeVars

\* Filling an entry has one of them.
LEMMA FillEntryCases ==
    ASSUME NEW p, FillEntry(p)
    PROVE  \E qty, o : qty \in Quantity /\ o = BuyOrder(p, qty) /\ FillsOrEnds(p, qty, o)
<1>1. \E qty \in Quantity : FillsOrEnds(p, qty, BuyOrder(p, qty))
  BY DEF FillEntry, FillsOrEnds
<1>. QED
  BY <1>1

\* A filled order is bought at the open of the run's session, whole or not at all.
LEMMA FillEntryKeeps ==
    ASSUME OneProcess, IntentInv, PaperInv, NEW p \in Process, FillEntry(p)
    PROVE  PaperInv'
<1>. PICK j : j = job[p]
  OBVIOUS
<1>. PICK i : i = Head(j.todo)
  OBVIOUS
<1>. PICK s : s = signals[i].symbol
  OBVIOUS
<1>1. /\ TablesOK /\ OrdersStored /\ RunInv(j) /\ j.phase = "execute" /\ j.todo # <<>>
      /\ First(p) = i /\ UNCHANGED market /\ MayBuy(p)
  BY DEF PaperInv, IntentInv, FillEntry, At, First, Others
<1>2. /\ Fields(j) /\ RunOK(j) /\ ExecuteOK(j, {i}) /\ i \in Tradable(j)
      /\ i \in Outstanding(j.day) /\ i \in DOMAIN signals /\ Status(Entry(i)) = "NONE"
  BY <1>1, ExecuteFirst
<1>3. signals[i].status = "PENDING"
  BY <1>2 DEF Outstanding
<1>4. CASE Abort(p) /\ UNCHANGED storeVars
  BY <1>1, <1>4, AbortAdvances, QuietKeeps DEF storeVars
<1>5. ASSUME NEW qty \in Quantity, NEW b, b = BuyOrder(p, qty),
             Affordable(p, b), ValidRow(EntryRow(i, b)), SaveEntry(i, b, j.mem),
             Become(p, Filled(j, i, b))
      PROVE  PaperInv'
  <2>. PICK o : o = [b EXCEPT !.status = "FILLED"]
    OBVIOUS
  <2>1. /\ OrderRecord(b) /\ b.side = "BUY" /\ b.symbol = s /\ s \in Symbol
        /\ b.day = signals[i].day + 1 /\ b.day = j.day /\ b.day <= today
        /\ b.qty = qty /\ qty \in Nat \ {0} /\ b.price \in Price
        /\ b.stop \in Int /\ b.target \in Int
    BY <1>1, <1>2, <1>5, EntryTerms
  <2>2. /\ o.status = "FILLED" /\ o.side = b.side /\ o.symbol = b.symbol
        /\ o.day = b.day /\ o.qty = b.qty /\ o.price = b.price /\ o.stop = b.stop
        /\ o.target = b.target
    BY <2>1 DEF OrderRecord
  <2>3. EntryRow(i, o) = EntryRow(i, b)
    BY <2>2 DEF EntryRow
  <2>4. BuyOK(i, o)
    BY <1>5, <2>1, <2>2, <2>3 DEF BuyOK
  <2>5. /\ AddsEntryOrder(i, o) /\ UNCHANGED signals
        /\ portfolio' = ApplyBuy(j.mem, s, qty, b.price)
        /\ SaveLifecycle(s, EntryRow(i, o))
    BY <1>5, <2>1, <2>3 DEF SaveEntry, FillOrder, SavePortfolio, AddsEntryOrder
  <2>6. j.mem = portfolio
    BY <1>2 DEF RunOK
  <2>7. ~Holds(portfolio, s) /\ BuyCost(o.qty, o.price) <= portfolio.cash
    BY <1>1, <1>5, <2>1, <2>2, <2>6 DEF MayBuy, Affordable
  <2>8. signals[i].day \in Nat
    BY <1>1, <1>2, Tables
  <2>9. portfolio' = ApplyBuy(portfolio, s, o.qty, o.price)
    BY <2>1, <2>2, <2>5, <2>6
  <2>. PICK row : row = EntryRow(i, o)
    OBVIOUS
  <2>10. /\ TablesOK' /\ lifecycle'[s] # NoRow /\ lifecycle'[s].day = row.day
         /\ RowOK(s, row)'
         /\ \A t \in Symbol : t # s => lifecycle'[t] = lifecycle[t]
    <3>1. Payable(i, s, o)
      BY <1>2, <1>3, <2>1, <2>2, <2>4, <2>7, <2>8 DEF Payable
    <3>2. Buys(i, s, o, row)
      BY <1>1, <2>5, <2>9 DEF Buys
    <3>3. TablesOK /\ OrdersStored
      BY <1>1
    <3>4. lifecycle'[s] # NoRow /\ lifecycle'[s].day = row.day
      BY <3>1, <3>2, <3>3, BuyKeepsTables
    <3>5. TablesOK'
      BY <3>1, <3>2, <3>3, BuyKeepsTables
    <3>6. RowOK(s, row)'
      BY <3>1, <3>2, <3>3, BuyKeepsTables
    <3>7. \A t \in Symbol : t # s => lifecycle'[t] = lifecycle[t]
      BY <3>1, <3>2, <3>3, BuyKeepsTables
    <3>. QED
      BY <3>4, <3>5, <3>6, <3>7
  <2>11. /\ \A x : x # Entry(i) => Status(x)' = Status(x)
         /\ Status(Entry(i))' = "FILLED"
    BY <1>1, <1>2, <1>3, <2>2, <2>4, <2>5, EntryOrderAdded
  <2>. PICK mem : mem = ApplyBuy(portfolio, s, o.qty, o.price)
    OBVIOUS
  <2>. DEFINE k == [j EXCEPT !.phase = "initialize", !.verdict = "FILLED",
                             !.count = @ + 1, !.row = row, !.mem = mem]
  <2>12. Become(p, k)
    BY <1>5, <2>1, <2>2, <2>3, <2>6 DEF Filled
  <2>13. /\ Fields(k) /\ k.todo = j.todo /\ k.kept = j.kept /\ k.day = j.day
         /\ k.mem = portfolio' /\ k.row = row /\ k.verdict = "FILLED"
         /\ k.phase = "initialize"
    BY <1>2, <2>9 DEF Fields
  <2>. HIDE DEF k
  <2>14. ExecuteOK(k, {i})'
    BY <1>1, <1>2, <2>5, <2>11, <2>13, OthersExecutable
  <2>15. /\ Agrees(i, k.verdict)' /\ i \in Outstanding(k.day)'
    BY <1>2, <2>5, <2>11, <2>13 DEF Agrees, Bought, SignalStatus, Outstanding
  <2>16. RowOK(s, k.row)' /\ k.row.day <= k.day
    <3>1. row.day = j.day /\ j.day \in Nat
      BY <1>2, <2>1, <2>2 DEF EntryRow, RunOK
    <3>. QED
      BY <2>10, <2>13, <3>1 DEF RowOK, RowFields
  <2>17. RunOK(k)'
    <3>0. row.day <= k.day
      BY <2>13, <2>16
    <3>1. \A t \in Symbol : lifecycle'[t] # NoRow => lifecycle'[t].day <= k.day
      BY <1>2, <2>10, <2>13, <2>16, <3>0 DEF RunOK
    <3>. QED
      BY <1>1, <1>2, <2>13, <3>1 DEF RunOK, today
  <2>18. InitializeOK(k)'
    <3>1. Head(k.todo) = i /\ k.todo # <<>> /\ signals'[i].symbol = s
      BY <1>1, <2>5, <2>13
    <3>. QED
      BY <2>10, <2>14, <2>15, <2>16, <3>1 DEF InitializeOK
  <2>19. RunInv(k)'
    BY <2>13, <2>17, <2>18 DEF RunInv, FirstLoops, LastLoops, Managing, Phase, Fields
  <2>. QED
    BY <2>10, <2>12, <2>19, OneStep
<1>6. PICK qty, b : qty \in Quantity /\ b = BuyOrder(p, qty) /\ FillsOrEnds(p, qty, b)
  BY FillEntryCases
<1>7. CASE Abort(p) /\ UNCHANGED storeVars
  BY <1>4, <1>7
<1>8. ASSUME ~(Abort(p) /\ UNCHANGED storeVars) PROVE PaperInv'
  <2>1. Affordable(p, b) /\ ValidRow(EntryRow(i, b)) /\ SaveEntry(i, b, j.mem)
    BY <1>1, <1>6, <1>8 DEF FillsOrEnds
  <2>2. b.qty = qty
    BY <1>6 DEF BuyOrder
  <2>3. Become(p, Filled(j, i, b))
    BY <1>1, <1>6, <1>8, <2>2 DEF Filled, FillsOrEnds
  <2>. QED
    BY <1>5, <1>6, <2>1, <2>3
<1>. QED
  BY <1>7, <1>8

-----------------------------------------------------------------------------
(* Steps that store an exit. *)

\* One exit is stored as o, every other order is left as it is.
StoresExit(x, o) ==
    orders' = [y \in DOMAIN orders \cup {x} |-> IF y = x THEN o ELSE orders[y]]

\* What storing an exit leaves alone: what was bought, and how the signals settled.
LEMMA ExitStored ==
    ASSUME TablesOK, NEW x, IsExit(x), NEW o, SellTerms(x, o), StoresExit(x, o),
           UNCHANGED <<signals, market>>
    PROVE  /\ OrdersOK' /\ SignalsOK' /\ SettledAgreesWithOrder'
           /\ DOMAIN orders' = DOMAIN orders \cup {x} /\ orders'[x] = o
           /\ \A y \in DOMAIN orders : y # x => orders'[y] = orders[y]
           /\ \A y : y # x => Status(y)' = Status(y)
           /\ Status(x)' = o.status
           /\ \A m : Bought(m)' <=> Bought(m)
<1>1. /\ DOMAIN orders' = DOMAIN orders \cup {x} /\ orders'[x] = o
      /\ \A y \in DOMAIN orders : y # x => orders'[y] = orders[y]
  BY DEF StoresExit
<1>2. /\ \A y : y # x => Status(y)' = Status(y)
      /\ Status(x)' = o.status
  BY <1>1 DEF Status
<1>3. \A m : Status(Entry(m))' = Status(Entry(m))
  BY <1>2, EntryIntents
<1>4. \A m : Bought(m)' <=> Bought(m)
  BY <1>3 DEF Bought
<1>5. SignalsOK'
  BY DEF TablesOK, SignalsOK, today
<1>6. SettledAgreesWithOrder'
  BY <1>3 DEF TablesOK, SettledAgreesWithOrder
<1>7. OrdersOK'
  <2>1. \A y \in DOMAIN orders :
            \/ \E i \in DOMAIN signals : y = Entry(i) /\ BuyOK(i, orders[y])
            \/ IsExit(y) /\ SellTerms(y, orders[y])
    BY DEF TablesOK, OrdersOK
  <2>2. ASSUME NEW y \in DOMAIN orders, y # x
        PROVE  \/ \E i \in DOMAIN signals' : y = Entry(i) /\ BuyOK(i, orders[y])'
               \/ IsExit(y) /\ SellTerms(y, orders[y])'
    <3>. PICK q : q = orders[y]
      OBVIOUS
    <3>1. orders'[y] = q
      BY <1>1, <2>2
    <3>2. CASE \E i \in DOMAIN signals : y = Entry(i) /\ BuyOK(i, q)
      BY <3>1, <3>2 DEF BuyOK, today
    <3>3. CASE IsExit(y) /\ SellTerms(y, q)
      BY <1>4, <3>1, <3>3 DEF SellTerms
    <3>. QED
      BY <2>1, <3>2, <3>3
  <2>3. SellTerms(x, o)'
    BY <1>4 DEF SellTerms
  <2>. QED
    BY <1>1, <2>2, <2>3 DEF OrdersOK, SellTerms, BuyOK
<1>. QED
  BY <1>1, <1>2, <1>4, <1>5, <1>6, <1>7

\* A new reservation of the whole position of a symbol without one.
LEMMA ReserveNew ==
    ASSUME TablesOK, NEW j, Fields(j), RunOK(j), ReserveOK(j),
           NEW x, x = j.sale[1], NEW o, o = j.sale[2], x \notin DOMAIN orders,
           StoresExit(x, o), UNCHANGED <<signals, market, portfolio, lifecycle>>
    PROVE  /\ TablesOK'
           /\ OpenSells' = OpenSells \cup {x}
           /\ \A k : /\ k.held = j.held /\ k.day = j.day /\ k.list = j.list
                     /\ k.sells = j.sells
                     => ManageOK(k, {o.symbol})'
<1>1. /\ ManageOK(j, {}) /\ IsExit(x) /\ o.symbol \in j.held
      /\ SellTerms(x, o) /\ ~Sold(x.signal) /\ o.status = "ACCEPTED"
      /\ SellsAll(o, portfolio.position[o.symbol])
      /\ \A y \in OpenSells : orders[y].symbol # o.symbol
      /\ UNCHANGED <<signals, market>>
  BY DEF ReserveOK, OpenSells
<1>2. /\ OrdersOK' /\ SignalsOK' /\ SettledAgreesWithOrder'
      /\ DOMAIN orders' = DOMAIN orders \cup {x} /\ orders'[x] = o
      /\ \A y \in DOMAIN orders : y # x => orders'[y] = orders[y]
      /\ \A y : y # x => Status(y)' = Status(y)
      /\ Status(x)' = o.status
      /\ \A m : Bought(m)' <=> Bought(m)
  <2>1. OrdersOK' /\ SignalsOK' /\ SettledAgreesWithOrder'
    BY <1>1, ExitStored
  <2>2. DOMAIN orders' = DOMAIN orders \cup {x} /\ orders'[x] = o
    BY DEF StoresExit
  <2>3. \A y \in DOMAIN orders : y # x => orders'[y] = orders[y]
    BY DEF StoresExit
  <2>4. \A y : y # x => Status(y)' = Status(y)
    BY <2>2, <2>3 DEF Status
  <2>5. Status(x)' = o.status
    BY <1>1, ExitStored
  <2>6. \A m : Bought(m)' <=> Bought(m)
    BY <1>1, ExitStored
  <2>. QED
    BY <2>1, <2>2, <2>3, <2>4, <2>5, <2>6
<1>3. o.side = "SELL"
  BY <1>1 DEF SellTerms
<1>4. OpenSells' = OpenSells \cup {x}
  BY <1>1, <1>2, <1>3 DEF OpenSells
<1>5. \A m : Sold(m)' <=> Sold(m)
  BY <1>1, <1>2 DEF Sold
<1>6. LifecycleOK'
  BY <1>2, <1>5 DEF TablesOK, LifecycleOK, RowOK
<1>7. DealsOK' /\ portfolio' \in PortfolioType /\ HeldHasLifecycle'
  BY <1>2, <1>5 DEF TablesOK, DealsOK, HeldHasLifecycle, Holds
<1>8. \A y \in OpenSells : y \in DOMAIN orders /\ y # x /\ orders'[y] = orders[y]
  BY <1>2 DEF OpenSells
<1>9. OpenSalesOK'
  <2>1. \A y \in OpenSells' :
          ~Sold(y.signal)' /\ SellsAll(orders'[y], portfolio'.position[orders'[y].symbol])
    BY <1>1, <1>2, <1>4, <1>5, <1>8 DEF TablesOK, OpenSalesOK
  <2>2. \A y, z \in OpenSells' : orders'[y].symbol = orders'[z].symbol => y = z
    BY <1>1, <1>2, <1>4, <1>8 DEF TablesOK, OpenSalesOK
  <2>. QED
    BY <2>1, <2>2 DEF OpenSalesOK
<1>10. ASSUME NEW k, k.held = j.held, k.day = j.day, k.list = j.list, k.sells = j.sells
       PROVE  ManageOK(k, {o.symbol})'
  <2>1. /\ Outstanding(k.day)' = {} /\ k.held \subseteq Symbol
        /\ \A s \in k.held : Holds(portfolio, s)' /\ k.list[s] = portfolio'.position[s]
        /\ k.sells \subseteq DOMAIN orders'
    BY <1>1, <1>2, <1>10 DEF ManageOK, Outstanding, Holds
  <2>2. \A y \in DOMAIN orders' : orders'[y].symbol \in k.held \ {o.symbol} =>
            (y \in k.sells <=> y \in OpenSells')
    BY <1>1, <1>2, <1>4, <1>10 DEF ManageOK
  <2>3. \A y \in OpenSells' :
            orders'[y].symbol \in k.held \/ market'[k.day][orders'[y].symbol] = NoBar
    <3>1. ASSUME NEW y \in OpenSells
          PROVE  \/ orders'[y].symbol \in k.held
                 \/ market'[k.day][orders'[y].symbol] = NoBar
      <4>. PICK s : s = orders[y].symbol
        OBVIOUS
      <4>1. orders'[y].symbol = s
        BY <1>8
      <4>2. s \in k.held \/ Bar(k.day, s) = NoBar
        BY <1>1, <1>10 DEF ManageOK
      <4>. QED
        BY <4>1, <4>2 DEF Bar
    <3>. QED
      BY <1>1, <1>2, <1>4, <1>10, <3>1
  <2>. QED
    BY <2>1, <2>2, <2>3 DEF ManageOK, Bar, Holds, Outstanding
<1>. QED
  BY <1>2, <1>4, <1>6, <1>7, <1>9, <1>10 DEF TablesOK

\* RiskGuard has nothing to refuse: the exit is stored, for the first time or again.
LEMMA ReserveSaleStores ==
    ASSUME TablesOK, OrdersStored, NEW p, NEW j, j = job[p], RunInv(j), ReserveSale(p),
           NEW x, x = j.sale[1], NEW o, o = j.sale[2], NEW k, k = [j EXCEPT !.phase = "sell"]
    PROVE  /\ RunOK(j) /\ ReserveOK(j) /\ StoresExit(x, o) /\ Become(p, k)
           /\ UNCHANGED <<signals, portfolio, lifecycle, market>>
<1>1. /\ j.phase = "reserve" /\ Intent(p) = x /\ SaleOf(p) = o
      /\ UNCHANGED <<signals, portfolio, lifecycle, market>>
  BY DEF ReserveSale, At, Intent, SaleOf, Others
<1>2. RunOK(j) /\ ReserveOK(j)
  BY <1>1 DEF RunInv, Managing
<1>3. /\ SellTerms(x, o) /\ OrderRecord(o) /\ o.status = "ACCEPTED"
      /\ o.qty = portfolio.position[o.symbol].qty
      /\ x \in DOMAIN orders => orders[x] = o
  BY <1>2 DEF ReserveOK, OrderRecord, SellsAll
<1>4. ~SellRefused(p)
  <2>1. o.qty \in Nat /\ j.mem.position[o.symbol].qty = o.qty
    BY <1>2, <1>3 DEF RunOK, SellTerms
  <2>2. ~(j.mem.position[o.symbol].qty < o.qty)
    BY <2>1
  <2>. QED
    BY <1>1, <2>2 DEF SellRefused
<1>5. ReserveExit(x, o) /\ Become(p, k)
  BY <1>1, <1>4 DEF ReserveSale
<1>6. StoresExit(x, o)
  <2>1. ASSUME NEW y \in DOMAIN orders PROVE [orders[y] EXCEPT !.status = @] = orders[y]
    BY SameStatus DEF OrdersStored
  <2>2. CASE x \in DOMAIN orders
    <3>1. [orders[x] EXCEPT !.status = "ACCEPTED"] = o
      BY <1>3, <2>2, SameStatus
    <3>. QED
      BY <1>5, <2>1, <2>2, <3>1 DEF ReserveExit, StoresExit
  <2>3. CASE x \notin DOMAIN orders
    BY <1>5, <2>1, <2>3 DEF ReserveExit, StoresExit
  <2>. QED
    BY <2>2, <2>3
<1>. QED
  BY <1>1, <1>2, <1>5, <1>6

\* Reserving an exit keeps the tables in step.
LEMMA ReserveSaleKeeps ==
    ASSUME OneProcess, IntentInv, PaperInv, NEW p \in Process, ReserveSale(p)
    PROVE  PaperInv'
<1>. PICK j : j = job[p]
  OBVIOUS
<1>. PICK x : x = j.sale[1]
  OBVIOUS
<1>. PICK o : o = j.sale[2]
  OBVIOUS
<1>. PICK k : k = [j EXCEPT !.phase = "sell"]
  OBVIOUS
<1>1. TablesOK /\ OrdersStored /\ RunInv(j)
  BY DEF PaperInv, IntentInv
<1>2. /\ Fields(j) /\ RunOK(j) /\ ReserveOK(j) /\ StoresExit(x, o) /\ Become(p, k)
      /\ UNCHANGED <<signals, portfolio, lifecycle, market>>
  BY <1>1, ReserveSaleStores DEF RunInv
<1>3. /\ ManageOK(j, {}) /\ o.symbol \in j.held
      /\ x \in DOMAIN orders => x \in OpenSells /\ orders[x] = o
  BY <1>2 DEF ReserveOK
<1>4. /\ Fields(k) /\ k.phase = "sell" /\ k.day = j.day /\ k.mem = j.mem
      /\ k.held = j.held /\ k.list = j.list /\ k.sells = j.sells
      /\ k.sale[1] = x /\ k.sale[2] = o
  BY <1>2 DEF Fields
<1>5. CASE x \notin DOMAIN orders
  <2>1. /\ TablesOK' /\ OpenSells' = OpenSells \cup {x}
        /\ \A h : /\ h.held = j.held /\ h.day = j.day /\ h.list = j.list
                  /\ h.sells = j.sells
                  => ManageOK(h, {o.symbol})'
    BY <1>1, <1>2, <1>5, ReserveNew
  <2>2. ManageOK(k, {o.symbol})'
    BY <1>4, <2>1
  <2>3. SellOK(k)'
    <3>1. orders'[x].symbol = o.symbol
      BY <1>2 DEF StoresExit
    <3>. QED
      BY <1>3, <1>4, <2>1, <2>2, <3>1 DEF SellOK
  <2>4. RunOK(k)'
    BY <1>1, <1>2, <1>4 DEF RunOK, today
  <2>5. RunInv(k)'
    BY <1>4, <2>3, <2>4 DEF RunInv, FirstLoops, LastLoops, Managing, Phase, Fields
  <2>. QED
    BY <1>2, <2>1, <2>5, OneStep
<1>6. CASE x \in DOMAIN orders
  <2>1. UNCHANGED orders
    <3>1. \A y \in DOMAIN orders : orders'[y] = orders[y]
      BY <1>2, <1>3, <1>6 DEF StoresExit
    <3>2. DOMAIN orders' = DOMAIN orders /\ orders' = [y \in DOMAIN orders' |-> orders'[y]]
      BY <1>2, <1>6 DEF StoresExit
    <3>. QED
      BY <1>1, <3>1, <3>2 DEF OrdersStored
  <2>2. ManageOK(k, {o.symbol})
    BY <1>3, <1>4 DEF ManageOK
  <2>3. SellOK(k)
    BY <1>3, <1>4, <1>6, <2>2 DEF SellOK
  <2>4. RunInv(k)
    BY <1>2, <1>4, <2>3 DEF RunInv, FirstLoops, LastLoops, Managing, Phase, RunOK
  <2>. QED
    BY <1>2, <2>1, <2>4, QuietKeeps DEF Advances
<1>. QED
  BY <1>5, <1>6

\* A sale that pays for its costs keeps the account typed and ends the position.
LEMMA SaleTypes ==
    ASSUME portfolio \in PortfolioType, NEW s \in Symbol, NEW qty \in Nat \ {0},
           qty = portfolio.position[s].qty, NEW price \in Price, Costs < price,
           NEW q, q = ApplySell(portfolio, s, qty, price)
    PROVE  /\ q \in PortfolioType
           /\ ~Holds(q, s)
           /\ \A t \in Symbol : t # s => q.position[t] = portfolio.position[t]
           /\ q.cash = portfolio.cash + SellNet(qty, price)
<1>. PICK net : net = SellNet(qty, price)
  OBVIOUS
<1>1. net \in Nat
  <2>1. price - Slip - Fee - Tax \in Nat
    BY StoreAssumption DEF Costs, Price
  <2>. QED
    BY <2>1 DEF SellNet
<1>2. /\ portfolio.cash \in Nat /\ portfolio.realized \in Int
      /\ portfolio.position \in [Symbol -> [qty : Nat, average : Nat]]
      /\ portfolio = [cash |-> portfolio.cash, realized |-> portfolio.realized,
                      position |-> portfolio.position]
  BY DEF PortfolioType
<1>. PICK realized : realized = portfolio.realized + net - portfolio.position[s].average * qty
  OBVIOUS
<1>3. portfolio.cash + net \in Nat /\ realized \in Int
  <2>1. portfolio.position[s].average \in Nat
    BY <1>2
  <2>2. portfolio.position[s].average * qty \in Int
    BY <2>1
  <2>. QED
    BY <1>1, <1>2, <2>2
<1>4. q = [cash |-> portfolio.cash + net, realized |-> realized,
           position |-> [portfolio.position EXCEPT ![s] = Flat]]
  <2>1. q = [portfolio EXCEPT !.cash = portfolio.cash + net, !.realized = realized,
                              !.position[s] = Flat]
    BY DEF ApplySell
  <2>. QED
    BY <1>2, <2>1
<1>5. Flat \in [qty : Nat, average : Nat] /\ Flat.qty = 0
  BY DEF Flat
<1>6. /\ q.position \in [Symbol -> [qty : Nat, average : Nat]]
      /\ q.position[s] = Flat
      /\ \A t \in Symbol : t # s => q.position[t] = portfolio.position[t]
  BY <1>2, <1>4, <1>5
<1>7. q \in PortfolioType
  BY <1>2, <1>3, <1>4, <1>6 DEF PortfolioType
<1>. QED
  BY <1>4, <1>5, <1>6, <1>7 DEF Holds

\* The sale of a reserved exit, and its effect on the tables.
Sells(x, s, o) ==
    /\ x \in OpenSells /\ s = orders[x].symbol
    /\ o = [orders[x] EXCEPT !.status = "FILLED"]
    /\ StoresExit(x, o)
    /\ portfolio' = ApplySell(portfolio, s, orders[x].qty, orders[x].price)
    /\ lifecycle' = [lifecycle EXCEPT ![s] = NoRow]
    /\ UNCHANGED <<signals, market>>

\* A sale ends order, position and row together: the tables stay in step.
LEMMA SellKeepsTables ==
    ASSUME TablesOK, OrdersStored, NEW x, NEW s, NEW o, Sells(x, s, o)
    PROVE  /\ TablesOK' /\ OpenSells' = OpenSells \ {x}
           /\ \A y \in DOMAIN orders : y # x => orders'[y] = orders[y]
           /\ DOMAIN orders' = DOMAIN orders /\ orders'[x].symbol = s
           /\ \A t \in Symbol : t # s => /\ lifecycle'[t] = lifecycle[t]
                                         /\ portfolio'.position[t] = portfolio.position[t]
           /\ lifecycle'[s] = NoRow
           /\ \A y \in OpenSells : y # x => orders[y].symbol # s
           /\ \A m : Sold(m)' <=> Sold(m) \/ m = x.signal
           /\ \A m : Bought(m)' <=> Bought(m)
<1>. PICK b : b = orders[x]
  OBVIOUS
<1>1. /\ x \in OpenSells /\ x \in DOMAIN orders /\ s = b.symbol
      /\ o = [b EXCEPT !.status = "FILLED"] /\ StoresExit(x, o)
      /\ portfolio' = ApplySell(portfolio, s, b.qty, b.price)
      /\ lifecycle' = [lifecycle EXCEPT ![s] = NoRow]
      /\ UNCHANGED <<signals, market>>
  BY DEF Sells, OpenSells
<1>2. /\ IsExit(x) /\ SellTerms(x, b) /\ b.status = "ACCEPTED" /\ OrderRecord(b)
  BY <1>1, OpenSellTerms DEF TablesOK, OrdersStored
<1>3. /\ o.status = "FILLED" /\ o.side = b.side /\ o.symbol = b.symbol /\ o.qty = b.qty
      /\ o.price = b.price /\ o.average = b.average
  BY <1>1, <1>2 DEF OrderRecord
<1>4. SellTerms(x, o)
  BY <1>2, <1>3 DEF SellTerms
<1>5. /\ OrdersOK' /\ SignalsOK' /\ SettledAgreesWithOrder'
      /\ \A m : Bought(m)' <=> Bought(m)
  BY <1>1, <1>2, <1>4, ExitStored
<1>6. /\ DOMAIN orders' = DOMAIN orders /\ orders'[x] = o
      /\ \A y \in DOMAIN orders : y # x => orders'[y] = orders[y]
  BY <1>1 DEF StoresExit
<1>7. OpenSells' = OpenSells \ {x}
  BY <1>3, <1>6 DEF OpenSells, Status
<1>8. \A m : Sold(m)' <=> Sold(m) \/ m = x.signal
  <2>1. o.side = "SELL" /\ o.status = "FILLED"
    BY <1>3, <1>4 DEF SellTerms
  <2>2. \A m : Sold(m)' => Sold(m) \/ m = x.signal
    BY <1>6 DEF Sold, Status
  <2>3. Sold(x.signal)'
    BY <1>1, <1>6, <2>1 DEF Sold, Status
  <2>4. ASSUME NEW m, Sold(m) PROVE Sold(m)'
    <3>1. PICK y \in DOMAIN orders : /\ orders[y].side = "SELL" /\ y.signal = m
                                     /\ Status(y) = "FILLED"
      BY <2>4 DEF Sold
    <3>2. y # x
      BY <1>1, <1>2, <3>1 DEF Status
    <3>. QED
      BY <1>6, <3>1, <3>2 DEF Sold, Status
  <2>. QED
    BY <2>2, <2>3, <2>4
<1>9. /\ s \in Symbol /\ lifecycle[s] # NoRow /\ lifecycle[s].entry = x.signal
      /\ x.signal \in DOMAIN signals /\ signals[x.signal].symbol = s
  BY <1>1, <1>2, SaleHeld DEF SellTerms
<1>10. /\ \A y \in OpenSells : y # x => orders[y].symbol # s
       /\ b.qty = portfolio.position[s].qty
  BY <1>1 DEF TablesOK, OpenSalesOK, SellsAll
<1>11. /\ lifecycle' = [t \in Symbol |-> lifecycle'[t]] /\ lifecycle'[s] = NoRow
       /\ \A t \in Symbol : t # s => lifecycle'[t] = lifecycle[t]
  BY <1>1, <1>9 DEF TablesOK, LifecycleOK
<1>12. /\ portfolio' \in PortfolioType /\ ~Holds(portfolio, s)'
       /\ \A t \in Symbol : t # s => portfolio'.position[t] = portfolio.position[t]
  <2>1. b.qty \in Nat \ {0} /\ b.price \in Price /\ Costs < b.price
    BY <1>2 DEF SellTerms
  <2>2. portfolio' \in PortfolioType
    BY <1>1, <1>9, <1>10, <2>1, SaleTypes DEF TablesOK
  <2>3. ~Holds(portfolio, s)'
    BY <1>1, <1>9, <1>10, <2>1, SaleTypes DEF TablesOK, Holds
  <2>4. \A t \in Symbol : t # s => portfolio'.position[t] = portfolio.position[t]
    BY <1>1, <1>9, <1>10, <2>1, SaleTypes DEF TablesOK
  <2>. QED
    BY <2>2, <2>3, <2>4
<1>13. LifecycleOK'
  <2>1. ASSUME NEW t \in Symbol, lifecycle'[t] # NoRow PROVE RowOK(t, lifecycle[t])'
    <3>. PICK r : r = lifecycle'[t]
      OBVIOUS
    <3>1. t # s /\ r = lifecycle[t]
      BY <1>11, <2>1
    <3>2. RowOK(t, r)
      BY <2>1, <3>1 DEF TablesOK, LifecycleOK
    <3>3. r.entry # x.signal
      BY <1>9, <3>1, <3>2 DEF RowOK
    <3>4. RowOK(t, r)'
      BY <1>1, <1>5, <1>8, <3>2, <3>3 DEF RowOK
    <3>. QED
      BY <3>4 DEF RowOK, RowFields
  <2>. QED
    BY <1>11, <2>1 DEF LifecycleOK
<1>14. HeldHasLifecycle'
  BY <1>11, <1>12 DEF TablesOK, HeldHasLifecycle, Holds
<1>15. DealsOK'
  <2>1. ASSUME NEW m \in DOMAIN signals, Bought(m)', ~Sold(m)'
        PROVE  /\ lifecycle'[signals[m].symbol] # NoRow
               /\ lifecycle'[signals[m].symbol].entry = m
    <3>1. /\ lifecycle[signals[m].symbol] # NoRow
          /\ lifecycle[signals[m].symbol].entry = m
      BY <1>5, <1>8, <2>1 DEF TablesOK, DealsOK
    <3>2. signals[m].symbol \in Symbol /\ signals[m].symbol # s
      BY <1>8, <1>9, <2>1, <3>1, Tables
    <3>. QED
      BY <1>11, <3>1, <3>2
  <2>. QED
    BY <1>1, <2>1 DEF DealsOK
<1>16. OpenSalesOK'
  <2>1. ASSUME NEW y \in OpenSells, y # x
        PROVE  /\ orders'[y] = orders[y] /\ ~Sold(y.signal)'
               /\ SellsAll(orders[y], portfolio'.position[orders[y].symbol])
    <3>1. /\ y \in DOMAIN orders /\ SellTerms(y, orders[y]) /\ ~Sold(y.signal)
          /\ SellsAll(orders[y], portfolio.position[orders[y].symbol])
      BY OpenSellTerms DEF TablesOK, OpenSalesOK
    <3>2. orders[y].symbol \in Symbol /\ orders[y].symbol # s
      BY <1>10, <2>1, SaleHeld
    <3>3. y.signal # x.signal
      BY <1>9, <3>1, <3>2 DEF SellTerms
    <3>. QED
      BY <1>6, <1>8, <1>12, <2>1, <3>1, <3>2, <3>3
  <2>. QED
    BY <1>7, <2>1 DEF TablesOK, OpenSalesOK
<1>. QED
  BY <1>1, <1>3, <1>5, <1>6, <1>7, <1>8, <1>10, <1>11, <1>12, <1>13, <1>14, <1>15, <1>16
     DEF TablesOK

\* An exit is filled on the terms it was reserved with.
LEMMA FillExitSells ==
    ASSUME NEW p, NEW j, j = job[p], RunInv(j), FillExit(p),
           NEW x, x = j.sale[1], NEW s, s = orders[x].symbol,
           NEW o, o = [orders[x] EXCEPT !.status = "FILLED"]
    PROVE  Sells(x, s, o)
<1>1. j.phase = "sell" /\ Intent(p) = x /\ SaveExit(x, j.mem) /\ UNCHANGED market
  BY DEF FillExit, At, Intent, Others
<1>2. RunOK(j) /\ x \in OpenSells
  BY <1>1 DEF RunInv, Managing, SellOK
<1>3. x \in DOMAIN orders
  BY <1>2 DEF OpenSells
<1>4. StoresExit(x, o)
  BY <1>1 DEF SaveExit, FillOrder, StoresExit
<1>5. /\ portfolio' = ApplySell(portfolio, s, orders[x].qty, orders[x].price)
      /\ lifecycle' = [lifecycle EXCEPT ![s] = NoRow] /\ UNCHANGED signals
  BY <1>1, <1>2 DEF SaveExit, SavePortfolio, RunOK
<1>. QED
  BY <1>1, <1>2, <1>4, <1>5 DEF Sells

\* A filled exit sells the whole position, whose row ends with it.
LEMMA FillExitKeeps ==
    ASSUME OneProcess, IntentInv, PaperInv, NEW p \in Process, FillExit(p)
    PROVE  PaperInv'
<1>. PICK j : j = job[p]
  OBVIOUS
<1>. PICK x : x = j.sale[1]
  OBVIOUS
<1>. PICK s : s = orders[x].symbol
  OBVIOUS
<1>. PICK o : o = [orders[x] EXCEPT !.status = "FILLED"]
  OBVIOUS
<1>1. /\ TablesOK /\ OrdersStored /\ RunInv(j) /\ j.phase = "sell"
      /\ Intent(p) = x /\ SaleOf(p) = j.sale[2] /\ UNCHANGED market
  BY DEF PaperInv, IntentInv, FillExit, At, Intent, SaleOf, Others
<1>2. Fields(j) /\ RunOK(j) /\ SellOK(j)
  BY <1>1 DEF RunInv, Managing
<1>3. /\ x \in OpenSells /\ SaleOf(p).symbol = s /\ s \in j.held /\ ManageOK(j, {s})
  BY <1>1, <1>2 DEF SellOK
<1>4. Sells(x, s, o)
  BY <1>1, FillExitSells
<1>5. /\ TablesOK' /\ OpenSells' = OpenSells \ {x}
      /\ \A y \in DOMAIN orders : y # x => orders'[y] = orders[y]
      /\ DOMAIN orders' = DOMAIN orders /\ orders'[x].symbol = s
      /\ \A t \in Symbol : t # s => /\ lifecycle'[t] = lifecycle[t]
                                    /\ portfolio'.position[t] = portfolio.position[t]
      /\ lifecycle'[s] = NoRow
      /\ \A y \in OpenSells : y # x => orders[y].symbol # s
  BY <1>1, <1>4, SellKeepsTables
<1>. PICK mem : mem = portfolio'
  OBVIOUS
<1>. PICK done : done = Done(p, s)
  OBVIOUS
<1>. PICK k : k = [done EXCEPT !.mem = mem]
  OBVIOUS
<1>6. /\ Fields(done) /\ done.phase = "manage" /\ done.day = j.day
      /\ done.held = j.held \ {s} /\ done.list = j.list /\ done.sells = j.sells
      /\ done.mem = j.mem
  <2>1. j = job[p] /\ Fields(j) /\ done = Done(p, s)
    BY <1>2
  <2>. QED
    BY ONLY <2>1, DoneFields
<1>7. Become(p, k)
  <2>1. mem = ApplySell(done.mem, s, orders[x].qty, orders[x].price)
    BY <1>2, <1>4, <1>6 DEF Sells, RunOK
  <2>. QED
    BY <1>1, <1>3, <2>1 DEF FillExit
<1>8. /\ Fields(k) /\ k.phase = "manage" /\ k.day = j.day /\ k.mem = portfolio'
      /\ k.held = j.held \ {s} /\ k.list = j.list /\ k.sells = j.sells
  BY <1>6 DEF Fields
<1>9. UNCHANGED signals
  BY <1>4 DEF Sells
<1>10. ManageOK(k, {})'
  <2>1. /\ Outstanding(k.day)' = {} /\ k.held \subseteq Symbol
        /\ \A t \in k.held : Holds(portfolio, t)' /\ k.list[t] = portfolio'.position[t]
        /\ k.sells \subseteq DOMAIN orders'
    BY <1>3, <1>5, <1>8, <1>9 DEF ManageOK, Outstanding, Holds
  <2>2. \A y \in DOMAIN orders' : orders'[y].symbol \in k.held =>
            (y \in k.sells <=> y \in OpenSells')
    BY <1>3, <1>5, <1>8 DEF ManageOK
  <2>3. \A y \in OpenSells' :
            \/ orders'[y].symbol \in k.held
            \/ market'[k.day][orders'[y].symbol] = NoBar
    <3>1. \A y \in OpenSells : y # x => y \in DOMAIN orders /\ orders'[y] = orders[y]
      BY <1>5 DEF OpenSells
    <3>2. ASSUME NEW y \in OpenSells, y # x
          PROVE  \/ orders[y].symbol \in k.held
                 \/ market[k.day][orders[y].symbol] = NoBar
      <4>. PICK t : t = orders[y].symbol
        OBVIOUS
      <4>1. t \in j.held \/ Bar(j.day, t) = NoBar
        BY <1>3 DEF ManageOK
      <4>2. t # s
        BY <1>5, <3>2
      <4>. QED
        BY <1>8, <4>1, <4>2 DEF Bar
    <3>. QED
      BY <1>1, <1>5, <3>1, <3>2
  <2>. QED
    BY <2>1, <2>2, <2>3 DEF ManageOK, Bar, Holds, Outstanding
<1>11. RunOK(k)'
  BY <1>1, <1>2, <1>5, <1>8 DEF RunOK, today
<1>12. RunInv(k)'
  BY <1>8, <1>10, <1>11 DEF RunInv, FirstLoops, LastLoops, Managing, Phase, Fields
<1>. QED
  BY <1>5, <1>7, <1>12, OneStep

-----------------------------------------------------------------------------
(* The invariant. *)

\* The first state satisfies it.
LEMMA PaperInvInit == Init => PaperInv
<1>. SUFFICES ASSUME Init PROVE PaperInv
  OBVIOUS
<1>1. /\ signals = <<>> /\ orders = <<>> /\ portfolio = NewPortfolio
      /\ lifecycle = [s \in Symbol |-> NoRow] /\ job = [p \in Process |-> NoJob]
  BY DEF Init, StoreInit
<1>2. PICK bars \in Markets : market = <<bars>>
  BY DEF Init
<1>3. market \in Seq(Markets) /\ market # <<>>
  BY <1>2
<1>4. DOMAIN signals = {} /\ DOMAIN orders = {} /\ OpenSells = {}
  BY <1>1 DEF OpenSells
<1>5. SignalsOK /\ OrdersOK /\ DealsOK /\ OpenSalesOK /\ SettledAgreesWithOrder
  BY <1>1, <1>3, <1>4
     DEF SignalsOK, OrdersOK, DealsOK, OpenSalesOK, SettledAgreesWithOrder
<1>6. LifecycleOK
  BY <1>1 DEF LifecycleOK
<1>7. portfolio \in PortfolioType /\ \A s \in Symbol : portfolio.position[s].qty = 0
  BY <1>1, StoreAssumption DEF PortfolioType, NewPortfolio, Flat
<1>8. HeldHasLifecycle
  BY <1>1, <1>7 DEF HeldHasLifecycle, Holds
<1>9. TablesOK
  BY <1>5, <1>6, <1>7, <1>8 DEF TablesOK
<1>. QED
  BY <1>1, <1>9, NoRunOK DEF PaperInv

\* While a signal is to be executed its intent has no order, so that no result of
\* another process is found; and no exit to be filled is filled.
LEMMA NothingFound ==
    ASSUME PaperInv, NEW p \in Process,
           \/ FindEntry(p) \/ FindExit(p, "reserve") \/ FindExit(p, "sell")
           \/ RestoreLifecycle(p) \/ MarkRestored(p)
    PROVE  FALSE
<1>. PICK j : j = job[p]
  OBVIOUS
<1>1. TablesOK /\ RunInv(j) /\ j.phase \in Phase
  BY DEF PaperInv, RunInv
<1>2. CASE FindEntry(p)
  <2>1. j.phase = "execute" /\ j.todo # <<>> /\ Status(Entry(Head(j.todo))) # "NONE"
    BY <1>2 DEF FindEntry, At, First
  <2>. QED
    BY <1>1, <2>1, ExecuteFirst
<1>3. CASE FindExit(p, "reserve")
  <2>1. j.phase = "reserve" /\ Status(j.sale[1]) = "FILLED"
    BY <1>3 DEF FindExit, At, Intent
  <2>2. ReserveOK(j)
    BY <1>1, <2>1 DEF RunInv, Managing
  <2>. QED
    BY <2>1, <2>2 DEF ReserveOK, OpenSells, Status
<1>4. CASE FindExit(p, "sell")
  <2>1. j.phase = "sell" /\ Status(j.sale[1]) = "FILLED"
    BY <1>4 DEF FindExit, At, Intent
  <2>2. SellOK(j)
    BY <1>1, <2>1 DEF RunInv, Managing
  <2>. QED
    BY <2>1, <2>2 DEF SellOK, OpenSells
<1>5. CASE RestoreLifecycle(p) \/ MarkRestored(p)
  BY <1>1, <1>5 DEF RestoreLifecycle, MarkRestored, At, Phase
<1>. QED
  BY <1>2, <1>3, <1>4, <1>5

\* Steps of a run that change nothing but the run, and the bounds.
LocalStep(p) ==
    \/ StartRun(p) \/ StartUpdate(p) \/ Crash(p) \/ FinishRun(p)
    \/ LoadPending(p) \/ CheckFreshness(p) \/ PriceSignal(p) \/ SkipSignal(p)
    \/ MarkEntry(p) \/ EndLoop(p) \/ LoadPositions(p) \/ EvaluatePosition(p)

\* The portfolio they write is the one that is stored.
LEMMA LocalChangesNothing ==
    ASSUME NEW p, RunInv(job[p]), LocalStep(p)
    PROVE  UNCHANGED <<signals, orders, lifecycle, portfolio, market>>
<1>1. portfolio' = portfolio
  <2>1. CASE MarkEntry(p)
    <3>1. RunOK(job[p])
      BY <2>1 DEF MarkEntry, At, RunInv
    <3>. QED
      BY <2>1, <3>1 DEF MarkEntry, SavePortfolio, RunOK
  <2>2. CASE FinishRun(p)
    <3>1. RunOK(job[p])
      BY <2>2 DEF FinishRun, At, RunInv
    <3>. QED
      BY <2>2, <3>1 DEF FinishRun, SavePortfolio, RunOK
  <2>3. CASE ~MarkEntry(p) /\ ~FinishRun(p)
    BY <2>3 DEF LocalStep, StartRun, StartUpdate, Crash, LoadPending, CheckFreshness, PriceSignal,
                SkipSignal, EndLoop, NextLoop, LoadPositions, EvaluatePosition, Local,
                storeVars
  <2>. QED
    BY <2>1, <2>2, <2>3
<1>2. UNCHANGED <<signals, orders, lifecycle, market>>
  BY DEF LocalStep, StartRun, StartUpdate, Crash, FinishRun, LoadPending, CheckFreshness,
         PriceSignal, SkipSignal, MarkEntry, EndLoop, NextLoop, LoadPositions,
         EvaluatePosition, Local, Others, storeVars
<1>. QED
  BY <1>1, <1>2

\* They keep the invariant.
LEMMA LocalSteps ==
    ASSUME OneProcess, IntentInv, DayInv, PaperInv, NEW p \in Process, LocalStep(p)
    PROVE  PaperInv'
<1>1. TablesOK /\ OrdersStored /\ RunInv(job[p]) /\ JobDays(job[p])
  BY DEF PaperInv, IntentInv, DayInv
<1>2. Advances(p)
  BY <1>1, LoadAdvances, FreshAdvances, PriceAdvances, SkipAdvances, MarkAdvances,
     LoopAdvances, PositionsAdvance, EndsAdvance, EvaluateAdvances DEF LocalStep
<1>. QED
  BY <1>1, <1>2, LocalChangesNothing, QuietKeeps

\* Every step keeps it, if no second process runs.
LEMMA PaperInvNext ==
    ASSUME OneProcess, IntentInv, DayInv, PaperInv, [Next]_paperVars
    PROVE  PaperInv'
<1>1. CASE OpenSession \/ QueueSignal
  BY <1>1, WorldKeeps
<1>2. ASSUME NEW p \in Process, StartRun(p) \/ StartUpdate(p) \/ RunStep(p) \/ Crash(p)
      PROVE  PaperInv'
  BY <1>2, LocalSteps, NothingFound, SettleKeeps, CompleteSignalKeeps, RejectKeeps,
     FillEntryKeeps, InitializeKeeps, SaveHoldKeeps, ReserveSaleKeeps, FillExitKeeps
     DEF RunStep, ExecutionStep, LifecycleStep, LocalStep
<1>3. CASE UNCHANGED paperVars
  <2>1. UNCHANGED <<signals, orders, lifecycle, portfolio, market, job>>
    BY <1>3 DEF paperVars
  <2>2. /\ TablesOK /\ OrdersStored /\ AccountKept /\ SignalsKept
        /\ today' = today /\ today \in Nat
    BY <2>1, Tables DEF PaperInv, IntentInv, AccountKept, SignalsKept, today
  <2>3. SignalsOK' /\ SettledAgreesWithOrder'
    BY <2>1, <2>2 DEF TablesOK, SignalsOK, SettledAgreesWithOrder, Status
  <2>4. TablesOK'
    BY <2>2, <2>3, TablesKept
  <2>5. ASSUME NEW p \in Process PROVE \A j \in {job[p]} : RunInv(j)'
    <3>. PICK j : j = job[p]
      OBVIOUS
    <3>1. RunInv(j)
      BY DEF PaperInv
    <3>2. Outstanding(j.day)' = Outstanding(j.day) /\ \A s : Bar(j.day, s)' = Bar(j.day, s)
      BY <2>1 DEF Outstanding, Bar
    <3>3. RunInv(j)'
      BY <2>2, <3>1, <3>2, RunKept
    <3>. QED
      BY <3>3
  <2>. QED
    BY <2>1, <2>4, <2>5 DEF PaperInv
<1>. QED
  BY <1>1, <1>2, <1>3 DEF Next

\* The tables and the runs hold together in every reachable state.
LEMMA PaperInvHolds ==
    ASSUME OneProcess
    PROVE  Spec => [](IntentInv /\ DayInv /\ PaperInv)
<1>1. Init => IntentInv /\ DayInv /\ PaperInv
  BY IntentInvInit, DayInvInit, PaperInvInit
<1>2. IntentInv /\ DayInv /\ PaperInv /\ [Next]_paperVars
          => IntentInv' /\ DayInv' /\ PaperInv'
  BY IntentInvNext, DayInvNext, PaperInvNext
<1>. QED
  BY <1>1, <1>2, PTL DEF Spec

\* With one process at a time, exactly the held symbols have a lifecycle row: no
\* crash or rerun leaves a position without the stop that protects it, or a row
\* without a position.
THEOREM HeldAlwaysProtected ==
    ASSUME OneProcess
    PROVE  Spec => []HeldHasLifecycle
<1>1. PaperInv => HeldHasLifecycle
  BY DEF PaperInv, TablesOK
<1>. QED
  BY <1>1, PaperInvHolds, PTL

\* With one process at a time, no crash or rerun reports an executed signal as
\* missed, skipped or rejected, or one that was not executed as executed.
THEOREM ReportsAlwaysAgree ==
    ASSUME OneProcess
    PROVE  Spec => []SettledAgreesWithOrder
<1>1. PaperInv => SettledAgreesWithOrder
  BY DEF PaperInv, TablesOK
<1>. QED
  BY <1>1, PaperInvHolds, PTL

\* With one process at a time, a run that has visited every position leaves no
\* signal of an earlier session pending and no exit reserved that it could fill.
THEOREM RunsFinishTheirWork ==
    ASSUME OneProcess
    PROVE  Spec => []RunLeavesNothingDue
<1>1. PaperInv => RunLeavesNothingDue
  <2>. SUFFICES ASSUME PaperInv, NEW p \in Process, At(p, "manage"), job[p].held = {}
                PROVE  /\ \A i \in DOMAIN signals :
                            signals[i].day < job[p].day => signals[i].status # "PENDING"
                       /\ \A x \in OpenSells : Bar(job[p].day, orders[x].symbol) = NoBar
    BY DEF RunLeavesNothingDue
  <2>. PICK j : j = job[p]
    OBVIOUS
  <2>1. ManageOK(j, {}) /\ j.held = {}
    BY DEF PaperInv, RunInv, Managing, At
  <2>. QED
    BY <2>1 DEF ManageOK, Outstanding
<1>. QED
  BY <1>1, PaperInvHolds, PTL

\* With one process at a time the tables are typed: cash is never overdrawn, in the
\* store or in the copy of a run, and every row protects an executed signal.
THEOREM PaperAlwaysTyped ==
    ASSUME OneProcess
    PROVE  Spec => []PaperTypeOK
<1>1. IntentInv /\ PaperInv => PaperTypeOK
  <2>. SUFFICES ASSUME IntentInv, PaperInv PROVE PaperTypeOK
    OBVIOUS
  <2>1. TablesOK /\ OrdersStored /\ portfolio \in PortfolioType
    BY DEF PaperInv, IntentInv, TablesOK
  <2>2. \A p \in Process : job[p].mem \in PortfolioType
    <3>. SUFFICES ASSUME NEW p \in Process PROVE job[p].mem \in PortfolioType
      OBVIOUS
    <3>1. RunInv(job[p])
      BY DEF PaperInv
    <3>2. NewPortfolio \in PortfolioType
      BY StoreAssumption DEF PortfolioType, NewPortfolio, Flat
    <3>. QED
      BY <2>1, <3>1, <3>2 DEF RunInv, RunOK
  <2>3. \A i \in DOMAIN signals : signals[i].status \in SignalStatus
    <3>1. ASSUME NEW R, signals \in Seq(R)
          PROVE  \A i \in DOMAIN signals : signals[i] \in R
      BY <3>1
    <3>2. signals \in Seq([day : Nat, symbol : Symbol, atr : Payload, status : SignalStatus])
      BY <2>1, Tables
    <3>3. \A i \in DOMAIN signals :
            signals[i] \in [day : Nat, symbol : Symbol, atr : Payload, status : SignalStatus]
      BY <3>1, <3>2
    <3>. QED
      BY <3>3
  <2>4. \A x \in DOMAIN orders : /\ orders[x].status \in {"ACCEPTED", "FILLED", "REJECTED"}
                                 /\ orders[x].qty \in Nat \ {0} /\ orders[x].price \in Price
    BY <2>1 DEF TablesOK, OrdersOK, OrdersStored, BuyOK, SellTerms
  <2>5. \A s \in Symbol : lifecycle[s] # NoRow =>
            lifecycle[s].entry \in DOMAIN signals /\ ValidRow(lifecycle[s])
    BY <2>1 DEF TablesOK, LifecycleOK, RowOK
  <2>. QED
    BY <2>1, <2>2, <2>3, <2>4, <2>5 DEF PaperTypeOK, SignalStatus
<1>. QED
  BY <1>1, PaperInvHolds, PTL

-----------------------------------------------------------------------------
(* The abstract ledger: every step moves one deal, or none. *)

\* A step of the ledger, or none.
LedgerStep == [Ledger!Next]_(Ledger!ledgerVars)

\* The stage of a signal is told by its order and its exits.
StageKept(i) == Stage(i)' = Stage(i)

\* As long as these stay, so does the stage.
LEMMA StageOf ==
    ASSUME UNCHANGED signals, NEW i, Status(Entry(i))' = Status(Entry(i)),
           Sold(i)' <=> Sold(i)
    PROVE  StageKept(i)
  BY DEF StageKept, Stage

\* What identifies the deals stays.
SameDeals ==
    /\ DOMAIN signals' = DOMAIN signals
    /\ \A i \in DOMAIN signals :
        signals'[i].symbol = signals[i].symbol /\ signals'[i].day = signals[i].day

\* No stage changes and no cash moves: the ledger stutters.
LEMMA NoDealMoves ==
    ASSUME SameDeals, \A i \in DOMAIN signals : StageKept(i),
           portfolio'.cash = portfolio.cash
    PROVE  LedgerStep
<1>1. Deals' = Deals
  BY DEF Deals, SameDeals, StageKept
<1>. QED
  BY <1>1 DEF LedgerStep, Ledger!ledgerVars

\* One stage changes: the deal moves.
LEMMA DealMoves ==
    ASSUME SameDeals, NEW i \in DOMAIN signals, NEW from, NEW to,
           Stage(i) = from, Stage(i)' = to,
           \A m \in DOMAIN signals : m # i => StageKept(m)
    PROVE  Ledger!Move(i, from, to) /\ i \in DOMAIN Deals
<1>1. /\ DOMAIN Deals = DOMAIN signals /\ DOMAIN Deals' = DOMAIN signals
      /\ \A m \in DOMAIN signals :
            Deals[m] = [symbol |-> signals[m].symbol, day |-> signals[m].day,
                        stage |-> Stage(m)]
  BY DEF Deals, SameDeals
<1>2. \A m \in DOMAIN signals :
            Deals'[m] = [symbol |-> signals[m].symbol, day |-> signals[m].day,
                         stage |-> Stage(m)']
  BY DEF Deals, SameDeals
<1>3. Deals[i].stage = from
  BY <1>1
<1>4. Deals'[i] = [Deals[i] EXCEPT !.stage = to]
  BY <1>1, <1>2
<1>5. \A m \in DOMAIN signals : m # i => Deals'[m] = Deals[m]
  BY <1>1, <1>2 DEF StageKept
<1>6. Deals' = [Deals EXCEPT ![i].stage = to]
  <2>1. Deals' = [m \in DOMAIN signals' |-> Deals'[m]]
    BY DEF Deals
  <2>2. Deals = [m \in DOMAIN signals |-> Deals[m]]
    BY DEF Deals
  <2>3. [Deals EXCEPT ![i].stage = to]
            = [m \in DOMAIN signals |-> IF m = i THEN [Deals[i] EXCEPT !.stage = to]
                                        ELSE Deals[m]]
    BY <1>1, <2>2
  <2>. QED
    BY <1>4, <1>5, <2>1, <2>3 DEF SameDeals
<1>. QED
  BY <1>1, <1>3, <1>6 DEF Ledger!Move

\* A completed signal without a filled order is dropped, if its rejection did not
\* drop it before.
LEMMA CompletionDrops ==
    ASSUME TablesOK, OrdersStored, NEW i \in DOMAIN signals, NEW status,
           Agrees(i, status), Complete(i, status), UNCHANGED <<orders, portfolio>>
    PROVE  LedgerStep
<1>1. SameDeals /\ \A m \in DOMAIN signals : m # i => signals'[m] = signals[m]
  BY DEF Complete, SameDeals
<1>2. signals'[i].status = IF signals[i].status = "PENDING" THEN status ELSE signals[i].status
  <2>1. ASSUME NEW R, signals \in Seq(R) PROVE signals[i] \in R
    BY <2>1
  <2>2. signals \in Seq([day : Nat, symbol : Symbol, atr : Payload, status : SignalStatus])
    BY Tables
  <2>3. signals[i] \in [day : Nat, symbol : Symbol, atr : Payload, status : SignalStatus]
    BY <2>1, <2>2
  <2>4. PICK r : r = signals[i] /\ "status" \in DOMAIN r
    BY <2>3
  <2>5. signals'[i] = [r EXCEPT !.status = IF @ = "PENDING" THEN status ELSE @]
    BY <2>4 DEF Complete
  <2>. QED
    BY <2>4, <2>5
<1>3. \A m : Status(Entry(m))' = Status(Entry(m)) /\ (Sold(m)' <=> Sold(m))
  BY DEF Status, Sold
<1>4. \A m \in DOMAIN signals : m # i => StageKept(m)
  BY <1>1, <1>3 DEF StageKept, Stage
<1>5. CASE signals[i].status # "PENDING" \/ Status(Entry(i)) \in {"FILLED", "REJECTED"}
  <2>1. StageKept(i)
    BY <1>2, <1>3, <1>5 DEF StageKept, Stage, Agrees
  <2>. QED
    BY <1>1, <1>4, <2>1, NoDealMoves
<1>6. CASE signals[i].status = "PENDING" /\ Status(Entry(i)) \notin {"FILLED", "REJECTED"}
  <2>1. Stage(i) = "queued" /\ Stage(i)' = "dropped"
    BY <1>2, <1>3, <1>6 DEF Stage, Agrees
  <2>2. Ledger!Move(i, "queued", "dropped") /\ i \in DOMAIN Deals
    BY <1>1, <1>4, <2>1, DealMoves
  <2>. QED
    BY <2>2 DEF LedgerStep, Ledger!Next, Ledger!Drop
<1>. QED
  BY <1>5, <1>6

\* A rejected signal is dropped.
LEMMA RejectionDrops ==
    ASSUME PaperInv, NEW p \in Process, RejectEntry(p)
    PROVE  LedgerStep
<1>. PICK j : j = job[p]
  OBVIOUS
<1>. PICK i : i = Head(j.todo)
  OBVIOUS
<1>1. /\ RunInv(j) /\ j.phase = "execute" /\ j.todo # <<>> /\ First(p) = i
      /\ UNCHANGED <<signals, portfolio>>
  BY DEF PaperInv, RejectEntry, At, First
<1>2. /\ i \in Outstanding(j.day) /\ i \in DOMAIN signals /\ Status(Entry(i)) = "NONE"
  BY <1>1, ExecuteFirst
<1>3. PICK qty \in Quantity :
          InsertOrder(Entry(i), [BuyOrder(p, qty) EXCEPT !.status = "REJECTED"])
  BY <1>1, <1>2 DEF RejectEntry
<1>. PICK o : o = [BuyOrder(p, qty) EXCEPT !.status = "REJECTED"]
  OBVIOUS
<1>4. o.status = "REJECTED" /\ o.side = "BUY"
  BY DEF BuyOrder
<1>5. AddsEntryOrder(i, o) /\ Entry(i) \notin DOMAIN orders
  BY <1>3 DEF InsertOrder, AddsEntryOrder
<1>6. /\ \A x : x # Entry(i) => Status(x)' = Status(x)
      /\ Status(Entry(i))' = "REJECTED"
      /\ \A m : Sold(m)' <=> Sold(m)
  BY <1>4, <1>5 DEF AddsEntryOrder, Status, Sold
<1>7. \A m \in DOMAIN signals : m # i => StageKept(m)
  BY <1>1, <1>6, EntryIntents, StageOf
<1>8. Stage(i) = "queued" /\ Stage(i)' = "dropped"
  BY <1>1, <1>2, <1>6 DEF Stage, Outstanding
<1>9. Ledger!Move(i, "queued", "dropped") /\ i \in DOMAIN Deals
  BY <1>1, <1>2, <1>7, <1>8, DealMoves DEF SameDeals
<1>. QED
  BY <1>1, <1>9 DEF LedgerStep, Ledger!Next, Ledger!Drop

\* A filled entry opens the deal of its symbol, and costs what can be paid.
LEMMA EntryBuys ==
    ASSUME PaperInv, NEW p \in Process, FillEntry(p)
    PROVE  LedgerStep
<1>. PICK j : j = job[p]
  OBVIOUS
<1>. PICK i : i = Head(j.todo)
  OBVIOUS
<1>. PICK s : s = signals[i].symbol
  OBVIOUS
<1>1. /\ TablesOK /\ RunInv(j) /\ j.phase = "execute" /\ j.todo # <<>> /\ First(p) = i
      /\ MayBuy(p)
  BY DEF PaperInv, FillEntry, At, First
<1>2. /\ RunOK(j) /\ i \in Tradable(j)
      /\ i \in Outstanding(j.day) /\ i \in DOMAIN signals /\ Status(Entry(i)) = "NONE"
  BY <1>1, ExecuteFirst
<1>3. PICK qty, b : qty \in Quantity /\ b = BuyOrder(p, qty) /\ FillsOrEnds(p, qty, b)
  BY FillEntryCases
<1>4. CASE Abort(p) /\ UNCHANGED storeVars
  <2>1. UNCHANGED <<signals, orders, portfolio>>
    BY <1>4 DEF storeVars
  <2>2. \A m : Status(Entry(m))' = Status(Entry(m)) /\ (Sold(m)' <=> Sold(m))
    BY <2>1 DEF Status, Sold
  <2>. QED
    BY <2>1, <2>2, StageOf, NoDealMoves DEF SameDeals
<1>5. CASE ~(Abort(p) /\ UNCHANGED storeVars)
  <2>1. Affordable(p, b) /\ SaveEntry(i, b, j.mem)
    BY <1>1, <1>3, <1>5 DEF FillsOrEnds
  <2>2. /\ OrderRecord(b) /\ b.side = "BUY" /\ b.symbol = s /\ s \in Symbol
        /\ b.qty \in Nat \ {0} /\ b.price \in Price
    BY <1>1, <1>2, <1>3, EntryTerms
  <2>. PICK o : o = [b EXCEPT !.status = "FILLED"]
    OBVIOUS
  <2>3. o.status = "FILLED" /\ o.side = "BUY"
    BY <2>2 DEF OrderRecord
  <2>4. /\ AddsEntryOrder(i, o) /\ UNCHANGED signals
        /\ portfolio' = ApplyBuy(portfolio, s, b.qty, b.price)
    BY <1>2, <2>1, <2>2
       DEF SaveEntry, FillOrder, SavePortfolio, AddsEntryOrder, RunOK
  <2>5. /\ \A x : x # Entry(i) => Status(x)' = Status(x)
        /\ Status(Entry(i))' = "FILLED"
    BY <2>3, <2>4 DEF AddsEntryOrder, Status
  <2>6. \A m : Sold(m)' <=> Sold(m)
    <3>1. /\ DOMAIN orders' = DOMAIN orders \cup {Entry(i)} /\ orders'[Entry(i)] = o
          /\ \A x \in DOMAIN orders : x # Entry(i) => orders'[x] = orders[x]
      BY <2>4 DEF AddsEntryOrder
    <3>2. ASSUME NEW m, Sold(m)' PROVE Sold(m)
      <4>1. PICK x \in DOMAIN orders' : /\ orders'[x].side = "SELL" /\ x.signal = m
                                        /\ Status(x)' = "FILLED"
        BY <3>2 DEF Sold
      <4>. QED
        BY <2>3, <2>5, <3>1, <4>1 DEF Sold
    <3>3. ASSUME NEW m, Sold(m) PROVE Sold(m)'
      <4>1. PICK x \in DOMAIN orders : /\ orders[x].side = "SELL" /\ x.signal = m
                                       /\ Status(x) = "FILLED"
        BY <3>3 DEF Sold
      <4>2. x # Entry(i)
        BY <1>2, <4>1
      <4>. QED
        BY <2>5, <3>1, <4>1, <4>2 DEF Sold
    <3>. QED
      BY <3>2, <3>3
  <2>7. \A m \in DOMAIN signals : m # i => StageKept(m)
    BY <2>4, <2>5, <2>6, EntryIntents, StageOf
  <2>8. signals[i].status = "PENDING" /\ ~Sold(i)
    BY <1>1, <1>2, DueIsNotSold DEF Outstanding
  <2>9. Stage(i) = "queued" /\ Stage(i)' = "open"
    BY <1>2, <2>5, <2>6, <2>8 DEF Stage
  <2>10. Ledger!Move(i, "queued", "open") /\ i \in DOMAIN Deals
    BY <1>2, <2>4, <2>7, <2>9, DealMoves DEF SameDeals
  <2>11. Ledger!Open(Deals[i].symbol) = {}
    <3>1. ~Holds(portfolio, s)
      BY <1>1, <1>2 DEF MayBuy, RunOK
    <3>2. lifecycle[s] = NoRow
      BY <1>1, <2>2, <3>1 DEF TablesOK, HeldHasLifecycle
    <3>3. ASSUME NEW m \in DOMAIN signals, Stage(m) = "open", signals[m].symbol = s
          PROVE  FALSE
      <4>1. Bought(m) /\ ~Sold(m)
        BY <3>3 DEF Stage, Bought
      <4>. QED
        BY <1>1, <3>2, <3>3, <4>1 DEF TablesOK, DealsOK
    <3>4. Deals[i].symbol = s
      BY <1>2 DEF Deals
    <3>. QED
      BY <3>3, <3>4 DEF Ledger!Open, Deals
  <2>12. portfolio'.cash < portfolio.cash /\ 0 <= portfolio'.cash
    <3>. PICK cost : cost = BuyCost(b.qty, b.price)
      OBVIOUS
    <3>1. cost \in Nat /\ 0 < cost
      <4>1. BuyPrice(b.price) + Fee \in Nat \ {0}
        BY <2>2, StoreAssumption DEF BuyPrice, Price, NoPrice
      <4>2. \A m, n \in Nat \ {0} : m * n \in Nat /\ 0 < m * n
        OBVIOUS
      <4>. QED
        BY <2>2, <4>1, <4>2 DEF BuyCost
    <3>2. cost <= portfolio.cash
      BY <1>2, <2>1 DEF Affordable, RunOK
    <3>3. portfolio.cash \in Nat /\ portfolio'.cash = portfolio.cash - cost
      BY <1>1, <2>4 DEF TablesOK, PortfolioType, ApplyBuy
    <3>. QED
      BY <3>1, <3>2, <3>3
  <2>. QED
    BY <2>10, <2>11, <2>12 DEF LedgerStep, Ledger!Next, Ledger!Buy
<1>. QED
  BY <1>4, <1>5

\* A filled exit closes its deal, and brings more than its costs.
LEMMA ExitSells ==
    ASSUME IntentInv, PaperInv, NEW p \in Process, FillExit(p)
    PROVE  LedgerStep
<1>. PICK x : x = job[p].sale[1]
  OBVIOUS
<1>. PICK b : b = orders[x]
  OBVIOUS
<1>. PICK s : s = b.symbol
  OBVIOUS
<1>. PICK o : o = [b EXCEPT !.status = "FILLED"]
  OBVIOUS
<1>. PICK i : i = x.signal
  OBVIOUS
<1>1. TablesOK /\ OrdersStored /\ RunInv(job[p])
  BY DEF PaperInv, IntentInv
<1>2. Sells(x, s, o)
  BY <1>1, FillExitSells
<1>3. /\ \A m : Sold(m)' <=> Sold(m) \/ m = i
      /\ \A m : Bought(m)' <=> Bought(m)
  BY <1>1, <1>2, SellKeepsTables
<1>4. /\ IsExit(x) /\ SellTerms(x, b) /\ ~Sold(i) /\ UNCHANGED signals
      /\ portfolio' = ApplySell(portfolio, s, b.qty, b.price)
      /\ b.qty = portfolio.position[s].qty
  BY <1>1, <1>2, OpenSellTerms DEF Sells, TablesOK, OpenSalesOK, SellsAll
<1>5. /\ i \in DOMAIN signals /\ Bought(i) /\ s \in Symbol
      /\ b.qty \in Nat \ {0} /\ b.price \in Price /\ Costs < b.price
  BY <1>1, <1>2, <1>4, SaleHeld DEF SellTerms, Sells
<1>6. \A m : Status(Entry(m))' = Status(Entry(m))
  <2>1. \A y : y # x => Status(y)' = Status(y)
    BY <1>2 DEF Sells, StoresExit, Status
  <2>. QED
    BY <1>4, <2>1, EntryIntents
<1>7. \A m \in DOMAIN signals : m # i => StageKept(m)
  BY <1>3, <1>4, <1>6, StageOf
<1>8. Stage(i) = "open" /\ Stage(i)' = "closed"
  BY <1>3, <1>4, <1>5, <1>6 DEF Stage, Bought
<1>9. Ledger!Move(i, "open", "closed") /\ i \in DOMAIN Deals
  BY <1>4, <1>5, <1>7, <1>8, DealMoves DEF SameDeals
<1>10. portfolio'.cash > portfolio.cash
  <2>. PICK net : net = SellNet(b.qty, b.price)
    OBVIOUS
  <2>1. net \in Nat /\ 0 < net
    <3>1. b.price - Slip - Fee - Tax \in Nat \ {0}
      BY <1>5, StoreAssumption DEF Costs, Price
    <3>2. \A m, n \in Nat \ {0} : m * n \in Nat /\ 0 < m * n
      OBVIOUS
    <3>. QED
      BY <1>5, <3>1, <3>2 DEF SellNet
  <2>2. portfolio.cash \in Nat /\ portfolio'.cash = portfolio.cash + net
    BY <1>1, <1>4 DEF TablesOK, PortfolioType, ApplySell
  <2>. QED
    BY <2>1, <2>2
<1>. QED
  BY <1>9, <1>10 DEF LedgerStep, Ledger!Next, Ledger!Sell

\* A reserved exit moves nothing yet.
LEMMA ReservationWaits ==
    ASSUME IntentInv, PaperInv, NEW p \in Process, ReserveSale(p)
    PROVE  LedgerStep
<1>. PICK j : j = job[p]
  OBVIOUS
<1>. PICK x : x = j.sale[1]
  OBVIOUS
<1>. PICK o : o = j.sale[2]
  OBVIOUS
<1>. PICK k : k = [j EXCEPT !.phase = "sell"]
  OBVIOUS
<1>1. TablesOK /\ OrdersStored /\ RunInv(j)
  BY DEF PaperInv, IntentInv
<1>2. ReserveOK(j) /\ StoresExit(x, o) /\ UNCHANGED <<signals, portfolio>>
  BY <1>1, ReserveSaleStores
<1>3. /\ IsExit(x) /\ o.status = "ACCEPTED"
      /\ x \in DOMAIN orders => orders[x] = o
  BY <1>2 DEF ReserveOK
<1>4. \A m : Status(Entry(m))' = Status(Entry(m))
  BY <1>2, <1>3, EntryIntents DEF StoresExit, Status
<1>5. \A m : Sold(m)' <=> Sold(m)
  BY <1>2, <1>3 DEF StoresExit, Status, Sold
<1>. QED
  BY <1>2, <1>4, <1>5, StageOf, NoDealMoves DEF SameDeals

\* A queued signal is a new deal, of a later session than any other of its symbol.
LEMMA QueueingEnqueues ==
    ASSUME PaperInv, QueueSignal
    PROVE  LedgerStep
<1>1. TablesOK
  BY DEF PaperInv
<1>2. PICK s \in Symbol, atr \in Payload : Queue(today, s, atr)
  BY DEF QueueSignal
<1>. PICK n : n = Len(signals)
  OBVIOUS
<1>3. /\ n \in Nat /\ DOMAIN signals = 1 .. n
      /\ \A i \in DOMAIN signals : signals[i].day \in Nat /\ signals[i].day <= today
      /\ today \in Nat
  BY <1>1, Tables
<1>4. /\ DOMAIN signals' = 1 .. (n + 1)
      /\ \A i \in DOMAIN signals : signals'[i] = signals[i]
      /\ signals'[n + 1] = [day |-> today, symbol |-> s, atr |-> atr, status |-> "PENDING"]
  <2>1. ASSUME NEW R, signals \in Seq(R), NEW r
        PROVE  /\ DOMAIN Append(signals, r) = 1 .. (n + 1)
               /\ \A i \in DOMAIN signals : Append(signals, r)[i] = signals[i]
               /\ Append(signals, r)[n + 1] = r
    BY <2>1
  <2>2. PICK r : /\ r = [day |-> today, symbol |-> s, atr |-> atr, status |-> "PENDING"]
                 /\ signals' = Append(signals, r)
    BY <1>2 DEF Queue
  <2>. QED
    BY <1>1, <2>1, <2>2 DEF TablesOK, SignalsOK
<1>5. UNCHANGED <<orders, portfolio>>
  BY DEF QueueSignal
<1>6. \A m : Status(Entry(m))' = Status(Entry(m)) /\ (Sold(m)' <=> Sold(m))
  BY <1>5 DEF Status, Sold
<1>7. \A i \in DOMAIN signals : StageKept(i)
  BY <1>4, <1>6 DEF StageKept, Stage
<1>8. Stage(n + 1)' = "queued"
  <2>1. n + 1 \notin DOMAIN signals
    BY <1>3
  <2>2. Status(Entry(n + 1)) = "NONE"
    BY <1>1, <2>1, EntryOrder DEF Status, TablesOK
  <2>. QED
    BY <1>4, <1>6, <2>2 DEF Stage
<1>9. /\ DOMAIN Deals = 1 .. n /\ DOMAIN Deals' = 1 .. (n + 1)
      /\ \A i \in 1 .. n : Deals'[i] = Deals[i]
      /\ \A i \in 1 .. n : Deals[i].symbol = signals[i].symbol
                           /\ Deals[i].day = signals[i].day
  BY <1>3, <1>4, <1>7 DEF Deals, StageKept
<1>10. /\ Deals'[n + 1].stage = "queued" /\ Deals'[n + 1].symbol = s
       /\ Deals'[n + 1].day = today
  BY <1>3, <1>4, <1>8 DEF Deals
<1>11. Len(Deals) = n /\ Len(Deals') = n + 1
  BY <1>3, <1>9 DEF Deals
<1>12. \A i \in 1 .. n : signals[i].symbol # s \/ signals[i].day < today
  BY <1>2, <1>3 DEF Queue
<1>13. Ledger!Enqueue
  BY <1>5, <1>9, <1>10, <1>11, <1>12 DEF Ledger!Enqueue
<1>. QED
  BY <1>13 DEF LedgerStep, Ledger!Next

\* Steps that change neither orders nor signals nor the portfolio.
LEMMA TablesStay ==
    ASSUME UNCHANGED <<signals, orders, portfolio>>
    PROVE  LedgerStep
<1>1. \A m : Status(Entry(m))' = Status(Entry(m)) /\ (Sold(m)' <=> Sold(m))
  BY DEF Status, Sold
<1>. QED
  BY <1>1, StageOf, NoDealMoves DEF SameDeals

\* Every step of the one process is a step of the ledger, or none.
LEMMA StepsOfLedger ==
    ASSUME IntentInv, PaperInv, [Next]_paperVars
    PROVE  LedgerStep
<1>1. CASE OpenSession \/ UNCHANGED paperVars
  <2>1. UNCHANGED <<signals, orders, portfolio>>
    BY <1>1 DEF OpenSession, paperVars, storeVars
  <2>. QED
    BY <2>1, TablesStay
<1>2. CASE QueueSignal
  BY <1>2, QueueingEnqueues
<1>3. ASSUME NEW p \in Process, StartRun(p) \/ StartUpdate(p) \/ RunStep(p) \/ Crash(p)
      PROVE  LedgerStep
  <2>1. TablesOK /\ OrdersStored /\ RunInv(job[p])
    BY DEF PaperInv, IntentInv
  <2>2. CASE LocalStep(p)
    <3>1. UNCHANGED <<signals, orders, portfolio>>
      BY <2>1, <2>2, LocalChangesNothing
    <3>. QED
      BY <3>1, TablesStay
  <2>3. CASE InitializePosition(p) \/ SaveHold(p)
    <3>1. UNCHANGED <<signals, orders, portfolio>>
      BY <2>3 DEF InitializePosition, SaveHold
    <3>. QED
      BY <3>1, TablesStay
  <2>4. CASE SettleSignal(p)
    <3>. PICK j : j = job[p]
      OBVIOUS
    <3>. PICK i : i = Head(j.todo)
      OBVIOUS
    <3>1. /\ j.phase \in {"settle", "settlePriced"} /\ Complete(i, j.verdict)
          /\ UNCHANGED <<orders, portfolio>>
      BY <2>4 DEF SettleSignal, First
    <3>2. Agrees(i, j.verdict) /\ j.todo # <<>>
      BY <2>1, <3>1 DEF RunInv, FirstLoops
    <3>3. i \in DOMAIN signals
      <4>1. PICK S : j.todo \in Seq(S)
        BY <2>1, <3>1 DEF RunInv, FirstLoops, VisitOK
      <4>2. i \in Elements(j.todo)
        BY <3>2, <4>1, VisitFirst
      <4>. QED
        BY <2>1, <3>1, <4>2
           DEF RunInv, FirstLoops, VisitOK, Outstanding, Executable
    <3>. QED
      BY <2>1, <3>1, <3>2, <3>3, CompletionDrops
  <2>5. CASE CompleteSignal(p)
    <3>. PICK j : j = job[p]
      OBVIOUS
    <3>. PICK q : q = j.todo
      OBVIOUS
    <3>1. /\ j.phase = "complete" /\ q # <<>>
          /\ Complete(Head(q)[1], Head(q)[2]) /\ UNCHANGED <<orders, portfolio>>
      BY <2>5 DEF CompleteSignal, First, At
    <3>2. ResultsOK(q)
      BY <2>1, <3>1 DEF RunInv, LastLoops
    <3>3. Head(q) = q[1] /\ 1 \in DOMAIN q
      <4>1. PICK S : q \in Seq(S)
        BY <3>2 DEF ResultsOK
      <4>. QED
        BY <3>1, <4>1
    <3>4. Head(q)[1] \in DOMAIN signals /\ Agrees(Head(q)[1], Head(q)[2])
      BY <3>2, <3>3 DEF ResultsOK
    <3>. QED
      BY <2>1, <3>1, <3>4, CompletionDrops
  <2>6. CASE RejectEntry(p) \/ FillEntry(p)
    BY <2>6, RejectionDrops, EntryBuys
  <2>7. CASE ReserveSale(p) \/ FillExit(p)
    BY <2>7, ReservationWaits, ExitSells
  <2>. QED
    BY <1>3, <2>2, <2>3, <2>4, <2>5, <2>6, <2>7, NothingFound
       DEF RunStep, ExecutionStep, LifecycleStep, LocalStep
<1>. QED
  BY <1>1, <1>2, <1>3 DEF Next

\* With one process at a time, every run, crash and rerun implements the ledger: a
\* signal is dropped or bought once, in the session after its own, sold at most once,
\* and cash moves with nothing else and is never overdrawn.
THEOREM PaperImplementsLedger ==
    ASSUME OneProcess
    PROVE  Spec => ImplementsPaperLedger
<1>1. Init => Ledger!Init
  BY DEF Init, StoreInit, Ledger!Init, Deals, NewPortfolio
<1>2. IntentInv /\ PaperInv /\ [Next]_paperVars => LedgerStep
  BY StepsOfLedger
<1>. QED
  BY <1>1, <1>2, PaperInvHolds, PTL
     DEF Spec, LedgerStep, ImplementsPaperLedger, Ledger!Spec

-----------------------------------------------------------------------------
(* The account is what the fills and the closed trades add up to. *)

\* One more fill adds its cash and its shares, to its symbol and its side.
LEMMA FillAdds ==
    ASSUME BooksOK, NEW r, r.qty \in Nat, r.net \in Int, fills' = Append(fills, r)
    PROVE  /\ \E S : fills' \in Seq(S)
           /\ \A k \in DOMAIN fills' : fills'[k].qty \in Nat /\ fills'[k].net \in Int
           /\ SumFunctionOnSet(CashFlows, DOMAIN fills) \in Int
           /\ SumFunctionOnSet(CashFlows, DOMAIN fills)'
                  = SumFunctionOnSet(CashFlows, DOMAIN fills) + r.net
           /\ \A s, side : Shares(s, side) \in Int
           /\ Shares(r.symbol, r.side)' = Shares(r.symbol, r.side) + r.qty
           /\ \A s, side : <<s, side>> # <<r.symbol, r.side>> =>
                  Shares(s, side)' = Shares(s, side)
<1>. PICK n : n = Len(fills)
  OBVIOUS
<1>. PICK new : new = Append(fills, r)
  OBVIOUS
<1>. PICK m : m = n + 1
  OBVIOUS
<1>. PICK N : N = 1 .. n
  OBVIOUS
<1>1. /\ n \in Nat /\ DOMAIN fills = N /\ DOMAIN new = N \cup {m}
      /\ \A k \in N : new[k] = fills[k]
      /\ new[m] = r /\ m \notin N /\ IsFiniteSet(N)
      /\ \E S : new \in Seq(S)
  <2>1. PICK S : fills \in Seq(S)
    BY DEF BooksOK
  <2>2. new \in Seq(S \cup {r})
    BY <2>1
  <2>3. /\ n \in Nat /\ DOMAIN fills = N /\ DOMAIN new = 1 .. m
        /\ \A k \in N : new[k] = fills[k]
        /\ new[m] = r
    BY <2>1
  <2>4. 1 .. m = N \cup {m} /\ m \notin N
    BY <2>3
  <2>5. IsFiniteSet(1 .. n)
    <3>1. 1 \in Int /\ n \in Int
      BY <2>3
    <3>. QED
      BY <3>1, FS_Interval
  <2>6. IsFiniteSet(N)
    BY <2>5
  <2>. QED
    BY <2>2, <2>3, <2>4, <2>6
<1>2. fills' = new
  OBVIOUS
<1>3. \A k \in N \cup {m} : new[k].qty \in Nat /\ new[k].net \in Int
  BY <1>1 DEF BooksOK
<1>q. PICK q : q = [k \in N |-> fills[k].qty]
  OBVIOUS
<1>u. PICK u : u = [k \in N \cup {m} |-> new[k].qty]
  OBVIOUS
<1>c. PICK c : c = [k \in N |-> fills[k].net]
  OBVIOUS
<1>d. PICK d : d = [k \in N \cup {m} |-> new[k].net]
  OBVIOUS
<1>4. Quantities = q /\ Quantities' = u /\ CashFlows = c /\ CashFlows' = d
  BY <1>1, <1>2, <1>q, <1>u, <1>c, <1>d DEF Quantities, CashFlows
<1>5. /\ \A k \in N : q[k] \in Int /\ c[k] \in Int /\ u[k] = q[k] /\ d[k] = c[k]
      /\ \A k \in N \cup {m} : u[k] \in Int /\ d[k] \in Int
      /\ u[m] = r.qty /\ d[m] = r.net
  <2>1. \A k \in N : q[k] = fills[k].qty /\ c[k] = fills[k].net
    BY <1>q, <1>c
  <2>2. \A k \in N \cup {m} : u[k] = new[k].qty /\ d[k] = new[k].net
    BY <1>u, <1>d
  <2>3. \A k \in N \cup {m} : u[k] \in Int /\ d[k] \in Int
    BY <1>3, <2>2
  <2>4. \A k \in N : u[k] = q[k] /\ d[k] = c[k]
    BY <1>1, <2>1, <2>2
  <2>5. u[m] = r.qty /\ d[m] = r.net
    BY <1>1, <2>2
  <2>. QED
    BY <2>3, <2>4, <2>5
<1>6. SumFunctionOnSet(c, N) \in Int
  BY <1>1, <1>5, SumIsNumber
<1>7. SumFunctionOnSet(d, N \cup {m}) = SumFunctionOnSet(c, N) + d[m]
  <2>1. OneMore(c, d, N, m)
    BY <1>1, <1>5 DEF OneMore, SameOn
  <2>. QED
    BY <2>1, SumOfOneMore
<1>8. ASSUME NEW s, NEW side
       PROVE  /\ IsFiniteSet(FillsOf(s, side)) /\ FillsOf(s, side) \subseteq N
              /\ FillsOf(s, side)' = IF s = r.symbol /\ side = r.side
                                     THEN FillsOf(s, side) \cup {m} ELSE FillsOf(s, side)
  <2>1. FillsOf(s, side) \subseteq N
    BY <1>1 DEF FillsOf
  <2>2. FillsOf(s, side)' = {k \in N \cup {m} : new[k].symbol = s /\ new[k].side = side}
    BY <1>1, <1>2 DEF FillsOf
  <2>. QED
    BY <1>1, <2>1, <2>2, FS_Subset DEF FillsOf
<1>9. ASSUME NEW s, NEW side PROVE Shares(s, side) \in Int
  <2>. PICK F : F = FillsOf(s, side)
    OBVIOUS
  <2>1. IsFiniteSet(F) /\ \A k \in F : q[k] \in Int
    BY <1>5, <1>8
  <2>2. SumFunctionOnSet(q, F) \in Int
    BY <2>1, SumIsNumber
  <2>. QED
    BY <1>4, <2>2 DEF Shares
<1>10. Shares(r.symbol, r.side)' = Shares(r.symbol, r.side) + r.qty
  <2>. PICK F : F = FillsOf(r.symbol, r.side)
    OBVIOUS
  <2>1. OneMore(q, u, F, m)
    BY <1>1, <1>5, <1>8 DEF OneMore, SameOn
  <2>2. FillsOf(r.symbol, r.side)' = F \cup {m}
    BY <1>8
  <2>3. SumFunctionOnSet(u, F \cup {m}) = SumFunctionOnSet(q, F) + u[m]
    BY <2>1, SumOfOneMore
  <2>. QED
    BY <1>4, <1>5, <2>2, <2>3 DEF Shares
<1>11. ASSUME NEW s, NEW side, <<s, side>> # <<r.symbol, r.side>>
       PROVE  Shares(s, side)' = Shares(s, side)
  <2>. PICK F : F = FillsOf(s, side)
    OBVIOUS
  <2>1. FillsOf(s, side)' = F
    BY <1>8, <1>11
  <2>2. SameOn(u, q, F)
    BY <1>5, <1>8 DEF SameOn
  <2>3. SumFunctionOnSet(u, F) = SumFunctionOnSet(q, F)
    BY <2>2, SumSame
  <2>. QED
    BY <1>4, <2>1, <2>3 DEF Shares
<1>12. /\ \E S : fills' \in Seq(S)
       /\ \A k \in DOMAIN fills' : fills'[k].qty \in Nat /\ fills'[k].net \in Int
  BY <1>1, <1>2, <1>3
<1>13. /\ SumFunctionOnSet(CashFlows, DOMAIN fills) \in Int
       /\ SumFunctionOnSet(CashFlows, DOMAIN fills)'
              = SumFunctionOnSet(CashFlows, DOMAIN fills) + r.net
  BY <1>1, <1>2, <1>4, <1>5, <1>6, <1>7
<1>. QED
  BY <1>9, <1>10, <1>11, <1>12, <1>13

\* One more closed trade adds its profit.
LEMMA TradeAdds ==
    ASSUME BooksOK, NEW t, t \notin closed, t.realized \in Int, closed' = closed \cup {t}
    PROVE  /\ IsFiniteSet(closed')
           /\ SumFunctionOnSet(Profits, closed) \in Int
           /\ SumFunctionOnSet(Profits, closed)'
                  = SumFunctionOnSet(Profits, closed) + t.realized
<1>. PICK C : C = closed
  OBVIOUS
<1>f. PICK f : f = [x \in C |-> x.realized]
  OBVIOUS
<1>h. PICK h : h = [x \in C \cup {t} |-> x.realized]
  OBVIOUS
<1>1. Profits = f /\ Profits' = h /\ closed' = C \cup {t}
  BY <1>f, <1>h DEF Profits
<1>2. /\ IsFiniteSet(C) /\ t \notin C
      /\ \A x \in C : f[x] = h[x] /\ f[x] \in Int
      /\ \A x \in C \cup {t} : h[x] \in Int
      /\ h[t] = t.realized
  BY <1>f, <1>h DEF BooksOK
<1>3. IsFiniteSet(C \cup {t})
  BY <1>2, FS_AddElement
<1>4. SumFunctionOnSet(f, C) \in Int
  BY <1>2, SumIsNumber
<1>5. SumFunctionOnSet(h, C \cup {t}) = SumFunctionOnSet(f, C) + h[t]
  <2>1. OneMore(f, h, C, t)
    BY <1>2 DEF OneMore, SameOn
  <2>. QED
    BY <2>1, SumOfOneMore
<1>. QED
  BY <1>1, <1>2, <1>3, <1>4, <1>5

\* No filled order is reopened.
FilledStay == \A x : Status(x) = "FILLED" => Status(x)' = "FILLED"

\* A step that moves neither shares nor cash.
LEMMA AccountStays ==
    ASSUME AccountInv, FilledStay, UNCHANGED <<fills, portfolio, closed>>
    PROVE  AccountInv'
<1>1. BooksOK'
  BY DEF AccountInv, BooksOK, FilledStay
<1>2. AccountsBalance'
  BY DEF AccountInv, AccountsBalance, CashFlows, Shares, Quantities, FillsOf, Profits
<1>. QED
  BY <1>1, <1>2 DEF AccountInv

\* The fill of a bought position.
BuyFill(r, s, qty, price) ==
    /\ r.symbol = s /\ r.side = "BUY" /\ r.qty = qty /\ r.net = -BuyCost(qty, price)
    /\ fills' = Append(fills, r)
    /\ portfolio' = ApplyBuy(portfolio, s, qty, price)
    /\ UNCHANGED closed

\* A buy takes from the cash what its fill costs, and the position is what the
\* fill brings: the symbol was not held.
LEMMA BuyBalances ==
    ASSUME AccountInv, FilledStay, portfolio \in PortfolioType,
           NEW s \in Symbol, ~Holds(portfolio, s),
           NEW qty \in Nat \ {0}, NEW price \in Price,
           NEW r, BuyFill(r, s, qty, price)
    PROVE  AccountInv'
<1>. PICK cost : cost = BuyCost(qty, price)
  OBVIOUS
<1>. PICK row : row = [qty |-> qty, average |-> BuyPrice(price) + Fee]
  OBVIOUS
<1>1. cost \in Nat
  <2>1. BuyPrice(price) + Fee \in Nat
    BY StoreAssumption DEF BuyPrice, Price
  <2>. QED
    BY <2>1 DEF BuyCost
<1>2. /\ r.symbol = s /\ r.side = "BUY" /\ r.qty = qty /\ r.net = -cost
      /\ r.qty \in Nat /\ r.net \in Int /\ fills' = Append(fills, r) /\ UNCHANGED closed
  BY <1>1 DEF BuyFill
<1>3. /\ portfolio'.cash = portfolio.cash - cost
      /\ portfolio'.realized = portfolio.realized
      /\ portfolio'.position[s].qty = qty
      /\ \A t \in Symbol : t # s => portfolio'.position[t] = portfolio.position[t]
  <2>1. /\ portfolio = [cash |-> portfolio.cash, realized |-> portfolio.realized,
                        position |-> portfolio.position]
        /\ portfolio.position \in [Symbol -> [qty : Nat, average : Nat]]
    BY DEF PortfolioType
  <2>2. portfolio' = [portfolio EXCEPT !.cash = portfolio.cash - cost, !.position[s] = row]
    BY DEF BuyFill, ApplyBuy
  <2>3. row.qty = qty
    OBVIOUS
  <2>. QED
    BY <2>1, <2>2, <2>3
<1>4. BooksOK
  BY DEF AccountInv
<1>5. BooksOK'
  <2>1. /\ \E S : fills' \in Seq(S)
        /\ \A k \in DOMAIN fills' : fills'[k].qty \in Nat /\ fills'[k].net \in Int
    BY <1>2, <1>4, FillAdds
  <2>. QED
    BY <1>2, <1>4, <2>1 DEF BooksOK, FilledStay
<1>6. portfolio'.cash = InitialCash + SumFunctionOnSet(CashFlows, DOMAIN fills)'
  <2>1. /\ SumFunctionOnSet(CashFlows, DOMAIN fills) \in Int
        /\ SumFunctionOnSet(CashFlows, DOMAIN fills)'
               = SumFunctionOnSet(CashFlows, DOMAIN fills) + r.net
    BY <1>2, <1>4, FillAdds
  <2>2. portfolio.cash = InitialCash + SumFunctionOnSet(CashFlows, DOMAIN fills)
    BY DEF AccountInv, AccountsBalance
  <2>. QED
    BY <1>1, <1>2, <1>3, <2>1, <2>2, StoreAssumption
<1>7. ASSUME NEW t \in Symbol
      PROVE  portfolio'.position[t].qty = Shares(t, "BUY")' - Shares(t, "SELL")'
  <2>1. portfolio.position[t].qty = Shares(t, "BUY") - Shares(t, "SELL")
    BY DEF AccountInv, AccountsBalance
  <2>2. Shares(t, "BUY") \in Int /\ Shares(t, "SELL") \in Int
    BY <1>2, <1>4, FillAdds
  <2>3. Shares(t, "SELL")' = Shares(t, "SELL")
    BY <1>2, <1>4, FillAdds
  <2>4. CASE t = s
    <3>1. Shares(t, "BUY")' = Shares(t, "BUY") + qty
      BY <1>2, <1>4, <2>4, FillAdds
    <3>2. portfolio.position[t].qty = 0
      BY <2>4 DEF Holds, PortfolioType
    <3>. QED
      BY <1>3, <2>1, <2>2, <2>3, <2>4, <3>1, <3>2
  <2>5. CASE t # s
    <3>1. Shares(t, "BUY")' = Shares(t, "BUY")
      BY <1>2, <1>4, <2>5, FillAdds
    <3>. QED
      BY <1>3, <2>1, <2>3, <2>5, <3>1
  <2>. QED
    BY <2>4, <2>5
<1>8. portfolio'.realized = SumFunctionOnSet(Profits, closed)'
  BY <1>2, <1>3 DEF AccountInv, AccountsBalance, Profits
<1>. QED
  BY <1>5, <1>6, <1>7, <1>8 DEF AccountInv, AccountsBalance

\* The fill of a sold position, and the trade it closes.
SellFill(r, t, s, qty, price) ==
    /\ r.symbol = s /\ r.side = "SELL" /\ r.qty = qty /\ r.net = SellNet(qty, price)
    /\ fills' = Append(fills, r)
    /\ portfolio' = ApplySell(portfolio, s, qty, price)
    /\ t.realized = SellNet(qty, price) - portfolio.position[s].average * qty
    /\ closed' = closed \cup {t}
    /\ Status(t.intent) # "FILLED" /\ Status(t.intent)' = "FILLED"

\* A sale of the whole position brings what its fill nets, and realizes what the
\* trade it closes says.
LEMMA SellBalances ==
    ASSUME AccountInv, FilledStay, portfolio \in PortfolioType, NEW s \in Symbol,
           NEW qty \in Nat \ {0}, qty = portfolio.position[s].qty,
           NEW price \in Price, Costs < price,
           NEW r, NEW t, SellFill(r, t, s, qty, price)
    PROVE  AccountInv'
<1>. PICK net : net = SellNet(qty, price)
  OBVIOUS
<1>. PICK cost : cost = portfolio.position[s].average * qty
  OBVIOUS
<1>1. net \in Nat /\ cost \in Int
  <2>1. price - Slip - Fee - Tax \in Nat
    BY StoreAssumption DEF Costs, Price
  <2>2. portfolio.position[s].average \in Nat
    BY DEF PortfolioType
  <2>. QED
    BY <2>1, <2>2 DEF SellNet
<1>2. /\ r.symbol = s /\ r.side = "SELL" /\ r.qty = qty /\ r.net = net
      /\ r.qty \in Nat /\ r.net \in Int /\ fills' = Append(fills, r)
      /\ t.realized = net - cost /\ t.realized \in Int /\ closed' = closed \cup {t}
      /\ Status(t.intent) # "FILLED" /\ Status(t.intent)' = "FILLED"
  BY <1>1 DEF SellFill
<1>3. /\ portfolio'.cash = portfolio.cash + net
      /\ portfolio'.realized = portfolio.realized + net - cost
      /\ portfolio'.position[s].qty = 0
      /\ \A y \in Symbol : y # s => portfolio'.position[y] = portfolio.position[y]
  <2>1. /\ portfolio = [cash |-> portfolio.cash, realized |-> portfolio.realized,
                        position |-> portfolio.position]
        /\ portfolio.position \in [Symbol -> [qty : Nat, average : Nat]]
    BY DEF PortfolioType
  <2>. PICK realized : realized = portfolio.realized + net - cost
    OBVIOUS
  <2>2. portfolio' = [portfolio EXCEPT !.cash = portfolio.cash + net,
                                       !.realized = realized, !.position[s] = Flat]
    BY DEF SellFill, ApplySell
  <2>3. Flat.qty = 0
    BY DEF Flat
  <2>. QED
    BY <2>1, <2>2, <2>3
<1>4. BooksOK
  BY DEF AccountInv
<1>5. t \notin closed
  BY <1>2, <1>4 DEF BooksOK
<1>6. BooksOK'
  <2>1. /\ \E S : fills' \in Seq(S)
        /\ \A k \in DOMAIN fills' : fills'[k].qty \in Nat /\ fills'[k].net \in Int
    BY <1>2, <1>4, FillAdds
  <2>2. IsFiniteSet(closed')
    BY <1>2, <1>4, <1>5, TradeAdds
  <2>3. \A y \in closed' : y.realized \in Int /\ Status(y.intent)' = "FILLED"
    BY <1>2, <1>4 DEF BooksOK, FilledStay
  <2>. QED
    BY <2>1, <2>2, <2>3 DEF BooksOK
<1>7. portfolio'.cash = InitialCash + SumFunctionOnSet(CashFlows, DOMAIN fills)'
  <2>1. /\ SumFunctionOnSet(CashFlows, DOMAIN fills) \in Int
        /\ SumFunctionOnSet(CashFlows, DOMAIN fills)'
               = SumFunctionOnSet(CashFlows, DOMAIN fills) + r.net
    BY <1>2, <1>4, FillAdds
  <2>2. portfolio.cash = InitialCash + SumFunctionOnSet(CashFlows, DOMAIN fills)
    BY DEF AccountInv, AccountsBalance
  <2>. QED
    BY <1>1, <1>2, <1>3, <2>1, <2>2, StoreAssumption
<1>8. ASSUME NEW y \in Symbol
      PROVE  portfolio'.position[y].qty = Shares(y, "BUY")' - Shares(y, "SELL")'
  <2>1. portfolio.position[y].qty = Shares(y, "BUY") - Shares(y, "SELL")
    BY DEF AccountInv, AccountsBalance
  <2>2. Shares(y, "BUY") \in Int /\ Shares(y, "SELL") \in Int
    BY <1>2, <1>4, FillAdds
  <2>3. Shares(y, "BUY")' = Shares(y, "BUY")
    BY <1>2, <1>4, FillAdds
  <2>4. CASE y = s
    <3>1. Shares(y, "SELL")' = Shares(y, "SELL") + qty
      BY <1>2, <1>4, <2>4, FillAdds
    <3>. QED
      BY <1>3, <2>1, <2>2, <2>3, <2>4, <3>1
  <2>5. CASE y # s
    <3>1. Shares(y, "SELL")' = Shares(y, "SELL")
      BY <1>2, <1>4, <2>5, FillAdds
    <3>. QED
      BY <1>3, <2>1, <2>3, <2>5, <3>1
  <2>. QED
    BY <2>4, <2>5
<1>9. portfolio'.realized = SumFunctionOnSet(Profits, closed)'
  <2>1. /\ SumFunctionOnSet(Profits, closed) \in Int
        /\ SumFunctionOnSet(Profits, closed)'
               = SumFunctionOnSet(Profits, closed) + t.realized
    BY <1>2, <1>4, <1>5, TradeAdds
  <2>2. portfolio.realized = SumFunctionOnSet(Profits, closed)
    BY DEF AccountInv, AccountsBalance
  <2>. QED
    BY <1>1, <1>2, <1>3, <2>1, <2>2
<1>. QED
  BY <1>6, <1>7, <1>8, <1>9 DEF AccountInv, AccountsBalance

\* A filled entry.
LEMMA EntryBalances ==
    ASSUME PaperInv, AccountInv, FilledStay, NEW p \in Process, FillEntry(p)
    PROVE  AccountInv'
<1>. PICK j : j = job[p]
  OBVIOUS
<1>. PICK i : i = Head(j.todo)
  OBVIOUS
<1>. PICK s : s = signals[i].symbol
  OBVIOUS
<1>1. /\ TablesOK /\ RunInv(j) /\ j.phase = "execute" /\ j.todo # <<>> /\ First(p) = i
      /\ MayBuy(p)
  BY DEF PaperInv, FillEntry, At, First
<1>2. RunOK(j) /\ i \in Tradable(j)
  BY <1>1, ExecuteFirst
<1>3. PICK qty, b : qty \in Quantity /\ b = BuyOrder(p, qty) /\ FillsOrEnds(p, qty, b)
  BY FillEntryCases
<1>4. CASE Abort(p) /\ UNCHANGED storeVars
  BY <1>4, AccountStays DEF storeVars
<1>5. CASE ~(Abort(p) /\ UNCHANGED storeVars)
  <2>1. SaveEntry(i, b, j.mem)
    BY <1>1, <1>3, <1>5 DEF FillsOrEnds
  <2>2. /\ b.side = "BUY" /\ b.symbol = s /\ s \in Symbol
        /\ b.qty \in Nat \ {0} /\ b.price \in Price
    BY <1>1, <1>2, <1>3, EntryTerms
  <2>. PICK r : r = [intent |-> Entry(i), symbol |-> b.symbol, side |-> b.side,
                     qty |-> b.qty, net |-> -BuyCost(b.qty, b.price)]
    OBVIOUS
  <2>3. fills' = Append(fills, r) /\ UNCHANGED closed
    BY <2>1 DEF SaveEntry, FillOrder
  <2>4. portfolio' = ApplyBuy(portfolio, s, b.qty, b.price)
    BY <1>2, <2>1, <2>2 DEF SaveEntry, SavePortfolio, RunOK
  <2>5. BuyFill(r, s, b.qty, b.price)
    BY <2>2, <2>3, <2>4 DEF BuyFill
  <2>6. portfolio \in PortfolioType /\ ~Holds(portfolio, s)
    BY <1>1, <1>2 DEF TablesOK, MayBuy, RunOK
  <2>. QED
    BY <2>2, <2>5, <2>6, BuyBalances
<1>. QED
  BY <1>4, <1>5

\* A filled exit: its order has the quantity and the cost of the position.
LEMMA ExitBalances ==
    ASSUME IntentInv, PaperInv, AccountInv, FilledStay, NEW p \in Process, FillExit(p)
    PROVE  AccountInv'
<1>. PICK x : x = job[p].sale[1]
  OBVIOUS
<1>. PICK b : b = orders[x]
  OBVIOUS
<1>. PICK s : s = b.symbol
  OBVIOUS
<1>. PICK o : o = [b EXCEPT !.status = "FILLED"]
  OBVIOUS
<1>1. TablesOK /\ OrdersStored /\ RunInv(job[p]) /\ portfolio \in PortfolioType
  BY DEF PaperInv, IntentInv, TablesOK
<1>2. Sells(x, s, o)
  BY <1>1, FillExitSells
<1>3. /\ x \in OpenSells /\ SellTerms(x, b) /\ s \in Symbol
      /\ SellsAll(b, portfolio.position[s])
      /\ portfolio' = ApplySell(portfolio, s, b.qty, b.price)
  BY <1>1, <1>2, OpenSellTerms, SaleHeld DEF Sells, TablesOK, OpenSalesOK
<1>4. b.side = "SELL" /\ b.qty \in Nat \ {0} /\ b.price \in Price /\ Costs < b.price
  BY <1>3 DEF SellTerms
<1>. PICK net : net = SellNet(b.qty, b.price)
  OBVIOUS
<1>. PICK r : r = [intent |-> x, symbol |-> b.symbol, side |-> b.side,
                   qty |-> b.qty, net |-> net]
  OBVIOUS
<1>. PICK t : t = [intent |-> x, realized |-> net - b.average * b.qty]
  OBVIOUS
<1>5. fills' = Append(fills, r) /\ closed' = closed \cup {t}
  BY DEF FillExit, Intent, SaveExit, FillOrder
<1>6. /\ t.intent = x
      /\ t.realized = net - portfolio.position[s].average * b.qty
      /\ b.qty = portfolio.position[s].qty
  BY <1>3 DEF SellsAll
<1>7. Status(x) # "FILLED" /\ Status(x)' = "FILLED"
  <2>1. Status(x) = "ACCEPTED" /\ o.status = "FILLED"
    BY <1>1, <1>3 DEF OpenSells, OrdersStored, OrderRecord
  <2>2. x \in DOMAIN orders' /\ orders'[x] = o
    BY <1>2 DEF Sells, StoresExit
  <2>. QED
    BY <2>1, <2>2 DEF Status
<1>8. SellFill(r, t, s, b.qty, b.price)
  BY <1>3, <1>4, <1>5, <1>6, <1>7 DEF SellFill
<1>. QED
  BY <1>1, <1>3, <1>4, <1>6, <1>8, SellBalances

\* Every other step of a run moves neither shares nor cash.
LEMMA AccountInvNext ==
    ASSUME IntentInv, PaperInv, AccountInv, [Next]_paperVars
    PROVE  AccountInv'
<1>1. FilledStay
  BY IntentInvNext DEF OrdersGrow, FilledStay, Status
<1>2. CASE OpenSession \/ QueueSignal \/ UNCHANGED paperVars
  <2>1. UNCHANGED <<fills, portfolio, closed>>
    BY <1>2 DEF OpenSession, QueueSignal, paperVars, storeVars
  <2>. QED
    BY <1>1, <2>1, AccountStays
<1>3. ASSUME NEW p \in Process, StartRun(p) \/ StartUpdate(p) \/ RunStep(p) \/ Crash(p)
      PROVE  AccountInv'
  <2>1. CASE FillEntry(p) \/ FillExit(p)
    BY <1>1, <2>1, EntryBalances, ExitBalances
  <2>2. CASE LocalStep(p)
    <3>1. portfolio' = portfolio
      BY <2>2, LocalChangesNothing DEF PaperInv
    <3>2. UNCHANGED <<fills, closed>>
      BY <2>2 DEF LocalStep, StartRun, StartUpdate, Crash, FinishRun, LoadPending,
         CheckFreshness, PriceSignal, SkipSignal, MarkEntry, EndLoop, NextLoop,
         LoadPositions, EvaluatePosition, Local, Others, storeVars
    <3>. QED
      BY <1>1, <3>1, <3>2, AccountStays
  <2>3. CASE \/ InitializePosition(p) \/ SaveHold(p) \/ SettleSignal(p)
             \/ CompleteSignal(p) \/ RejectEntry(p) \/ ReserveSale(p)
    <3>1. UNCHANGED <<fills, portfolio, closed>>
      BY <2>3 DEF InitializePosition, SaveHold, SettleSignal, CompleteSignal,
         RejectEntry, ReserveSale
    <3>. QED
      BY <1>1, <3>1, AccountStays
  <2>. QED
    BY <1>3, <2>1, <2>2, <2>3, NothingFound
       DEF RunStep, ExecutionStep, LifecycleStep, LocalStep
<1>. QED
  BY <1>2, <1>3 DEF Next

\* Nothing is filled or closed at first.
LEMMA AccountInvInit == Init => AccountInv
<1>. SUFFICES ASSUME Init PROVE AccountInv
  OBVIOUS
<1>1. /\ fills = <<>> /\ closed = {} /\ DOMAIN fills = {}
      /\ portfolio.cash = InitialCash /\ portfolio.realized = 0
      /\ \A s \in Symbol : portfolio.position[s].qty = 0
  BY DEF Init, StoreInit, NewPortfolio, Flat
<1>2. BooksOK
  <2>1. fills \in Seq({})
    BY <1>1
  <2>. QED
    BY <1>1, <2>1, FS_EmptySet DEF BooksOK
<1>3. \A s, side : FillsOf(s, side) = {}
  BY <1>1 DEF FillsOf
<1>4. /\ SumFunctionOnSet(CashFlows, DOMAIN fills) = 0
      /\ SumFunctionOnSet(Profits, closed) = 0
      /\ \A s, side : Shares(s, side) = 0
  BY <1>1, <1>3, SumOfNothing DEF Shares
<1>5. AccountsBalance
  BY <1>1, <1>4, StoreAssumption DEF AccountsBalance
<1>. QED
  BY <1>2, <1>5 DEF AccountInv

\* With one process at a time, in every state a crash can leave: the cash is the
\* initial cash and what every fill brought or cost, each position is what was bought
\* of it less what was sold, and the realized profit is that of the closed trades.
THEOREM AccountsAlwaysBalance ==
    ASSUME OneProcess
    PROVE  Spec => []AccountsBalance
<1>1. AccountInv => AccountsBalance
  BY DEF AccountInv
<1>. QED
  BY <1>1, AccountInvInit, AccountInvNext, PaperInvHolds, PTL DEF Spec

=============================================================================
