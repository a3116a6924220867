---------------------------- MODULE PaperTheorems ----------------------------
(***************************************************************************)
(* What the intents and the session dates of paper trading protect, for    *)
(* every number of processes, symbols, signals, sessions and crashes; and  *)
(* the steps of a run that store nothing.                                  *)
(***************************************************************************)
EXTENDS PaperInvariant, FiniteSetTheorems, FunctionTheorems,
        WellFoundedInduction, TLAPS

-----------------------------------------------------------------------------
(* The inductive invariant. *)

\* A stored or a prepared order: a record with a status.
OrderRecord(o) == /\ o = [f \in DOMAIN o |-> o[f]]
                  /\ "status" \in DOMAIN o

OrdersStored ==
    /\ orders = [x \in DOMAIN orders |-> orders[x]]
    /\ \A x \in DOMAIN orders :
        /\ OrderRecord(orders[x])
        /\ orders[x].status \in {"ACCEPTED", "FILLED", "REJECTED"}

\* Fills and filled orders correspond one to one.
FillsMatchOrders ==
    /\ \E S : fills \in Seq(S)
    /\ \A k \in DOMAIN fills :
        fills[k].intent \in DOMAIN orders /\ orders[fills[k].intent].status = "FILLED"
    /\ \A x \in DOMAIN orders : orders[x].status = "FILLED" =>
        \E k \in DOMAIN fills : fills[k].intent = x
    /\ \A j, k \in DOMAIN fills : fills[j].intent = fills[k].intent => j = k

\* A sale about to be made is stored already, or new and accepted; the open
\* sales a broker has loaded are stored.
JobShape(j) == {"phase", "sells", "sale"} \subseteq DOMAIN j
JobOK(j, stored) ==
    /\ JobShape(j)
    /\ j.sells \subseteq stored
    /\ j.phase \in {"reserve", "sell"} =>
        \/ j.sale[1] \in stored
        \/ OrderRecord(j.sale[2]) /\ j.sale[2].status = "ACCEPTED"

JobsOK ==
    /\ job = [p \in Process |-> job[p]]
    /\ \A p \in Process : JobOK(job[p], DOMAIN orders)

IntentInv == OrdersStored /\ FillsMatchOrders /\ JobsOK

-----------------------------------------------------------------------------
(* The four kinds of steps. *)

KeepsIntents == UNCHANGED <<orders, fills>>

InsertsRejected ==
    /\ \E x, o : InsertOrder(x, o) /\ OrderRecord(o) /\ o.status = "REJECTED"
    /\ UNCHANGED fills

FillsIntent ==
    \E x, o, net : /\ FillOrder(x, o, net) /\ OrderRecord(o)
                   /\ \/ x \notin DOMAIN orders
                      \/ x \in DOMAIN orders /\ o = orders[x] /\ o.status = "ACCEPTED"

ReservesIntent ==
    /\ \E x, o : /\ ReserveExit(x, o)
                 /\ x \in DOMAIN orders \/ (OrderRecord(o) /\ o.status = "ACCEPTED")
    /\ UNCHANGED fills

IntentStep == KeepsIntents \/ InsertsRejected \/ FillsIntent \/ ReservesIntent

\* What every step leaves of an order: its terms, and a fill for ever.
OrdersGrow ==
    \A x \in DOMAIN orders :
        /\ x \in DOMAIN orders'
        /\ Terms(orders'[x]) = Terms(orders[x])
        /\ Status(x) = "FILLED" => orders'[x] = orders[x]

\* Setting the status of an order changes nothing else.
LEMMA SetStatus ==
    ASSUME NEW o, OrderRecord(o), NEW v
    PROVE  /\ OrderRecord([o EXCEPT !.status = v])
           /\ [o EXCEPT !.status = v].status = v
           /\ Terms([o EXCEPT !.status = v]) = Terms(o)
  BY DEF OrderRecord, Terms

\* Writing the status an order has changes nothing.
LEMMA SameStatus ==
    ASSUME NEW o, OrderRecord(o)
    PROVE  [o EXCEPT !.status = o.status] = o
  BY DEF OrderRecord

-----------------------------------------------------------------------------
(* Each kind of step keeps orders and fills matched. *)

\* A rejected order is stored under an intent without one.
LEMMA InsertStep ==
    ASSUME OrdersStored, FillsMatchOrders, InsertsRejected
    PROVE  OrdersStored' /\ FillsMatchOrders' /\ OrdersGrow
<1>1. PICK x, o : InsertOrder(x, o) /\ OrderRecord(o) /\ o.status = "REJECTED"
  BY DEF InsertsRejected
<1>2. /\ x \notin DOMAIN orders
      /\ orders' = [y \in DOMAIN orders \cup {x} |-> IF y = x THEN o ELSE orders[y]]
  BY <1>1 DEF InsertOrder
<1>3. /\ DOMAIN orders' = DOMAIN orders \cup {x}
      /\ \A y \in DOMAIN orders : orders'[y] = orders[y]
      /\ orders'[x] = o
  BY <1>2
<1>4. fills' = fills
  BY DEF InsertsRejected
<1>5. OrdersStored'
  <2>1. orders' = [y \in DOMAIN orders' |-> orders'[y]]
    BY <1>2, <1>3
  <2>2. \A y \in DOMAIN orders' : /\ OrderRecord(orders'[y])
                                  /\ orders'[y].status \in {"ACCEPTED", "FILLED", "REJECTED"}
    BY <1>1, <1>3 DEF OrdersStored
  <2>. QED
    BY <2>1, <2>2 DEF OrdersStored, OrderRecord
<1>6. FillsMatchOrders'
  BY <1>1, <1>3, <1>4 DEF FillsMatchOrders
<1>7. OrdersGrow
  BY <1>3 DEF OrdersGrow
<1>. QED
  BY <1>5, <1>6, <1>7

\* A reservation stores a new order or sets the status of one that is not filled.
LEMMA ReserveStep ==
    ASSUME OrdersStored, FillsMatchOrders, ReservesIntent
    PROVE  OrdersStored' /\ FillsMatchOrders' /\ OrdersGrow
<1>1. PICK x, o : /\ ReserveExit(x, o)
                  /\ x \in DOMAIN orders \/ (OrderRecord(o) /\ o.status = "ACCEPTED")
  BY DEF ReservesIntent
<1>2. /\ Status(x) # "FILLED"
      /\ orders' = [y \in DOMAIN orders \cup {x} |->
             IF y \in DOMAIN orders
             THEN [orders[y] EXCEPT !.status = IF y = x THEN "ACCEPTED" ELSE @]
             ELSE o]
  BY <1>1 DEF ReserveExit
<1>3. /\ DOMAIN orders' = DOMAIN orders \cup {x}
      /\ \A y \in DOMAIN orders : y # x => orders'[y] = orders[y]
      /\ x \notin DOMAIN orders => orders'[x] = o
      /\ x \in DOMAIN orders => orders'[x] = [orders[x] EXCEPT !.status = "ACCEPTED"]
  <2>1. DOMAIN orders' = DOMAIN orders \cup {x}
    BY <1>2
  <2>2. ASSUME NEW y \in DOMAIN orders, y # x PROVE orders'[y] = orders[y]
    <3>1. orders'[y] = [orders[y] EXCEPT !.status = orders[y].status]
      BY <1>2, <2>2
    <3>. QED
      BY <3>1, SameStatus DEF OrdersStored
  <2>3. x \notin DOMAIN orders => orders'[x] = o
    BY <1>2
  <2>4. x \in DOMAIN orders => orders'[x] = [orders[x] EXCEPT !.status = "ACCEPTED"]
    BY <1>2
  <2>. QED
    BY <2>1, <2>2, <2>3, <2>4
<1>4. fills' = fills
  BY DEF ReservesIntent
<1>5. /\ OrderRecord(orders'[x]) /\ orders'[x].status = "ACCEPTED"
      /\ x \in DOMAIN orders => Terms(orders'[x]) = Terms(orders[x])
  <2>1. CASE x \notin DOMAIN orders
    <3>1. orders'[x] = o
      BY <1>3, <2>1
    <3>2. OrderRecord(o) /\ o.status = "ACCEPTED"
      BY <1>1, <2>1
    <3>. QED
      BY <2>1, <3>1, <3>2
  <2>2. CASE x \in DOMAIN orders
    <3>1. OrderRecord(orders[x])
      BY <2>2 DEF OrdersStored
    <3>2. orders'[x] = [orders[x] EXCEPT !.status = "ACCEPTED"]
      BY <1>3, <2>2
    <3>3. /\ OrderRecord([orders[x] EXCEPT !.status = "ACCEPTED"])
          /\ [orders[x] EXCEPT !.status = "ACCEPTED"].status = "ACCEPTED"
          /\ Terms([orders[x] EXCEPT !.status = "ACCEPTED"]) = Terms(orders[x])
      BY <3>1, SetStatus
    <3>. QED
      BY <3>2, <3>3
  <2>. QED
    BY <2>1, <2>2
<1>6. x \in DOMAIN orders => orders[x].status # "FILLED"
  BY <1>2 DEF Status
<1>7. OrdersStored'
  <2>1. orders' = [y \in DOMAIN orders' |-> orders'[y]]
    BY <1>2, <1>3
  <2>2. \A y \in DOMAIN orders' : /\ OrderRecord(orders'[y])
                                  /\ orders'[y].status \in {"ACCEPTED", "FILLED", "REJECTED"}
    BY <1>3, <1>5 DEF OrdersStored
  <2>. QED
    BY <2>1, <2>2 DEF OrdersStored, OrderRecord
<1>8. FillsMatchOrders'
  <2>1. \A y \in DOMAIN orders' : orders'[y].status = "FILLED" =>
            y \in DOMAIN orders /\ orders[y].status = "FILLED"
    BY <1>3, <1>5
  <2>2. \A y \in DOMAIN orders : orders[y].status = "FILLED" =>
            y \in DOMAIN orders' /\ orders'[y].status = "FILLED"
    BY <1>3, <1>6
  <2>. QED
    BY <1>4, <2>1, <2>2 DEF FillsMatchOrders
<1>9. OrdersGrow
  <2> SUFFICES ASSUME NEW y \in DOMAIN orders
               PROVE  /\ y \in DOMAIN orders'
                      /\ Terms(orders'[y]) = Terms(orders[y])
                      /\ Status(y) = "FILLED" => orders'[y] = orders[y]
    BY DEF OrdersGrow
  <2>1. CASE y = x
    BY <1>2, <1>3, <1>5, <2>1
  <2>2. CASE y # x
    BY <1>3, <2>2
  <2>. QED
    BY <2>1, <2>2
<1>. QED
  BY <1>7, <1>8, <1>9

\* A fill is added with the order it fills, which was not filled before.
LEMMA FillStep ==
    ASSUME OrdersStored, FillsMatchOrders, FillsIntent
    PROVE  OrdersStored' /\ FillsMatchOrders' /\ OrdersGrow
<1>1. PICK x, o, net :
          /\ FillOrder(x, o, net) /\ OrderRecord(o)
          /\ \/ x \notin DOMAIN orders
             \/ x \in DOMAIN orders /\ o = orders[x] /\ o.status = "ACCEPTED"
  BY DEF FillsIntent
<1>. DEFINE done == [o EXCEPT !.status = "FILLED"]
            fill == [intent |-> x, symbol |-> o.symbol, side |-> o.side,
                     qty |-> o.qty, net |-> net]
<1>2. /\ orders' = [y \in DOMAIN orders \cup {x} |-> IF y = x THEN done ELSE orders[y]]
      /\ fills' = Append(fills, fill)
  BY <1>1 DEF FillOrder
<1>3. /\ DOMAIN orders' = DOMAIN orders \cup {x}
      /\ \A y \in DOMAIN orders : y # x => orders'[y] = orders[y]
      /\ orders'[x] = done
  BY <1>2
<1>4. OrderRecord(done) /\ done.status = "FILLED" /\ Terms(done) = Terms(o)
  BY <1>1, SetStatus
<1>5. x \in DOMAIN orders => orders[x].status # "FILLED"
  BY <1>1
<1>6. OrdersStored'
  <2>1. orders' = [y \in DOMAIN orders' |-> orders'[y]]
    BY <1>2, <1>3
  <2>2. \A y \in DOMAIN orders' : /\ OrderRecord(orders'[y])
                                  /\ orders'[y].status \in {"ACCEPTED", "FILLED", "REJECTED"}
    BY <1>3, <1>4 DEF OrdersStored
  <2>. QED
    BY <2>1, <2>2 DEF OrdersStored, OrderRecord
<1>7. FillsMatchOrders'
  <2>1. PICK S : fills \in Seq(S)
    BY DEF FillsMatchOrders
  <2>2. fills \in Seq(S \cup {fill})
    BY <2>1
  <2>3. /\ fills' \in Seq(S \cup {fill})
        /\ DOMAIN fills' = DOMAIN fills \cup {Len(fills) + 1}
        /\ Len(fills) + 1 \notin DOMAIN fills
        /\ \A k \in DOMAIN fills : fills'[k] = fills[k]
        /\ fills'[Len(fills) + 1] = fill
    BY <1>2, <2>2
  <2>4. fill.intent = x
    OBVIOUS
  <2>5. \A k \in DOMAIN fills : fills[k].intent # x
    BY <1>5 DEF FillsMatchOrders
  <2>6. \A k \in DOMAIN fills' :
            fills'[k].intent \in DOMAIN orders' /\ orders'[fills'[k].intent].status = "FILLED"
    <3>1. ASSUME NEW k \in DOMAIN fills
          PROVE  /\ fills'[k].intent \in DOMAIN orders'
                 /\ orders'[fills'[k].intent].status = "FILLED"
      <4>1. /\ fills'[k].intent = fills[k].intent
            /\ fills[k].intent # x
            /\ fills[k].intent \in DOMAIN orders
            /\ orders[fills[k].intent].status = "FILLED"
        BY <2>3, <2>5 DEF FillsMatchOrders
      <4>. HIDE DEF done, fill
      <4>. QED
        BY <1>3, <4>1
    <3>2. fills'[Len(fills) + 1].intent = x
      BY <2>3, <2>4
    <3>. HIDE DEF done, fill
    <3>. QED
      BY <1>3, <1>4, <2>3, <3>1, <3>2
  <2>7. \A y \in DOMAIN orders' : orders'[y].status = "FILLED" =>
            \E k \in DOMAIN fills' : fills'[k].intent = y
    BY <1>3, <1>4, <2>3, <2>4 DEF FillsMatchOrders
  <2>8. \A j, k \in DOMAIN fills' : fills'[j].intent = fills'[k].intent => j = k
    BY <2>3, <2>4, <2>5 DEF FillsMatchOrders
  <2>. QED
    BY <2>3, <2>6, <2>7, <2>8 DEF FillsMatchOrders
<1>8. OrdersGrow
  <2> SUFFICES ASSUME NEW y \in DOMAIN orders
               PROVE  /\ y \in DOMAIN orders'
                      /\ Terms(orders'[y]) = Terms(orders[y])
                      /\ Status(y) = "FILLED" => orders'[y] = orders[y]
    BY DEF OrdersGrow
  <2>1. CASE y = x
    BY <1>1, <1>3, <1>4, <1>5, <2>1 DEF Status
  <2>2. CASE y # x
    BY <1>3, <2>2
  <2>. QED
    BY <2>1, <2>2
<1>. QED
  BY <1>6, <1>7, <1>8

\* Every intent step keeps what is stored, and lets orders only grow.
LEMMA IntentStepKeeps ==
    ASSUME OrdersStored, FillsMatchOrders, IntentStep
    PROVE  OrdersStored' /\ FillsMatchOrders' /\ OrdersGrow
<1>1. CASE KeepsIntents
  <2>1. orders' = orders /\ fills' = fills
    BY <1>1 DEF KeepsIntents
  <2>2. OrdersStored' /\ FillsMatchOrders'
    BY <2>1 DEF OrdersStored, OrderRecord, FillsMatchOrders
  <2>. QED
    BY <2>1, <2>2 DEF OrdersGrow
<1>. QED
  BY <1>1, InsertStep, FillStep, ReserveStep DEF IntentStep

-----------------------------------------------------------------------------
(* What a step does to the process that takes it. *)

\* The process p ends the step with acceptable locals.
Moves(p) == \E j : Become(p, j) /\ JobOK(j, DOMAIN orders')

\* A step of one process that only adds orders leaves the others acceptable.
LEMMA MovesKeepsJobs ==
    ASSUME JobsOK, NEW p \in Process, Moves(p),
           DOMAIN orders \subseteq DOMAIN orders'
    PROVE  JobsOK'
<1>1. PICK j : Become(p, j) /\ JobOK(j, DOMAIN orders')
  BY DEF Moves
<1>2. /\ job' = [q \in Process |-> job'[q]]
      /\ job'[p] = j
      /\ \A q \in Process : q # p => job'[q] = job[q]
  BY <1>1 DEF JobsOK, Become
<1>3. ASSUME NEW q \in Process PROVE JobOK(job'[q], DOMAIN orders')
  <2>1. CASE q = p
    BY <1>1, <1>2, <2>1
  <2>2. CASE q # p
    <3>1. JobOK(job[q], DOMAIN orders)
      BY DEF JobsOK
    <3>2. JobOK(job[q], DOMAIN orders')
      BY <3>1 DEF JobOK
    <3>. QED
      BY <1>2, <2>2, <3>2
  <2>. QED
    BY <2>1, <2>2
<1>. QED
  BY <1>2, <1>3 DEF JobsOK

\* A new job has loaded and decided nothing.
LEMMA NoJobOK == ASSUME NEW S PROVE JobOK(NoJob, S)
  BY DEF JobOK, JobShape, NoJob

\* An intent whose status is none has no order.
LEMMA NoneIsNew ==
    ASSUME OrdersStored, NEW x
    PROVE  /\ Status(x) = "NONE" => x \notin DOMAIN orders
           /\ Status(x) # "NONE" => x \in DOMAIN orders
  BY DEF Status, OrdersStored

-----------------------------------------------------------------------------
(* The steps of one process, by what they do to the intents. *)

\* Steps that change neither orders nor fills.
Quiet(p) ==
    /\ KeepsIntents
    /\ \E j : Become(p, j) /\ JobOK(j, DOMAIN orders)

\* Quiet steps are intent steps, and leave acceptable locals.
LEMMA QuietStep ==
    ASSUME NEW p, Quiet(p)
    PROVE  IntentStep /\ Moves(p)
<1>1. IntentStep
  BY DEF Quiet, IntentStep
<1>2. orders' = orders
  BY DEF Quiet, KeepsIntents
<1>3. PICK j : Become(p, j) /\ JobOK(j, DOMAIN orders)
  BY DEF Quiet
<1>4. JobOK(j, DOMAIN orders')
  BY <1>2, <1>3
<1>. QED
  BY <1>1, <1>3, <1>4 DEF Moves

\* A step is quiet if it keeps the intents, and what its process is about to sell
\* or no longer sells.
LEMMA QuietJob ==
    ASSUME NEW p, JobOK(job[p], DOMAIN orders), KeepsIntents,
           NEW j, Become(p, j), JobShape(j), j.sells = job[p].sells,
           \/ j.phase \notin {"reserve", "sell"}
           \/ j.phase = job[p].phase /\ j.sale = job[p].sale
    PROVE  Quiet(p)
  BY DEF JobOK, Quiet

\* A process that starts again from nothing is quiet.
LEMMA QuietAbort ==
    ASSUME NEW p, KeepsIntents, Become(p, NoJob)
    PROVE  Quiet(p)
  BY NoJobOK DEF Quiet

\* The steps of the first half that store no order are quiet.
LEMMA ExecutionQuiet ==
    ASSUME NEW p, JobOK(job[p], DOMAIN orders),
           \/ LoadPending(p) \/ CheckFreshness(p) \/ RestoreLifecycle(p)
           \/ MarkRestored(p) \/ SettleSignal(p) \/ PriceSignal(p) \/ SkipSignal(p)
           \/ FindEntry(p) \/ InitializePosition(p) \/ MarkEntry(p)
           \/ CompleteSignal(p) \/ EndLoop(p)
    PROVE  Quiet(p)
<1>0. JobShape(job[p])
  BY DEF JobOK
<1>1. CASE LoadPending(p)
  BY <1>0, <1>1, QuietJob
     DEF LoadPending, Local, storeVars, KeepsIntents, JobShape
<1>2. CASE CheckFreshness(p)
  <2>0. KeepsIntents
    BY <1>2 DEF CheckFreshness, Local, storeVars, KeepsIntents
  <2>1. CASE Executed(p)
    BY <1>0, <2>0, <2>1, QuietJob DEF Executed, Settle, JobShape
  <2>2. CASE Refused(p) \/ Missed(p)
    BY <1>0, <2>0, <2>2, QuietJob DEF Refused, Missed, Settle, JobShape
  <2>3. CASE Due(p)
    BY <1>0, <2>0, <2>3, QuietJob DEF Due, Settle, Keep, JobShape
  <2>. QED
    BY <1>2, <2>1, <2>2, <2>3 DEF CheckFreshness
<1>3. CASE RestoreLifecycle(p)
  BY <1>0, <1>3, QuietJob DEF RestoreLifecycle, KeepsIntents, JobShape
<1>4. CASE MarkRestored(p)
  BY <1>0, <1>4, QuietJob DEF MarkRestored, Settle, KeepsIntents, JobShape
<1>5. CASE SettleSignal(p)
  BY <1>0, <1>5, QuietJob DEF SettleSignal, KeepsIntents, JobShape
<1>6. CASE PriceSignal(p)
  <2>0. KeepsIntents
    BY <1>6 DEF PriceSignal, Local, storeVars, KeepsIntents
  <2>1. CASE SettlePriced(p, "REJECTED")
    BY <1>0, <2>0, <2>1, QuietJob DEF SettlePriced, JobShape
  <2>2. CASE Abort(p)
    BY <2>0, <2>2, QuietAbort DEF Abort
  <2>3. CASE Keep(p, First(p))
    BY <1>0, <2>0, <2>3, QuietJob DEF Keep, JobShape
  <2>. QED
    BY <1>6, <2>1, <2>2, <2>3 DEF PriceSignal
<1>7. CASE SkipSignal(p)
  BY <1>0, <1>7, QuietJob
     DEF SkipSignal, Result, Local, storeVars, KeepsIntents, JobShape
<1>8. CASE FindEntry(p)
  BY <1>0, <1>8, QuietJob
     DEF FindEntry, Result, Local, storeVars, KeepsIntents, JobShape
<1>9. CASE InitializePosition(p)
  BY <1>0, <1>9, QuietJob DEF InitializePosition, KeepsIntents, JobShape
<1>10. CASE MarkEntry(p)
  BY <1>0, <1>10, QuietJob DEF MarkEntry, Result, KeepsIntents, JobShape
<1>11. CASE CompleteSignal(p)
  BY <1>0, <1>11, QuietJob DEF CompleteSignal, KeepsIntents, JobShape
<1>12. CASE EndLoop(p)
  BY <1>0, <1>12, QuietJob
     DEF EndLoop, NextLoop, Local, storeVars, KeepsIntents, JobShape
<1>. QED
  BY <1>1, <1>2, <1>3, <1>4, <1>5, <1>6, <1>7, <1>8, <1>9, <1>10, <1>11, <1>12

\* Rejecting an entry stores a rejected order, or nothing.
LEMMA RejectEntryStep ==
    ASSUME OrdersStored, NEW p, JobOK(job[p], DOMAIN orders), RejectEntry(p)
    PROVE  IntentStep /\ Moves(p)
<1>0. JobShape(job[p])
  BY DEF JobOK
<1>1. fills' = fills
  BY DEF RejectEntry
<1>2. PICK qty \in Quantity :
          \/ /\ InsertOrder(Entry(First(p)), [BuyOrder(p, qty) EXCEPT !.status = "REJECTED"])
             /\ Result(p, job[p], "REJECTED")
          \/ Abort(p) /\ UNCHANGED orders
  BY DEF RejectEntry
<1>3. CASE Abort(p) /\ UNCHANGED orders
  <2>1. Quiet(p)
    BY <1>1, <1>3, QuietAbort DEF Abort, KeepsIntents
  <2>. QED
    BY <2>1, QuietStep
<1>4. ASSUME InsertOrder(Entry(First(p)), [BuyOrder(p, qty) EXCEPT !.status = "REJECTED"]),
             Result(p, job[p], "REJECTED")
      PROVE  IntentStep /\ Moves(p)
  <2>. DEFINE o == [BuyOrder(p, qty) EXCEPT !.status = "REJECTED"]
  <2>1. OrderRecord(BuyOrder(p, qty))
    BY DEF OrderRecord, BuyOrder
  <2>2. OrderRecord(o) /\ o.status = "REJECTED"
    BY <2>1, SetStatus
  <2>3. InsertsRejected
    BY <1>1, <1>4, <2>2 DEF InsertsRejected
  <2>4. DOMAIN orders \subseteq DOMAIN orders'
    BY <1>4 DEF InsertOrder
  <2>. DEFINE j == [job[p] EXCEPT !.phase = "execute", !.verdict = "", !.todo = Tail(@),
                           !.kept = Append(@, <<First(p), "REJECTED">>)]
  <2>5. Moves(p)
    <3>1. Become(p, j)
      BY <1>4 DEF Result
    <3>2. j.phase = "execute" /\ j.sells = job[p].sells /\ JobShape(j)
      BY <1>0 DEF JobShape
    <3>3. JobOK(j, DOMAIN orders')
      BY <2>4, <3>2 DEF JobOK
    <3>. QED
      BY <3>1, <3>3 DEF Moves
  <2>. QED
    BY <2>3, <2>5 DEF IntentStep
<1>. QED
  BY <1>2, <1>3, <1>4

\* Filling an entry fills an intent without an order, or the run ends.
LEMMA FillEntryStep ==
    ASSUME OrdersStored, NEW p, JobOK(job[p], DOMAIN orders), FillEntry(p)
    PROVE  IntentStep /\ Moves(p)
<1>0. JobShape(job[p])
  BY DEF JobOK
<1>. DEFINE o(qty) == BuyOrder(p, qty)
            x == Entry(First(p))
            Paid(qty) == [job[p] EXCEPT
                  !.phase = "initialize", !.verdict = "FILLED", !.count = @ + 1,
                  !.row = EntryRow(First(p), o(qty)),
                  !.mem = ApplyBuy(@, o(qty).symbol, qty, o(qty).price)]
<1>1. PICK qty \in Quantity :
          \/ /\ SaveEntry(First(p), o(qty), job[p].mem)
             /\ Become(p, Paid(qty))
          \/ Abort(p) /\ UNCHANGED storeVars
  BY DEF FillEntry
<1>2. CASE Abort(p) /\ UNCHANGED storeVars
  <2>1. Quiet(p)
    BY <1>2, QuietAbort DEF Abort, KeepsIntents, storeVars
  <2>. QED
    BY <2>1, QuietStep
<1>3. ASSUME SaveEntry(First(p), o(qty), job[p].mem), Become(p, Paid(qty))
      PROVE  IntentStep /\ Moves(p)
  <2>1. OrderRecord(o(qty))
    BY DEF OrderRecord, BuyOrder
  <2>2. /\ Status(x) = "NONE"
        /\ FillOrder(x, o(qty), -BuyCost(o(qty).qty, o(qty).price))
    BY <1>3 DEF SaveEntry
  <2>3. x \notin DOMAIN orders
    BY <2>2, NoneIsNew
  <2>4. FillsIntent
    BY <2>1, <2>2, <2>3 DEF FillsIntent
  <2>5. DOMAIN orders \subseteq DOMAIN orders'
    BY <2>2 DEF FillOrder
  <2>6. JobOK(Paid(qty), DOMAIN orders')
    BY <1>0, <2>5 DEF JobOK, JobShape
  <2>. QED
    BY <1>3, <2>4, <2>6 DEF IntentStep, Moves
<1>. QED
  BY <1>1, <1>2, <1>3

\* Every step of the first half is an intent step and leaves acceptable locals.
LEMMA ExecutionKeeps ==
    ASSUME OrdersStored, NEW p, JobOK(job[p], DOMAIN orders), ExecutionStep(p)
    PROVE  IntentStep /\ Moves(p)
<1>1. CASE RejectEntry(p)
  BY <1>1, RejectEntryStep
<1>2. CASE FillEntry(p)
  BY <1>2, FillEntryStep
<1>3. CASE ~RejectEntry(p) /\ ~FillEntry(p)
  BY <1>3, ExecutionQuiet, QuietStep DEF ExecutionStep
<1>. QED
  BY <1>1, <1>2, <1>3

\* Evaluating a position reserves nothing; what it decides to sell is stored
\* already, or new and accepted.
LEMMA EvaluateQuiet ==
    ASSUME OrdersStored, NEW p, JobOK(job[p], DOMAIN orders), EvaluatePosition(p)
    PROVE  Quiet(p)
<1>0. JobShape(job[p])
  BY DEF JobOK
<1>1. KeepsIntents
  BY DEF EvaluatePosition, Local, storeVars, KeepsIntents
<1>2. PICK s \in job[p].held :
          SkipPosition(p, s) \/ Resume(p, s) \/ HoldPosition(p, s) \/ DecideExit(p, s)
  BY DEF EvaluatePosition
<1>3. CASE SkipPosition(p, s)
  BY <1>0, <1>1, <1>3, QuietJob DEF SkipPosition, Done, JobShape
<1>4. CASE Resume(p, s)
  <2>1. PICK x \in SellsOf(p, s) :
            Become(p, [job[p] EXCEPT !.phase = "reserve", !.sale = <<x, orders[x]>>])
    BY <1>4 DEF Resume
  <2>2. x \in DOMAIN orders
    BY DEF SellsOf, JobOK
  <2>3. JobOK([job[p] EXCEPT !.phase = "reserve", !.sale = <<x, orders[x]>>], DOMAIN orders)
    BY <1>0, <2>2 DEF JobOK, JobShape
  <2>. QED
    BY <1>1, <2>1, <2>3 DEF Quiet
<1>5. CASE HoldPosition(p, s)
  BY <1>0, <1>1, <1>5, QuietJob DEF HoldPosition, JobShape
<1>6. CASE DecideExit(p, s)
  <2>1. CASE Abort(p)
    BY <1>1, <2>1, QuietAbort DEF Abort
  <2>2. CASE ~Abort(p)
    <3>. DEFINE o == SellOrder(p, s)
                x == ExitOf(lifecycle[s], o.day, o.qty, o.reason)
                j == [job[p] EXCEPT !.phase = "reserve", !.sale = <<x, o>>]
    <3>1. Become(p, j)
      BY <1>6, <2>2 DEF DecideExit
    <3>2. OrderRecord(o) /\ o.status = "ACCEPTED"
      BY DEF OrderRecord, SellOrder
    <3>3. JobShape(j) /\ j.sells = job[p].sells /\ j.sale[2] = o
      BY <1>0 DEF JobShape
    <3>4. JobOK(j, DOMAIN orders)
      BY <3>2, <3>3 DEF JobOK
    <3>. QED
      BY <1>1, <3>1, <3>4 DEF Quiet
  <2>. QED
    BY <2>1, <2>2
<1>. QED
  BY <1>2, <1>3, <1>4, <1>5, <1>6

\* The steps of the second half that neither reserve nor fill are quiet.
LEMMA LifecycleQuiet ==
    ASSUME OrdersStored, NEW p, JobOK(job[p], DOMAIN orders),
           \/ LoadPositions(p) \/ EvaluatePosition(p) \/ SaveHold(p)
           \/ FindExit(p, "reserve") \/ FindExit(p, "sell") \/ FinishRun(p)
    PROVE  Quiet(p)
<1>0. JobShape(job[p])
  BY DEF JobOK
<1>1. OpenSells \subseteq DOMAIN orders
  BY DEF OpenSells
<1>2. CASE LoadPositions(p)
  <2>. DEFINE j == [NoJob EXCEPT
           !.phase = "manage", !.day = job[p].day, !.mem = portfolio, !.pin = today,
           !.list = portfolio.position,
           !.held = {s \in Symbol : Holds(portfolio, s)}, !.sells = OpenSells]
  <2>1. Become(p, j) /\ KeepsIntents
    BY <1>2 DEF LoadPositions, Local, storeVars, KeepsIntents
  <2>2. JobOK(j, DOMAIN orders)
    BY <1>1 DEF NoJob, JobOK, JobShape
  <2>. QED
    BY <2>1, <2>2 DEF Quiet
<1>3. CASE SaveHold(p)
  <2>1. KeepsIntents
    BY <1>3 DEF SaveHold, KeepsIntents
  <2>2. Become(p, Done(p, job[p].sale[1])) \/ Abort(p)
    BY <1>3 DEF SaveHold
  <2>3. CASE Become(p, Done(p, job[p].sale[1]))
    BY <1>0, <2>1, <2>3, QuietJob DEF Done, JobShape
  <2>4. CASE Abort(p)
    BY <2>1, <2>4, QuietAbort DEF Abort
  <2>. QED
    BY <2>2, <2>3, <2>4
<1>4. ASSUME NEW phase, FindExit(p, phase) PROVE Quiet(p)
  <2>. DEFINE j == [Done(p, SaleOf(p).symbol) EXCEPT
                        !.mem = portfolio, !.sells = OpenSells]
  <2>1. Become(p, j) /\ KeepsIntents
    BY <1>4 DEF FindExit, Local, storeVars, KeepsIntents
  <2>2. JobOK(j, DOMAIN orders)
    BY <1>0, <1>1 DEF Done, JobOK, JobShape
  <2>. QED
    BY <2>1, <2>2 DEF Quiet
<1>5. CASE FinishRun(p)
  BY <1>5, QuietAbort DEF FinishRun, KeepsIntents
<1>. QED
  BY <1>2, <1>3, <1>4, <1>5, EvaluateQuiet

\* A sale that is refused stores a rejected order or ends the run; one that is
\* accepted is reserved.
LEMMA ReserveSaleStep ==
    ASSUME OrdersStored, NEW p, JobOK(job[p], DOMAIN orders), ReserveSale(p)
    PROVE  IntentStep /\ Moves(p)
<1>0. JobShape(job[p])
  BY DEF JobOK
<1>. DEFINE x == Intent(p)
            o == SaleOf(p)
<1>1. /\ fills' = fills
      /\ x \in DOMAIN orders \/ (OrderRecord(o) /\ o.status = "ACCEPTED")
  BY DEF ReserveSale, At, JobOK, Intent, SaleOf
<1>2. CASE SellRefused(p)
  <2>1. CASE Status(x) = "NONE"
    <3>1. /\ InsertOrder(x, [o EXCEPT !.status = "REJECTED"])
          /\ Become(p, Done(p, o.symbol))
      BY <1>2, <2>1 DEF ReserveSale, RefuseSale
    <3>2. OrderRecord(o)
      BY <1>1, <2>1, NoneIsNew
    <3>3. /\ OrderRecord([o EXCEPT !.status = "REJECTED"])
          /\ [o EXCEPT !.status = "REJECTED"].status = "REJECTED"
      BY <3>2, SetStatus
    <3>4. InsertsRejected
      BY <1>1, <3>1, <3>3 DEF InsertsRejected
    <3>5. DOMAIN orders \subseteq DOMAIN orders'
      BY <3>1 DEF InsertOrder
    <3>6. JobOK(Done(p, o.symbol), DOMAIN orders')
      BY <1>0, <3>5 DEF Done, JobOK, JobShape
    <3>. QED
      BY <3>1, <3>4, <3>6 DEF IntentStep, Moves
  <2>2. CASE Status(x) # "NONE"
    <3>1. Abort(p) /\ UNCHANGED orders
      BY <1>2, <2>2 DEF ReserveSale, RefuseSale
    <3>2. Quiet(p)
      BY <1>1, <3>1, QuietAbort DEF Abort, KeepsIntents
    <3>. QED
      BY <3>2, QuietStep
  <2>. QED
    BY <2>1, <2>2
<1>3. CASE ~SellRefused(p)
  <2>. DEFINE j == [job[p] EXCEPT !.phase = "sell"]
  <2>1. ReserveExit(x, o) /\ Become(p, j)
    BY <1>3 DEF ReserveSale
  <2>2. ReservesIntent
    BY <1>1, <2>1 DEF ReservesIntent
  <2>3. /\ DOMAIN orders \subseteq DOMAIN orders'
        /\ x \in DOMAIN orders'
    BY <2>1 DEF ReserveExit
  <2>4. /\ j.sells = job[p].sells /\ JobShape(j)
        /\ j.sale[1] = x
    BY <1>0 DEF JobShape, Intent
  <2>5. JobOK(j, DOMAIN orders')
    BY <2>3, <2>4 DEF JobOK
  <2>. QED
    BY <2>1, <2>2, <2>5 DEF IntentStep, Moves
<1>. QED
  BY <1>2, <1>3

\* Filling an exit fills an intent whose order is stored and accepted.
LEMMA FillExitStep ==
    ASSUME OrdersStored, NEW p, JobOK(job[p], DOMAIN orders), FillExit(p)
    PROVE  IntentStep /\ Moves(p)
<1>0. JobShape(job[p])
  BY DEF JobOK
<1>. DEFINE x == Intent(p)
            o == orders[x]
            j == [Done(p, SaleOf(p).symbol) EXCEPT
                      !.mem = ApplySell(@, o.symbol, o.qty, o.price)]
<1>1. SaveExit(x, job[p].mem) /\ Become(p, j)
  BY DEF FillExit
<1>2. /\ Status(x) = "ACCEPTED"
      /\ FillOrder(x, o, SellNet(o.qty, o.price))
  BY <1>1 DEF SaveExit
<1>3. x \in DOMAIN orders /\ OrderRecord(o) /\ o.status = "ACCEPTED"
  BY <1>2, NoneIsNew DEF Status, OrdersStored
<1>4. FillsIntent
  BY <1>2, <1>3 DEF FillsIntent
<1>5. DOMAIN orders \subseteq DOMAIN orders'
  BY <1>2 DEF FillOrder
<1>6. JobOK(j, DOMAIN orders')
  BY <1>0, <1>5 DEF Done, JobOK, JobShape
<1>. QED
  BY <1>1, <1>4, <1>6 DEF IntentStep, Moves

\* Every step of the second half is an intent step and leaves acceptable locals.
LEMMA LifecycleKeeps ==
    ASSUME OrdersStored, NEW p, JobOK(job[p], DOMAIN orders), LifecycleStep(p)
    PROVE  IntentStep /\ Moves(p)
<1>1. CASE ReserveSale(p)
  BY <1>1, ReserveSaleStep
<1>2. CASE FillExit(p)
  BY <1>2, FillExitStep
<1>3. CASE ~ReserveSale(p) /\ ~FillExit(p)
  BY <1>3, LifecycleQuiet, QuietStep DEF LifecycleStep
<1>. QED
  BY <1>1, <1>2, <1>3

-----------------------------------------------------------------------------
(* The invariant, and what follows from it. *)

\* Nothing is stored at first, and no process runs.
LEMMA IntentInvInit == Init => IntentInv
<1>. SUFFICES ASSUME Init PROVE IntentInv
  OBVIOUS
<1>1. /\ orders = <<>> /\ fills = <<>>
      /\ job = [p \in Process |-> NoJob]
  BY DEF Init, StoreInit
<1>2. OrdersStored
  BY <1>1 DEF OrdersStored
<1>3. FillsMatchOrders
  <2>1. fills \in Seq({})
    BY <1>1
  <2>. QED
    BY <1>1, <2>1 DEF FillsMatchOrders
<1>4. JobsOK
  BY <1>1, NoJobOK DEF JobsOK
<1>. QED
  BY <1>2, <1>3, <1>4 DEF IntentInv

\* Every step of the system, and stuttering, keeps the invariant, and lets orders
\* only grow.
LEMMA IntentInvNext ==
    ASSUME IntentInv, [Next]_paperVars
    PROVE  IntentInv' /\ OrdersGrow
<1>0. OrdersStored /\ FillsMatchOrders /\ JobsOK
  BY DEF IntentInv
<1>1. ASSUME IntentStep, UNCHANGED job \/ \E p \in Process : Moves(p)
      PROVE  IntentInv' /\ OrdersGrow
  <2>1. OrdersStored' /\ FillsMatchOrders' /\ OrdersGrow
    BY <1>0, <1>1, IntentStepKeeps
  <2>2. DOMAIN orders \subseteq DOMAIN orders'
    BY <2>1 DEF OrdersGrow
  <2>3. JobsOK'
    <3>1. CASE UNCHANGED job
      BY <1>0, <2>2, <3>1 DEF JobsOK, JobOK, JobShape
    <3>2. CASE \E p \in Process : Moves(p)
      BY <1>0, <2>2, <3>2, MovesKeepsJobs
    <3>. QED
      BY <1>1, <3>1, <3>2
  <2>. QED
    BY <2>1, <2>3 DEF IntentInv
<1>2. CASE OpenSession \/ QueueSignal \/ UNCHANGED paperVars
  <2>1. KeepsIntents /\ UNCHANGED job
    BY <1>2 DEF OpenSession, QueueSignal, paperVars, storeVars, KeepsIntents
  <2>. QED
    BY <1>1, <2>1 DEF IntentStep
<1>3. ASSUME NEW p \in Process, StartRun(p) \/ StartUpdate(p) \/ RunStep(p) \/ Crash(p)
      PROVE  IntentInv' /\ OrdersGrow
  <2>1. JobOK(job[p], DOMAIN orders)
    BY <1>0 DEF JobsOK
  <2>2. CASE StartRun(p)
    <3>. DEFINE j == [NoJob EXCEPT !.phase = "queued", !.day = today, !.mem = portfolio]
    <3>1. KeepsIntents /\ Become(p, j)
      BY <2>2 DEF StartRun, storeVars, KeepsIntents
    <3>2. JobOK(j, DOMAIN orders)
      BY DEF NoJob, JobOK, JobShape
    <3>3. Quiet(p)
      BY <3>1, <3>2 DEF Quiet
    <3>. QED
      BY <1>1, <3>3, QuietStep
  <2>3. CASE StartUpdate(p)
    <3>. DEFINE j == [NoJob EXCEPT !.phase = "update", !.day = today, !.mem = portfolio]
    <3>1. KeepsIntents /\ Become(p, j)
      BY <2>3 DEF StartUpdate, storeVars, KeepsIntents
    <3>2. JobOK(j, DOMAIN orders)
      BY DEF NoJob, JobOK, JobShape
    <3>3. Quiet(p)
      BY <3>1, <3>2 DEF Quiet
    <3>. QED
      BY <1>1, <3>3, QuietStep
  <2>4. CASE Crash(p)
    <3>1. Quiet(p)
      BY <2>4, QuietAbort DEF Crash, storeVars, KeepsIntents
    <3>. QED
      BY <1>1, <3>1, QuietStep
  <2>5. CASE RunStep(p)
    <3>1. IntentStep /\ Moves(p)
      BY <1>0, <2>1, <2>5, ExecutionKeeps, LifecycleKeeps DEF RunStep
    <3>. QED
      BY <1>1, <3>1
  <2>. QED
    BY <1>3, <2>2, <2>3, <2>4, <2>5
<1>. QED
  BY <1>2, <1>3 DEF Next

\* Fills that match the orders are one for each filled order.
LEMMA MatchGivesOne == IntentInv => OneFillPerIntent
<1>. SUFFICES ASSUME IntentInv, NEW x \in DOMAIN orders
              PROVE  Cardinality({k \in DOMAIN fills : fills[k].intent = x})
                         = (IF Status(x) = "FILLED" THEN 1 ELSE 0)
  BY DEF OneFillPerIntent
<1>. DEFINE K == {k \in DOMAIN fills : fills[k].intent = x}
<1>0. FillsMatchOrders
  BY DEF IntentInv
<1>1. CASE Status(x) = "FILLED"
  <2>1. PICK k \in DOMAIN fills : fills[k].intent = x
    BY <1>0, <1>1 DEF FillsMatchOrders, Status
  <2>2. K = {k}
    BY <1>0, <2>1 DEF FillsMatchOrders
  <2>3. Cardinality(K) = 1
    BY <2>2, FS_Singleton
  <2>. QED
    BY <1>1, <2>3
<1>2. CASE Status(x) # "FILLED"
  <2>1. K = {}
    BY <1>0, <1>2 DEF FillsMatchOrders, Status
  <2>2. Cardinality(K) = 0
    BY <2>1, FS_EmptySet
  <2>. QED
    BY <1>2, <2>2
<1>. QED
  BY <1>1, <1>2

\* The matching of orders, fills and locals holds in every reachable state.
THEOREM IntentsAlwaysMatch == Spec => []IntentInv
<1>1. IntentInv /\ [Next]_paperVars => IntentInv'
  BY IntentInvNext
<1>. QED
  BY <1>1, IntentInvInit, PTL DEF Spec

\* However many processes run, crash and rerun: an intent has exactly one fill if
\* its order is filled, and none otherwise.
THEOREM OneFillAlways == Spec => []OneFillPerIntent
  BY IntentsAlwaysMatch, MatchGivesOne, PTL

\* No step of any process changes the terms of a stored order, or reopens a filled
\* one.
THEOREM TermsAlwaysFrozen == Spec => StoredTermsAreFrozen
<1>1. IntentInv /\ [Next]_paperVars =>
        [\A x \in DOMAIN orders :
            /\ x \in DOMAIN orders'
            /\ Terms(orders'[x]) = Terms(orders[x])
            /\ Status(x) = "FILLED" => orders'[x] = orders[x]]_paperVars
  BY IntentInvNext DEF OrdersGrow
<1>. QED
  BY <1>1, IntentsAlwaysMatch, PTL DEF Spec, StoredTermsAreFrozen

-----------------------------------------------------------------------------
(* Induction, as a fact about sets of numbers. *)

\* A set of natural numbers that is not empty has a least element.
LEMMA LeastNumber ==
    ASSUME NEW T, T \subseteq Nat, T # {}
    PROVE  \E n \in T : \A m \in T : n <= m
<1>. DEFINE Less == OpToRel(<, Nat)
<1>1. IsWellFoundedOn(Less, Nat)
  BY NatLessThanWellFounded
<1>2. \A i, j \in Nat : <<i, j>> \in Less <=> i < j
  BY DEF OpToRel
<1>3. ASSUME NEW R, IsWellFoundedOn(R, Nat), \A i, j \in Nat : <<i, j>> \in R <=> i < j
      PROVE  \E n \in T : \A m \in T : n <= m
  <2>1. IsWellFoundedOn(R, Nat)
    BY <1>3
  <2>2. PICK n \in T : \A m \in T : ~(<<m, n>> \in R)
    BY <2>1, WFMin
  <2>3. ASSUME NEW m \in T PROVE n <= m
    <3>1. n \in Nat /\ m \in Nat /\ ~(<<m, n>> \in R)
      BY <2>2
    <3>2. ~(m < n)
      BY <1>3, <3>1
    <3>. QED
      BY <3>1, <3>2
  <2>. QED
    BY <2>2, <2>3
<1>. HIDE DEF Less
<1>. QED
  BY <1>1, <1>2, <1>3

\* A set with zero and with the successor of each of its numbers has them all.
LEMMA Induction ==
    ASSUME NEW T, 0 \in T, \A n \in Nat : n \in T => n + 1 \in T
    PROVE  Nat \subseteq T
<1>. DEFINE M == Nat \ T
<1>. SUFFICES ASSUME M # {} PROVE FALSE
  OBVIOUS
<1>1. PICK n \in M : \A m \in M : n <= m
  BY LeastNumber
<1>2. n - 1 \in Nat /\ n - 1 \notin M
  BY <1>1
<1>. QED
  BY <1>2

-----------------------------------------------------------------------------
(* Sums over finite sets. *)

\* What holds of the empty set, and of a subset if it holds of all that lack one
\* of its elements, holds of every subset of a finite set.
LEMMA SubsetInduction ==
    ASSUME NEW S, IsFiniteSet(S), NEW F, {} \in F,
           \A s \in SUBSET S : s # {} /\ (\A x \in s : s \ {x} \in F) => s \in F
    PROVE  SUBSET S \subseteq F
<1>. DEFINE T == {n \in Nat : \A s \in SUBSET S : Cardinality(s) = n => s \in F}
<1>1. \A s \in SUBSET S : IsFiniteSet(s) /\ Cardinality(s) \in Nat
  BY FS_Subset, FS_CardinalityType
<1>2. 0 \in T
  BY <1>1, FS_EmptySet
<1>3. ASSUME NEW n \in Nat, n \in T PROVE n + 1 \in T
  <2>1. SUFFICES ASSUME NEW s \in SUBSET S, Cardinality(s) = n + 1 PROVE s \in F
    BY <1>3
  <2>2. s # {}
    <3>1. Cardinality({}) = 0
      BY FS_EmptySet
    <3>. QED
      BY <2>1, <3>1
  <2>3. ASSUME NEW x \in s PROVE s \ {x} \in F
    <3>1. s \ {x} \in SUBSET S /\ Cardinality(s \ {x}) = n
      BY <1>1, <2>1, FS_RemoveElement
    <3>. QED
      BY <1>3, <3>1
  <2>. QED
    BY <2>2, <2>3
<1>4. Nat \subseteq T
  <2>. HIDE DEF T
  <2>. QED
    BY <1>2, <1>3, Induction
<1>. QED
  BY <1>1, <1>4

\* The sum of a subset by the sum of what is left without one of its elements.
Adding(f, g, s) ==
    IF s = {} THEN 0
    ELSE f[CHOOSE x \in s : TRUE] + g[s \ {CHOOSE x \in s : TRUE}]

IsSum(g, f, S) == g = [s \in SUBSET S |-> Adding(f, g, s)]

Sums(f, S) == CHOOSE g : IsSum(g, f, S)

\* The folded sum is the last of the partial sums.
LEMMA SumIsLast ==
    ASSUME NEW f, NEW S PROVE SumFunctionOnSet(f, S) = Sums(f, S)[S]
  BY DEF SumFunctionOnSet, FoldFunctionOnSet, MapThenFoldSet, Sums, IsSum,
         Adding

\* The recursion over the subsets of a finite set has a solution.
LEMMA SumsExist ==
    ASSUME NEW f, NEW S, IsFiniteSet(S)
    PROVE  IsSum(Sums(f, S), f, S)
<1>. DEFINE Small(n) == {u \in SUBSET S : Cardinality(u) <= n}
            T == {n \in Nat : \E g : g = [s \in Small(n) |-> Adding(f, g, s)]}
<1>1. \A s \in SUBSET S : IsFiniteSet(s) /\ Cardinality(s) \in Nat
  BY FS_Subset, FS_CardinalityType
<1>2. 0 \in T
  <2>. DEFINE g == [s \in Small(0) |-> 0]
  <2>1. \A s \in Small(0) : s = {}
    BY <1>1, FS_EmptySet
  <2>2. g = [s \in Small(0) |-> Adding(f, g, s)]
    BY <2>1 DEF Adding
  <2>. QED
    BY <2>2
<1>3. ASSUME NEW n \in Nat, n \in T PROVE n + 1 \in T
  <2>1. PICK g : g = [s \in Small(n) |-> Adding(f, g, s)]
    BY <1>3
  <2>2. PICK h : h = [s \in Small(n + 1) |-> Adding(f, g, s)]
    OBVIOUS
  <2>3. \A s \in Small(n) : h[s] = g[s]
    BY <1>1, <2>1, <2>2
  <2>4. ASSUME NEW s \in Small(n + 1) PROVE Adding(f, h, s) = Adding(f, g, s)
    <3>1. CASE s = {}
      BY <3>1 DEF Adding
    <3>2. CASE s # {}
      <4>1. PICK x \in s : x = CHOOSE y \in s : TRUE
        BY <3>2
      <4>2. s \ {x} \in Small(n)
        BY <1>1, <2>4, FS_RemoveElement
      <4>. QED
        BY <2>3, <3>2, <4>1, <4>2 DEF Adding
    <3>. QED
      BY <3>1, <3>2
  <2>5. h = [s \in Small(n + 1) |-> Adding(f, h, s)]
    BY <2>2, <2>4
  <2>. QED
    BY <2>5
<1>4. Nat \subseteq T
  <2>. HIDE DEF T
  <2>. QED
    BY <1>2, <1>3, Induction
<1>5. PICK n \in Nat : n = Cardinality(S)
  BY <1>1
<1>6. Small(n) = SUBSET S
  BY <1>1, <1>5, FS_Subset
<1>7. \E g : IsSum(g, f, S)
  BY <1>4, <1>6 DEF IsSum
<1>. QED
  BY <1>7 DEF Sums

\* Every partial sum is a number, and any element may be taken out first.
LEMMA SumsTake ==
    ASSUME NEW f, NEW S, IsFiniteSet(S), \A x \in S : f[x] \in Int
    PROVE  \A s \in SUBSET S :
             /\ Sums(f, S)[s] \in Int
             /\ s = {} => Sums(f, S)[s] = 0
             /\ \A x \in s : Sums(f, S)[s] = f[x] + Sums(f, S)[s \ {x}]
<1>1. PICK g : g = Sums(f, S) /\ IsSum(g, f, S)
  BY SumsExist
<1>. DEFINE F == {s \in SUBSET S :
                    /\ g[s] \in Int /\ (s = {} => g[s] = 0)
                    /\ \A x \in s : g[s] = f[x] + g[s \ {x}] /\ g[s \ {x}] \in Int}
<1>2. \A s \in SUBSET S : g[s] = Adding(f, g, s)
  BY <1>1 DEF IsSum
<1>3. {} \in F
  <2>1. {} \in SUBSET S
    OBVIOUS
  <2>2. Adding(f, g, {}) = 0
    BY DEF Adding
  <2>3. g[{}] = 0
    BY <1>2, <2>1, <2>2
  <2>. QED
    BY <2>1, <2>3
<1>4. ASSUME NEW s \in SUBSET S, s # {}, \A x \in s : s \ {x} \in F PROVE s \in F
  <2>1. PICK y \in s : y = CHOOSE x \in s : TRUE
    BY <1>4
  <2>2. g[s] = f[y] + g[s \ {y}] /\ s \ {y} \in F /\ f[y] \in Int
    BY <1>2, <1>4, <2>1 DEF Adding
  <2>3. ASSUME NEW x \in s PROVE g[s] = f[x] + g[s \ {x}]
    <3>1. CASE x = y
      BY <2>2, <3>1
    <3>2. CASE x # y
      <4>1. PICK u : u = s \ {x, y}
        OBVIOUS
      <4>2. (s \ {x}) \ {y} = u /\ (s \ {y}) \ {x} = u
        BY <4>1
      <4>3. g[s \ {y}] = f[x] + g[u] /\ g[s \ {x}] = f[y] + g[u]
        <5>1. s \ {x} \in F /\ s \ {y} \in F
          BY <1>4
        <5>. QED
          BY <3>2, <4>2, <5>1
      <4>4. u \in SUBSET S /\ f[x] \in Int
        BY <4>1
      <4>5. g[u] \in Int
        <5>1. s \ {x} \in F /\ y \in s \ {x}
          BY <1>4, <3>2
        <5>. QED
          BY <4>2, <5>1
      <4>. QED
        BY <2>2, <4>3, <4>4, <4>5
    <3>. QED
      BY <3>1, <3>2
  <2>4. \A x \in s : g[s \ {x}] \in Int
    BY <1>4
  <2>5. g[s] \in Int
    BY <2>2, <2>4
  <2>. QED
    BY <1>4, <2>3, <2>4, <2>5
<1>5. SUBSET S \subseteq F
  <2>. HIDE DEF F
  <2>. QED
    BY <1>3, <1>4, SubsetInduction
<1>. QED
  BY <1>1, <1>5

\* Sums of functions that agree on a set agree.
LEMMA SumAgrees ==
    ASSUME NEW S, IsFiniteSet(S), NEW f, NEW h, NEW R, S \subseteq R, IsFiniteSet(R),
           \A x \in R : h[x] \in Int, \A x \in S : f[x] = h[x]
    PROVE  Sums(f, S)[S] = Sums(h, R)[S]
<1>1. PICK g : g = Sums(f, S) /\ IsSum(g, f, S)
  BY SumsExist
<1>2. PICK k : k = Sums(h, R) /\ IsSum(k, h, R)
  BY SumsExist
<1>. DEFINE F == {s \in SUBSET S : g[s] = k[s]}
<1>3. \A s \in SUBSET S : g[s] = Adding(f, g, s) /\ k[s] = Adding(h, k, s)
  BY <1>1, <1>2 DEF IsSum
<1>4. {} \in F
  <2>1. {} \in SUBSET S /\ Adding(f, g, {}) = 0 /\ Adding(h, k, {}) = 0
    BY DEF Adding
  <2>. QED
    BY <1>3, <2>1
<1>5. ASSUME NEW s \in SUBSET S, s # {}, \A x \in s : s \ {x} \in F PROVE s \in F
  <2>1. PICK y \in s : y = CHOOSE x \in s : TRUE
    BY <1>5
  <2>2. Adding(f, g, s) = f[y] + g[s \ {y}] /\ Adding(h, k, s) = h[y] + k[s \ {y}]
    BY <1>5, <2>1 DEF Adding
  <2>3. g[s \ {y}] = k[s \ {y}] /\ f[y] = h[y]
    BY <1>5
  <2>. QED
    BY <1>3, <1>5, <2>2, <2>3
<1>6. SUBSET S \subseteq F
  <2>. HIDE DEF F
  <2>. QED
    BY <1>4, <1>5, SubsetInduction
<1>7. S \in F
  BY <1>6
<1>. QED
  BY <1>1, <1>2, <1>7

\* A sum of numbers is a number.
LEMMA SumIsNumber ==
    ASSUME NEW f, NEW S, IsFiniteSet(S), \A x \in S : f[x] \in Int
    PROVE  SumFunctionOnSet(f, S) \in Int
<1>1. S \in SUBSET S
  OBVIOUS
<1>. QED
  BY <1>1, SumIsLast, SumsTake

\* That of nothing is zero.
LEMMA SumOfNothing ==
    ASSUME NEW f PROVE SumFunctionOnSet(f, {}) = 0
<1>1. IsFiniteSet({}) /\ {} \in SUBSET {}
  BY FS_EmptySet
<1>2. Sums(f, {})[{}] = 0
  BY <1>1, SumsTake
<1>. QED
  BY <1>2, SumIsLast

\* Two functions are the same numbers on a finite set.
SameOn(f, h, S) == IsFiniteSet(S) /\ \A x \in S : h[x] \in Int /\ f[x] = h[x]

\* The one has one more than the other.
OneMore(f, h, S, x) ==
    /\ x \notin S /\ SameOn(f, h, S)
    /\ \A y \in S \cup {x} : h[y] \in Int

\* A sum depends on what is added only.
LEMMA SumSame ==
    ASSUME NEW f, NEW h, NEW S, SameOn(f, h, S)
    PROVE  SumFunctionOnSet(f, S) = SumFunctionOnSet(h, S)
  BY SumIsLast, SumAgrees DEF SameOn

\* With one more number the sum is larger by that number.
LEMMA SumOfOneMore ==
    ASSUME NEW f, NEW h, NEW S, NEW x, OneMore(f, h, S, x)
    PROVE  SumFunctionOnSet(h, S \cup {x}) = SumFunctionOnSet(f, S) + h[x]
<1>. USE DEF OneMore, SameOn
<1>. DEFINE R == S \cup {x}
<1>1. IsFiniteSet(R)
  BY FS_AddElement
<1>2. Sums(f, S)[S] = Sums(h, R)[S]
  BY <1>1, SumAgrees
<1>3. Sums(h, R)[R] = h[x] + Sums(h, R)[S] /\ Sums(h, R)[S] \in Int
  <2>1. /\ R \in SUBSET R /\ S \in SUBSET R /\ x \in R /\ R \ {x} = S
        /\ \A y \in R : h[y] \in Int
    OBVIOUS
  <2>. HIDE DEF R
  <2>. QED
    BY <1>1, <2>1, SumsTake
<1>4. h[x] \in Int
  OBVIOUS
<1>. QED
  BY <1>2, <1>3, <1>4, SumIsLast

-----------------------------------------------------------------------------
(* The order in which a run visits its signals. *)

Ascending(q) == \A j, k \in DOMAIN q : j < k => q[j] < q[k]

\* Every set of numbers up to n can be put in ascending order.
LEMMA AscendingExists ==
    \A n \in Nat : \A S \in SUBSET (1 .. n) :
        IsFiniteSet(S) /\ \E q \in [1 .. Cardinality(S) -> S] : Ascending(q)
<1>. DEFINE Ordered(S) == IsFiniteSet(S)
                          /\ \E q \in [1 .. Cardinality(S) -> S] : Ascending(q)
            T == {n \in Nat : \A S \in SUBSET (1 .. n) : Ordered(S)}
<1>1. 0 \in T
  <2>1. \A S \in SUBSET (1 .. 0) : S = {}
    OBVIOUS
  <2>2. Ordered({})
    <3>1. IsFiniteSet({}) /\ Cardinality({}) = 0
      BY FS_EmptySet
    <3>2. [k \in 1 .. 0 |-> k] \in [1 .. 0 -> {}] /\ Ascending([k \in 1 .. 0 |-> k])
      BY DEF Ascending
    <3>. QED
      BY <3>1, <3>2
  <2>. QED
    BY <2>1, <2>2
<1>2. ASSUME NEW n \in Nat, n \in T PROVE n + 1 \in T
  <2>. SUFFICES ASSUME NEW S \in SUBSET (1 .. n + 1) PROVE Ordered(S)
    OBVIOUS
  <2>1. CASE n + 1 \notin S
    <3>1. S \in SUBSET (1 .. n)
      BY <2>1
    <3>. QED
      BY <1>2, <3>1
  <2>2. CASE n + 1 \in S
    <3>. DEFINE R == S \ {n + 1}
                c == Cardinality(R)
    <3>1. R \in SUBSET (1 .. n)
      OBVIOUS
    <3>2. Ordered(R)
      BY <1>2, <3>1
    <3>3. PICK r \in [1 .. c -> R] : Ascending(r)
      BY <3>2
    <3>4. c \in Nat
      BY <3>2, FS_CardinalityType
    <3>5. S = R \cup {n + 1} /\ n + 1 \notin R
      BY <2>2
    <3>6. IsFiniteSet(S) /\ Cardinality(S) = c + 1
      <4>1. IsFiniteSet(R \cup {n + 1}) /\ Cardinality(R \cup {n + 1}) = c + 1
        BY <3>2, <3>5, FS_AddElement
      <4>. QED
        BY <3>5, <4>1
    <3>. DEFINE q == [k \in 1 .. c + 1 |-> IF k = c + 1 THEN n + 1 ELSE r[k]]
    <3>a. \A k \in 1 .. c + 1 : k = c + 1 \/ k \in 1 .. c
      BY <3>4
    <3>b. \A k \in 1 .. c : r[k] \in R
      BY <3>3
    <3>7. q \in [1 .. c + 1 -> S]
      <4>1. \A k \in 1 .. c + 1 : (IF k = c + 1 THEN n + 1 ELSE r[k]) \in S
        BY <3>5, <3>a, <3>b
      <4>. QED
        BY <4>1
    <3>8. Ascending(q)
      <4>. SUFFICES ASSUME NEW j \in 1 .. c + 1, NEW k \in 1 .. c + 1, j < k
                    PROVE  q[j] < q[k]
        BY DEF Ascending
      <4>0. j \in 1 .. c /\ j # c + 1
        BY <3>4
      <4>1. q[j] = r[j] /\ r[j] \in 1 .. n
        <5>1. q[j] = r[j]
          BY <4>0
        <5>2. r[j] \in R
          BY <3>b, <4>0
        <5>. QED
          BY <3>1, <5>1, <5>2
      <4>2. CASE k = c + 1
        <5>1. q[k] = n + 1
          BY <4>2
        <5>. QED
          BY <4>1, <5>1
      <4>3. CASE k # c + 1
        <5>1. k \in 1 .. c /\ q[k] = r[k]
          BY <3>4, <4>3
        <5>. QED
          BY <3>3, <4>0, <4>1, <5>1 DEF Ascending
      <4>. QED
        BY <4>2, <4>3
    <3>. HIDE DEF q, c
    <3>. QED
      BY <3>6, <3>7, <3>8
  <2>. QED
    BY <2>1, <2>2
<1>3. Nat \subseteq T
  <2>. HIDE DEF T
  <2>. QED
    BY <1>1, <1>2, Induction
<1>. QED
  BY <1>3

\* A set of numbers in order: a sequence of each of its members once.
LEMMA InOrderVisitsAll ==
    ASSUME NEW n \in Nat, NEW S \in SUBSET (1 .. n)
    PROVE  /\ InOrder(S) \in Seq(S)
           /\ Distinct(InOrder(S))
           /\ Elements(InOrder(S)) = S
<1>. DEFINE q == InOrder(S)
            c == Cardinality(S)
<1>1. IsFiniteSet(S) /\ c \in Nat
  BY AscendingExists, FS_CardinalityType
<1>2. q \in [1 .. c -> S] /\ Ascending(q)
  <2>1. \E r \in [1 .. c -> S] : \A j, k \in DOMAIN r : j < k => r[j] < r[k]
    BY AscendingExists DEF Ascending
  <2>. QED
    BY <2>1 DEF InOrder, Ascending
<1>3. DOMAIN q = 1 .. c /\ S \subseteq Nat
  BY <1>2
<1>. HIDE DEF q, c
<1>4. ASSUME NEW j \in 1 .. c, NEW k \in 1 .. c, q[j] = q[k] PROVE j = k
  <2>1. q[j] \in S /\ q[k] \in S
    BY <1>2
  <2>2. q[j] \in Nat /\ q[k] \in Nat
    BY <1>3, <2>1
  <2>. QED
    BY <1>1, <1>2, <1>3, <1>4, <2>2 DEF Ascending
<1>5. q \in Injection(1 .. c, S)
  BY <1>2, <1>4, Fun_IsInj
<1>6. q \in Surjection(1 .. c, S)
  <2>1. Cardinality(1 .. c) = c
    BY <1>1, FS_Interval
  <2>. QED
    BY <1>1, <1>5, <2>1, FS_Injection DEF c
<1>7. \A i \in S : \E k \in 1 .. c : q[k] = i
  BY <1>6 DEF Surjection
<1>8. q \in Seq(S)
  BY <1>1, <1>2
<1>9. Distinct(q)
  BY <1>3, <1>4 DEF Distinct
<1>10. Elements(q) = S
  BY <1>2, <1>3, <1>7 DEF Elements
<1>. QED
  BY <1>8, <1>9, <1>10 DEF q

-----------------------------------------------------------------------------
(* Sequences that are visited from the front and grow at the end. *)

\* Visiting the first element leaves the others.
LEMMA VisitFirst ==
    ASSUME NEW S, NEW q \in Seq(S), q # <<>>
    PROVE  /\ Head(q) \in S /\ Tail(q) \in Seq(S)
           /\ Elements(q) = {Head(q)} \cup Elements(Tail(q))
           /\ Distinct(q) => Distinct(Tail(q)) /\ Head(q) \notin Elements(Tail(q))
<1>1. /\ Head(q) \in S /\ Tail(q) \in Seq(S)
      /\ Len(q) \in Nat \ {0} /\ DOMAIN q = 1 .. Len(q)
      /\ DOMAIN Tail(q) = 1 .. Len(q) - 1
      /\ Head(q) = q[1]
      /\ \A k \in 1 .. Len(q) - 1 : Tail(q)[k] = q[k + 1]
  OBVIOUS
<1>2. ASSUME NEW k \in DOMAIN q PROVE k = 1 \/ (k - 1 \in DOMAIN Tail(q) /\ Tail(q)[k - 1] = q[k])
  BY <1>1
<1>3. ASSUME NEW k \in DOMAIN Tail(q)
      PROVE  k + 1 \in DOMAIN q /\ k + 1 # 1 /\ Tail(q)[k] = q[k + 1]
  BY <1>1
<1>4. Elements(q) = {Head(q)} \cup Elements(Tail(q))
  BY <1>1, <1>2, <1>3 DEF Elements
<1>5. ASSUME Distinct(q) PROVE Distinct(Tail(q)) /\ Head(q) \notin Elements(Tail(q))
  <2>1. ASSUME NEW j \in DOMAIN Tail(q), NEW k \in DOMAIN Tail(q), Tail(q)[j] = Tail(q)[k]
        PROVE  j = k
    <3>1. j + 1 = k + 1
      BY <1>3, <1>5, <2>1 DEF Distinct
    <3>. QED
      BY <1>1, <3>1
  <2>2. ASSUME NEW k \in DOMAIN Tail(q) PROVE Tail(q)[k] # Head(q)
    <3>1. 1 \in DOMAIN q
      BY <1>1
    <3>. QED
      BY <1>1, <1>3, <1>5, <3>1 DEF Distinct
  <2>. QED
    BY <2>1, <2>2 DEF Distinct, Elements
<1>. QED
  BY <1>1, <1>4, <1>5

\* Keeping an element puts it behind those kept before.
LEMMA KeepLast ==
    ASSUME NEW S, NEW q \in Seq(S), NEW x
    PROVE  /\ x \in S => Append(q, x) \in Seq(S)
           /\ Append(q, x) \in Seq(S \cup {x})
           /\ Elements(Append(q, x)) = Elements(q) \cup {x}
           /\ Distinct(q) /\ x \notin Elements(q) => Distinct(Append(q, x))
<1>1. /\ x \in S => Append(q, x) \in Seq(S)
      /\ Append(q, x) \in Seq(S \cup {x})
  <2>1. q \in Seq(S \cup {x})
    OBVIOUS
  <2>. QED
    BY <2>1
<1>2. /\ Len(q) \in Nat /\ DOMAIN q = 1 .. Len(q)
      /\ DOMAIN Append(q, x) = 1 .. Len(q) + 1
      /\ Append(q, x)[Len(q) + 1] = x
      /\ \A k \in DOMAIN q : Append(q, x)[k] = q[k]
  <2>1. q \in Seq(S \cup {x}) /\ x \in S \cup {x}
    OBVIOUS
  <2>. QED
    BY <2>1
<1>3. \A k \in DOMAIN Append(q, x) : k \in DOMAIN q \/ k = Len(q) + 1
  BY <1>2
<1>4. Elements(Append(q, x)) = Elements(q) \cup {x}
  BY <1>2, <1>3 DEF Elements
<1>5. Distinct(q) /\ x \notin Elements(q) => Distinct(Append(q, x))
  BY <1>2, <1>3 DEF Elements, Distinct
<1>. QED
  BY <1>1, <1>4, <1>5

-----------------------------------------------------------------------------
(* Bought at the next open, whatever runs at the same time. *)

\* The signals an order of this session may be for.
Yesterday(day) == {i \in DOMAIN signals : signals[i].day + 1 = day}

SignalRows ==
    /\ \E S : signals \in Seq(S)
    /\ \A i \in DOMAIN signals : "day" \in DOMAIN signals[i]

\* Every order is for an exit, or for a signal at the session after it.
OrderDays ==
    \A x \in DOMAIN orders :
        /\ "day" \in DOMAIN orders[x]
        /\ \/ IsExit(x)
           \/ \E i \in DOMAIN signals : x = Entry(i) /\ orders[x].day = signals[i].day + 1

\* What the loops hand on are signals of the session before.
JobDays(j) ==
    /\ Fields(j)
    /\ j.phase = "queued" => j.kept = <<>>
    /\ j.phase \in {"fresh", "settle"} =>
           j.todo \in Seq(DOMAIN signals) /\ j.kept \in Seq(Yesterday(j.day))
    /\ j.phase \in {"price", "settlePriced"} =>
           j.todo \in Seq(Yesterday(j.day)) /\ j.kept \in Seq(Yesterday(j.day))
    /\ j.phase \in {"execute", "initialize", "initialized"} =>
           j.todo \in Seq(Yesterday(j.day))
    /\ j.phase \in {"settle", "settlePriced", "initialize", "initialized", "restore",
                    "restored"} => j.todo # <<>>
    /\ j.phase \in {"restore", "restored"} =>
           j.todo \in Seq(DOMAIN signals) /\ j.kept \in Seq(Yesterday(j.day))
    /\ j.phase \in {"reserve", "sell"} =>
           \/ IsExit(j.sale[1]) /\ "day" \in DOMAIN j.sale[2]
           \/ j.sale[1] \in DOMAIN orders

DayInv ==
    /\ SignalRows /\ OrderDays
    /\ job = [p \in Process |-> job[p]]
    /\ \A p \in Process : JobDays(job[p])

\* Signals are only added, and keep their session.
SignalsGrow ==
    /\ DOMAIN signals \subseteq DOMAIN signals'
    /\ \A i \in DOMAIN signals : signals'[i].day = signals[i].day

\* Completing a signal changes no session.
LEMMA CompleteGrows ==
    ASSUME SignalRows, NEW i, NEW status, Complete(i, status)
    PROVE  SignalRows' /\ SignalsGrow
<1>1. PICK S : signals \in Seq(S)
  BY DEF SignalRows
<1>2. PICK n \in Nat : n = Len(signals) /\ DOMAIN signals = 1 .. n
  BY <1>1
<1>3. /\ DOMAIN signals' = 1 .. n
      /\ \A k \in 1 .. n : /\ signals'[k].day = signals[k].day
                           /\ "day" \in DOMAIN signals'[k]
      /\ signals' = [k \in 1 .. n |-> signals'[k]]
  BY <1>2 DEF Complete, SignalRows
<1>4. signals' \in Seq({signals'[k] : k \in 1 .. n})
  <2>1. signals' \in [1 .. n -> {signals'[k] : k \in 1 .. n}]
    BY <1>3
  <2>. QED
    BY <2>1
<1>. QED
  BY <1>2, <1>3, <1>4 DEF SignalRows, SignalsGrow

\* Queueing a signal changes none that is queued.
LEMMA QueueGrows ==
    ASSUME SignalRows, NEW day, NEW s, NEW atr, Queue(day, s, atr)
    PROVE  SignalRows' /\ SignalsGrow
<1>1. PICK S : signals \in Seq(S)
  BY DEF SignalRows
<1>2. PICK r : r = [day |-> day, symbol |-> s, atr |-> atr, status |-> "PENDING"]
  OBVIOUS
<1>3. signals' = Append(signals, r) /\ "day" \in DOMAIN r
  BY <1>2 DEF Queue
<1>4. signals \in Seq(S \cup {r}) /\ r \in S \cup {r}
  BY <1>1
<1>5. signals' \in Seq(S \cup {r})
  BY <1>3, <1>4
<1>6. /\ DOMAIN signals' = DOMAIN signals \cup {Len(signals) + 1}
      /\ \A i \in DOMAIN signals : signals'[i] = signals[i]
      /\ signals'[Len(signals) + 1] = r
  BY <1>3, <1>4
<1>. QED
  BY <1>3, <1>5, <1>6 DEF SignalRows, SignalsGrow

\* Nothing said of a process by its signals is lost when signals and orders grow.
LEMMA JobDaysGrow ==
    ASSUME NEW j, JobDays(j), SignalsGrow, DOMAIN orders \subseteq DOMAIN orders'
    PROVE  JobDays(j)'
<1>1. ASSUME NEW q, NEW S, NEW T, q \in Seq(S), S \subseteq T PROVE q \in Seq(T)
  BY <1>1
<1>2. Yesterday(j.day) \subseteq Yesterday(j.day)'
  BY DEF Yesterday, SignalsGrow
<1>3. \A q : /\ q \in Seq(DOMAIN signals) => q \in Seq(DOMAIN signals')
             /\ q \in Seq(Yesterday(j.day)) => q \in Seq(Yesterday(j.day)')
  BY <1>1, <1>2 DEF SignalsGrow
<1>. QED
  BY <1>3 DEF JobDays

\* Two orders of the same terms are of the same session.
LEMMA TermsTellDay ==
    ASSUME NEW o, NEW q, OrderRecord(o), OrderRecord(q), Terms(o) = Terms(q),
           "day" \in DOMAIN o
    PROVE  "day" \in DOMAIN q /\ q.day = o.day
<1>1. DOMAIN Terms(o) = DOMAIN o /\ Terms(o).day = o.day
  BY DEF Terms
<1>2. DOMAIN Terms(q) = DOMAIN q
  BY DEF Terms
<1>3. "day" \in DOMAIN q
  BY <1>1, <1>2
<1>4. Terms(q).day = q.day
  BY <1>3 DEF Terms
<1>. QED
  BY <1>1, <1>3, <1>4

\* Stored orders keep their session; so only the one order a step adds matters.
LEMMA OrderDaysGrow ==
    ASSUME OrdersStored, OrdersStored', OrderDays, SignalsGrow, OrdersGrow,
           \A x \in DOMAIN orders' \ DOMAIN orders :
               /\ "day" \in DOMAIN orders'[x]
               /\ \/ IsExit(x)
                  \/ \E i \in DOMAIN signals : x = Entry(i)
                                               /\ orders'[x].day = signals[i].day + 1
    PROVE  OrderDays'
<1>. SUFFICES ASSUME NEW x \in DOMAIN orders'
              PROVE  /\ "day" \in DOMAIN orders'[x]
                     /\ \/ IsExit(x)
                        \/ \E i \in DOMAIN signals' :
                              x = Entry(i) /\ orders'[x].day = signals'[i].day + 1
  BY DEF OrderDays, IsExit, Entry
<1>1. CASE x \in DOMAIN orders
  <2>1. "day" \in DOMAIN orders'[x] /\ orders'[x].day = orders[x].day
    BY <1>1, TermsTellDay DEF OrdersStored, OrdersGrow, OrderDays
  <2>. QED
    BY <1>1, <2>1 DEF OrderDays, SignalsGrow
<1>2. CASE x \notin DOMAIN orders
  BY <1>2 DEF SignalsGrow
<1>. QED
  BY <1>1, <1>2

\* A process that starts again from nothing has nothing to visit.
LEMMA NoJobDays == JobDays(NoJob)
  BY DEF JobDays, NoJob, Fields

\* What a step of p leaves, apart from what is stored of orders.
DayStep(p) ==
    /\ SignalRows' /\ SignalsGrow
    /\ \E j : Become(p, j) /\ (DOMAIN orders \subseteq DOMAIN orders' => JobDays(j)')

\* A step of p that leaves the signals alone and ends with j.
LEMMA DayJob ==
    ASSUME SignalRows, NEW p, NEW j, Become(p, j), JobDays(j), UNCHANGED signals
    PROVE  DayStep(p)
<1>1. SignalRows' /\ SignalsGrow
  BY DEF SignalRows, SignalsGrow
<1>2. DOMAIN orders \subseteq DOMAIN orders' => JobDays(j)'
  BY <1>1, JobDaysGrow
<1>. QED
  BY <1>1, <1>2 DEF DayStep

\* A signal that has its result is not visited again.
LEMMA ResultDays ==
    ASSUME SignalRows, UNCHANGED signals, NEW p, JobDays(job[p]),
           job[p].phase \in {"execute", "initialize", "initialized"}, job[p].todo # <<>>,
           NEW j, Fields(j), j.todo = job[p].todo, j.day = job[p].day,
           NEW status, Result(p, j, status)
    PROVE  DayStep(p)
<1>. DEFINE k == [j EXCEPT !.phase = "execute", !.verdict = "", !.todo = Tail(@),
                           !.kept = Append(@, <<First(p), status>>)]
<1>1. Become(p, k)
  BY DEF Result
<1>2. Fields(k) /\ k.phase = "execute" /\ k.day = j.day /\ k.todo = Tail(j.todo)
  BY DEF Fields
<1>3. Tail(j.todo) \in Seq(Yesterday(j.day))
  BY VisitFirst DEF JobDays
<1>. HIDE DEF k
<1>4. JobDays(k)
  BY <1>2, <1>3 DEF JobDays
<1>. QED
  BY <1>1, <1>4, DayJob

\* The first half of a run hands on signals of the session before only.
LEMMA LoopDays ==
    ASSUME SignalRows, NEW p, JobDays(job[p]),
           \/ LoadPending(p) \/ CheckFreshness(p) \/ PriceSignal(p) \/ SkipSignal(p)
           \/ EndLoop(p) \/ RestoreLifecycle(p) \/ MarkRestored(p)
    PROVE  DayStep(p)
<1>. PICK j : j = job[p]
  OBVIOUS
<1>0. JobDays(j) /\ Fields(j)
  BY DEF JobDays
<1>1. CASE LoadPending(p)
  <2>. PICK due : due = PendingBefore(j.day)
    OBVIOUS
  <2>. DEFINE k == [j EXCEPT !.todo = due, !.pin = today,
                             !.phase = IF due = <<>> THEN "load" ELSE "fresh"]
  <2>1. Become(p, k) /\ UNCHANGED signals /\ j.phase = "queued"
    BY <1>1 DEF LoadPending, Local, storeVars, At
  <2>2. due \in Seq(DOMAIN signals)
    <3>1. PICK n \in Nat : DOMAIN signals = 1 .. n
      BY DEF SignalRows
    <3>2. Outstanding(j.day) \in SUBSET (1 .. n)
      BY <3>1 DEF Outstanding
    <3>3. due \in Seq(Outstanding(j.day))
      BY <3>2, InOrderVisitsAll DEF PendingBefore
    <3>. QED
      BY <3>1, <3>2, <3>3
  <2>3. /\ Fields(k) /\ k.phase \in {"load", "fresh"} /\ k.todo = due /\ k.kept = <<>>
    BY <1>0, <2>1 DEF Fields, JobDays
  <2>4. JobDays(k)
    <3>. HIDE DEF k
    <3>. QED
      BY <2>2, <2>3 DEF JobDays
  <2>. HIDE DEF k
  <2>. QED
    BY <2>1, <2>4, DayJob
<1>2. CASE CheckFreshness(p)
  <2>1. /\ j.phase = "fresh" /\ j.todo # <<>> /\ UNCHANGED signals
        /\ j.todo \in Seq(DOMAIN signals) /\ j.kept \in Seq(Yesterday(j.day))
    BY <1>0, <1>2 DEF CheckFreshness, Local, storeVars, At, JobDays
  <2>2. ASSUME NEW k, Become(p, k), Fields(k), k.todo = j.todo, k.kept = j.kept,
               k.day = j.day, k.phase \in {"settle", "restore"}
        PROVE  DayStep(p)
    <3>1. JobDays(k)
      BY <2>1, <2>2 DEF JobDays
    <3>. QED
      BY <2>1, <2>2, <3>1, DayJob
  <2>3. ASSUME NEW status, Settle(p, status) PROVE DayStep(p)
    BY <1>0, <2>2, <2>3 DEF Settle, Fields
  <2>4. CASE Executed(p)
    BY <1>0, <2>2, <2>3, <2>4 DEF Executed, Fields
  <2>5. CASE Due(p) /\ ~Settle(p, "REJECTED")
    <3>. DEFINE k == [j EXCEPT !.todo = Tail(@), !.kept = Append(@, Head(j.todo))]
    <3>1. Become(p, k) /\ j.day = signals[Head(j.todo)].day + 1
      BY <2>5 DEF Due, Keep, First
    <3>2. /\ Fields(k) /\ k.phase = "fresh" /\ k.day = j.day
          /\ k.todo = Tail(j.todo) /\ k.kept = Append(j.kept, Head(j.todo))
      BY <1>0, <2>1 DEF Fields
    <3>3. Head(j.todo) \in Yesterday(j.day) /\ Tail(j.todo) \in Seq(DOMAIN signals)
      BY <2>1, <3>1, VisitFirst DEF Yesterday
    <3>4. Append(j.kept, Head(j.todo)) \in Seq(Yesterday(j.day))
      BY <2>1, <3>3, KeepLast
    <3>. HIDE DEF k
    <3>5. JobDays(k)
      BY <3>2, <3>3, <3>4 DEF JobDays
    <3>. QED
      BY <2>1, <3>1, <3>5, DayJob
  <2>. QED
    BY <1>2, <2>3, <2>4, <2>5 DEF CheckFreshness, Refused, Missed
<1>3. CASE PriceSignal(p)
  <2>1. /\ j.phase = "price" /\ j.todo # <<>> /\ UNCHANGED signals
        /\ j.todo \in Seq(Yesterday(j.day)) /\ j.kept \in Seq(Yesterday(j.day))
    BY <1>0, <1>3 DEF PriceSignal, Local, storeVars, At, JobDays
  <2>2. CASE SettlePriced(p, "REJECTED")
    <3>. DEFINE k == [j EXCEPT !.phase = "settlePriced", !.verdict = "REJECTED"]
    <3>1. Become(p, k)
      BY <2>2 DEF SettlePriced
    <3>2. /\ Fields(k) /\ k.phase = "settlePriced" /\ k.day = j.day
          /\ k.todo = j.todo /\ k.kept = j.kept
      BY <1>0 DEF Fields
    <3>. HIDE DEF k
    <3>3. JobDays(k)
      BY <2>1, <3>2 DEF JobDays
    <3>. QED
      BY <2>1, <3>1, <3>3, DayJob
  <2>3. CASE Abort(p)
    BY <2>1, <2>3, NoJobDays, DayJob DEF Abort
  <2>4. CASE Keep(p, First(p))
    <3>. DEFINE k == [j EXCEPT !.todo = Tail(@), !.kept = Append(@, Head(j.todo))]
    <3>1. Become(p, k)
      BY <2>4 DEF Keep, First
    <3>2. /\ Fields(k) /\ k.phase = "price" /\ k.day = j.day
          /\ k.todo = Tail(j.todo) /\ k.kept = Append(j.kept, Head(j.todo))
      BY <1>0, <2>1 DEF Fields
    <3>3. Head(j.todo) \in Yesterday(j.day) /\ Tail(j.todo) \in Seq(Yesterday(j.day))
      BY <2>1, VisitFirst
    <3>4. Append(j.kept, Head(j.todo)) \in Seq(Yesterday(j.day))
      BY <2>1, <3>3, KeepLast
    <3>. HIDE DEF k
    <3>5. JobDays(k)
      BY <3>2, <3>3, <3>4 DEF JobDays
    <3>. QED
      BY <2>1, <3>1, <3>5, DayJob
  <2>. QED
    BY <1>3, <2>2, <2>3, <2>4 DEF PriceSignal
<1>4. CASE SkipSignal(p)
  BY <1>0, <1>4, ResultDays DEF SkipSignal, At, Local, storeVars
<1>5. CASE EndLoop(p)
  <2>. PICK next : /\ NextLoop(p, next)
                   /\ <<j.phase, next>> \in {<<"fresh", "price">>, <<"price", "execute">>,
                                  <<"execute", "complete">>, <<"complete", "load">>}
    BY <1>5 DEF EndLoop, At
  <2>. DEFINE k == [j EXCEPT !.phase = next, !.todo = j.kept, !.kept = <<>>]
  <2>1. Become(p, k) /\ UNCHANGED signals
    BY DEF NextLoop, Local, storeVars
  <2>2. /\ Fields(k) /\ k.phase = next /\ k.day = j.day
        /\ k.todo = j.kept /\ k.kept = <<>>
    BY <1>0 DEF Fields
  <2>3. next \in {"price", "execute"} => j.kept \in Seq(Yesterday(j.day))
    BY <1>0 DEF JobDays
  <2>4. next \in {"price", "execute", "complete", "load"}
    OBVIOUS
  <2>. HIDE DEF k
  <2>5. JobDays(k)
    BY <2>2, <2>3, <2>4 DEF JobDays
  <2>. QED
    BY <2>1, <2>5, DayJob
<1>6. CASE RestoreLifecycle(p)
  <2>. DEFINE k == [j EXCEPT !.phase = "restored", !.row = NoRow]
  <2>1. Become(p, k) /\ UNCHANGED signals /\ j.phase = "restore"
    BY <1>6 DEF RestoreLifecycle, At
  <2>2. /\ Fields(k) /\ k.phase = "restored" /\ k.day = j.day
        /\ k.todo = j.todo /\ k.kept = j.kept
    BY <1>0 DEF Fields
  <2>. HIDE DEF k
  <2>3. JobDays(k)
    BY <1>0, <2>1, <2>2 DEF JobDays
  <2>. QED
    BY <2>1, <2>3, DayJob
<1>7. CASE MarkRestored(p)
  <2>. DEFINE k == [j EXCEPT !.phase = "settle", !.verdict = "ALREADY_EXECUTED"]
  <2>1. Become(p, k) /\ UNCHANGED signals /\ j.phase = "restored"
    BY <1>7 DEF MarkRestored, Settle, At
  <2>2. /\ Fields(k) /\ k.phase = "settle" /\ k.day = j.day
        /\ k.todo = j.todo /\ k.kept = j.kept
    BY <1>0 DEF Fields
  <2>. HIDE DEF k
  <2>3. JobDays(k)
    BY <1>0, <2>1, <2>2 DEF JobDays
  <2>. QED
    BY <2>1, <2>3, DayJob
<1>. QED
  BY <1>1, <1>2, <1>3, <1>4, <1>5, <1>6, <1>7

\* A step of p that keeps the sessions of the signals and ends with j.
LEMMA DayMove ==
    ASSUME SignalRows', SignalsGrow, NEW p, NEW j, Become(p, j), JobDays(j)
    PROVE  DayStep(p)
  BY JobDaysGrow DEF DayStep

\* A process that visits no signals and sells nothing.
LEMMA IdleDays ==
    ASSUME NEW j, Fields(j), j.phase \in {"complete", "load", "manage", "hold", "update"}
    PROVE  JobDays(j)
  BY DEF JobDays

\* Orders and initialized positions are of signals of the session before.
LEMMA EntryDays ==
    ASSUME SignalRows, NEW p, JobDays(job[p]),
           \/ SettleSignal(p) \/ CompleteSignal(p) \/ RejectEntry(p) \/ FillEntry(p)
           \/ FindEntry(p) \/ InitializePosition(p) \/ MarkEntry(p)
    PROVE  DayStep(p)
<1>. PICK j : j = job[p]
  OBVIOUS
<1>0. JobDays(j) /\ Fields(j)
  BY DEF JobDays
<1>1. CASE SettleSignal(p)
  <2>. PICK next : next = (IF j.phase = "settle" THEN "fresh" ELSE "price")
    OBVIOUS
  <2>. DEFINE k == [j EXCEPT !.phase = next, !.todo = Tail(@), !.verdict = ""]
  <2>1. Become(p, k) /\ Complete(First(p), j.verdict) /\ j.phase \in {"settle", "settlePriced"}
    BY <1>1 DEF SettleSignal
  <2>2. SignalRows' /\ SignalsGrow
    BY <2>1, CompleteGrows
  <2>3. /\ Fields(k) /\ k.phase = next /\ k.day = j.day
        /\ k.todo = Tail(j.todo) /\ k.kept = j.kept
    BY <1>0 DEF Fields
  <2>4. /\ j.todo \in Seq(DOMAIN signals) => Tail(j.todo) \in Seq(DOMAIN signals)
        /\ j.todo \in Seq(Yesterday(j.day)) => Tail(j.todo) \in Seq(Yesterday(j.day))
    BY <1>0, <2>1, VisitFirst DEF JobDays
  <2>. HIDE DEF k
  <2>5. JobDays(k)
    BY <1>0, <2>1, <2>3, <2>4 DEF JobDays
  <2>. QED
    BY <2>1, <2>2, <2>5, DayMove
<1>2. CASE CompleteSignal(p)
  <2>. DEFINE k == [j EXCEPT !.todo = Tail(@)]
  <2>1. Become(p, k) /\ Complete(First(p)[1], First(p)[2]) /\ j.phase = "complete"
    BY <1>2 DEF CompleteSignal, At
  <2>2. SignalRows' /\ SignalsGrow
    BY <2>1, CompleteGrows
  <2>3. Fields(k) /\ k.phase = "complete"
    BY <1>0, <2>1 DEF Fields
  <2>. HIDE DEF k
  <2>. QED
    BY <2>1, <2>2, <2>3, DayMove, IdleDays
<1>3. CASE RejectEntry(p)
  BY <1>0, <1>3, ResultDays, NoJobDays, DayJob DEF RejectEntry, At, Abort
<1>4. CASE FillEntry(p)
  <2>0. j.phase = "execute" /\ j.todo # <<>> /\ UNCHANGED signals
    BY <1>4 DEF FillEntry, At, SaveEntry, storeVars
  <2>1. CASE Abort(p)
    BY <2>0, <2>1, NoJobDays, DayJob DEF Abort
  <2>2. CASE ~Abort(p)
    <3>1. PICK count, row, mem : Become(p, [j EXCEPT
              !.phase = "initialize", !.verdict = "FILLED", !.count = count,
              !.row = row, !.mem = mem])
      BY <1>4, <2>2 DEF FillEntry
    <3>. DEFINE k == [j EXCEPT !.phase = "initialize", !.verdict = "FILLED",
                               !.count = count, !.row = row, !.mem = mem]
    <3>2. Fields(k) /\ k.phase = "initialize" /\ k.day = j.day /\ k.todo = j.todo
      BY <1>0 DEF Fields
    <3>. HIDE DEF k
    <3>3. JobDays(k)
      BY <1>0, <2>0, <3>2 DEF JobDays
    <3>. QED
      BY <2>0, <3>1, <3>3, DayJob DEF k
  <2>. QED
    BY <2>1, <2>2
<1>5. CASE FindEntry(p)
  <2>0. j.phase = "execute" /\ j.todo # <<>> /\ UNCHANGED signals
    BY <1>5 DEF FindEntry, At, Local, storeVars
  <2>. DEFINE fresh == [j EXCEPT !.mem = portfolio]
              found == [fresh EXCEPT !.count = @ + 1]
  <2>1. /\ Fields(fresh) /\ fresh.todo = j.todo /\ fresh.day = j.day
        /\ Fields(found) /\ found.todo = j.todo /\ found.day = j.day
    BY <1>0 DEF Fields
  <2>2. \/ \E status : Result(p, j, status) \/ Result(p, fresh, status)
                       \/ Result(p, found, status)
        \/ \E count, row : Become(p, [fresh EXCEPT
                  !.phase = "initialize", !.verdict = "ALREADY_EXECUTED",
                  !.count = count, !.row = row])
    BY <1>5 DEF FindEntry
  <2>3. ASSUME NEW status, Result(p, j, status) \/ Result(p, fresh, status)
                           \/ Result(p, found, status)
        PROVE  DayStep(p)
    <3>. HIDE DEF fresh, found
    <3>. QED
      BY <1>0, <2>0, <2>1, <2>3, ResultDays
  <2>4. ASSUME NEW count, NEW row,
               Become(p, [fresh EXCEPT !.phase = "initialize",
                          !.verdict = "ALREADY_EXECUTED", !.count = count, !.row = row])
        PROVE  DayStep(p)
    <3>. DEFINE k == [fresh EXCEPT !.phase = "initialize", !.verdict = "ALREADY_EXECUTED",
                                   !.count = count, !.row = row]
    <3>1. Fields(k) /\ k.phase = "initialize" /\ k.day = j.day /\ k.todo = j.todo
      BY <1>0 DEF Fields
    <3>. HIDE DEF k
    <3>2. JobDays(k)
      BY <1>0, <2>0, <3>1 DEF JobDays
    <3>. QED
      BY <2>0, <2>4, <3>2, DayJob DEF k
  <2>. QED
    BY <2>2, <2>3, <2>4
<1>6. CASE InitializePosition(p)
  <2>. DEFINE k == [j EXCEPT !.phase = "initialized", !.row = NoRow]
  <2>1. Become(p, k) /\ UNCHANGED signals /\ j.phase = "initialize"
    BY <1>6 DEF InitializePosition, At
  <2>2. /\ Fields(k) /\ k.phase = "initialized" /\ k.day = j.day /\ k.todo = j.todo
    BY <1>0 DEF Fields
  <2>. HIDE DEF k
  <2>3. JobDays(k)
    BY <1>0, <2>1, <2>2 DEF JobDays
  <2>. QED
    BY <2>1, <2>3, DayJob
<1>7. CASE MarkEntry(p)
  <2>1. /\ j.phase = "initialized" /\ UNCHANGED signals /\ Result(p, j, j.verdict)
        /\ j.todo # <<>>
    BY <1>0, <1>7 DEF MarkEntry, At, JobDays
  <2>. QED
    BY <1>0, <2>1, ResultDays
<1>. QED
  BY <1>1, <1>2, <1>3, <1>4, <1>5, <1>6, <1>7

\* The manager sells what has an order, or under the intent of an exit.
LEMMA ManageDays ==
    ASSUME OrdersStored, SignalRows, NEW p, JobOK(job[p], DOMAIN orders), JobDays(job[p]),
           LifecycleStep(p)
    PROVE  DayStep(p)
<1>. PICK j : j = job[p]
  OBVIOUS
<1>0. JobDays(j) /\ Fields(j)
  BY DEF JobDays
<1>1. UNCHANGED signals
  BY DEF LifecycleStep, LoadPositions, EvaluatePosition, SaveHold, FindExit, ReserveSale,
         FillExit, SaveExit, FinishRun, Local, storeVars
<1>2. ASSUME NEW k, Become(p, k), Fields(k), k.phase \in {"manage", "hold"}
      PROVE  DayStep(p)
  BY <1>1, <1>2, IdleDays, DayJob
<1>3. ASSUME Abort(p) PROVE DayStep(p)
  BY <1>1, <1>3, NoJobDays, DayJob DEF Abort
<1>4. ASSUME NEW s PROVE Fields(Done(p, s)) /\ Done(p, s).phase = "manage"
  BY <1>0 DEF Done, Fields
<1>5. CASE LoadPositions(p)
  <2>. DEFINE k == [NoJob EXCEPT
           !.phase = "manage", !.day = job[p].day, !.mem = portfolio, !.pin = today,
           !.list = portfolio.position,
           !.held = {s \in Symbol : Holds(portfolio, s)}, !.sells = OpenSells]
  <2>1. Become(p, k)
    BY <1>5 DEF LoadPositions
  <2>2. Fields(k) /\ k.phase = "manage"
    BY DEF NoJob, Fields
  <2>. HIDE DEF k
  <2>. QED
    BY <1>2, <2>1, <2>2
<1>6. CASE EvaluatePosition(p)
  <2>1. PICK s \in j.held :
            SkipPosition(p, s) \/ Resume(p, s) \/ HoldPosition(p, s) \/ DecideExit(p, s)
    BY <1>6 DEF EvaluatePosition
  <2>2. CASE SkipPosition(p, s)
    BY <1>2, <1>4, <2>2 DEF SkipPosition
  <2>3. ASSUME NEW sale, \/ sale[1] \in DOMAIN orders
                         \/ IsExit(sale[1]) /\ "day" \in DOMAIN sale[2],
               Become(p, [j EXCEPT !.phase = "reserve", !.sale = sale])
        PROVE  DayStep(p)
    <3>. DEFINE k == [j EXCEPT !.phase = "reserve", !.sale = sale]
    <3>1. Fields(k) /\ k.phase = "reserve" /\ k.sale = sale
      BY <1>0 DEF Fields
    <3>. HIDE DEF k
    <3>2. JobDays(k)
      BY <2>3, <3>1 DEF JobDays
    <3>. QED
      BY <1>1, <2>3, <3>2, DayJob DEF k
  <2>4. CASE Resume(p, s)
    <3>1. PICK x \in SellsOf(p, s) :
              Become(p, [j EXCEPT !.phase = "reserve", !.sale = <<x, orders[x]>>])
      BY <2>4 DEF Resume
    <3>2. x \in DOMAIN orders
      BY DEF SellsOf, JobOK
    <3>. QED
      BY <2>3, <3>1, <3>2
  <2>5. CASE HoldPosition(p, s)
    <3>. PICK row : row = NextRow(p, s)
      OBVIOUS
    <3>. DEFINE k == [j EXCEPT !.phase = "hold", !.row = row, !.sale = <<s>>]
    <3>1. Become(p, k)
      BY <2>5 DEF HoldPosition
    <3>2. Fields(k) /\ k.phase = "hold"
      BY <1>0 DEF Fields
    <3>. HIDE DEF k
    <3>. QED
      BY <1>2, <3>1, <3>2
  <2>6. CASE DecideExit(p, s) /\ ~Abort(p)
    <3>. PICK o : o = SellOrder(p, s)
      OBVIOUS
    <3>1. PICK day, qty, reason : Become(p, [j EXCEPT
              !.phase = "reserve", !.sale = <<ExitOf(lifecycle[s], day, qty, reason), o>>])
      BY <2>6 DEF DecideExit
    <3>2. IsExit(ExitOf(lifecycle[s], day, qty, reason))
      BY DEF IsExit, ExitOf
    <3>3. "day" \in DOMAIN o
      BY DEF SellOrder
    <3>. QED
      BY <2>3, <3>1, <3>2, <3>3
  <2>. QED
    BY <1>3, <2>1, <2>2, <2>4, <2>5, <2>6
<1>7. CASE SaveHold(p)
  BY <1>2, <1>3, <1>4, <1>7 DEF SaveHold
<1>8. ASSUME NEW phase, FindExit(p, phase) PROVE DayStep(p)
  <2>. PICK k : k = Done(p, SaleOf(p).symbol)
    OBVIOUS
  <2>1. Become(p, [k EXCEPT !.mem = portfolio, !.sells = OpenSells])
    BY <1>8 DEF FindExit
  <2>2. /\ Fields([k EXCEPT !.mem = portfolio, !.sells = OpenSells])
        /\ [k EXCEPT !.mem = portfolio, !.sells = OpenSells].phase = "manage"
    BY <1>4 DEF Fields
  <2>. QED
    BY <1>2, <2>1, <2>2
<1>9. CASE ReserveSale(p)
  <2>1. CASE Become(p, Done(p, SaleOf(p).symbol)) \/ Abort(p)
    BY <1>2, <1>3, <1>4, <2>1
  <2>2. CASE Become(p, [j EXCEPT !.phase = "sell"])
    <3>. DEFINE k == [j EXCEPT !.phase = "sell"]
    <3>1. Fields(k) /\ k.phase = "sell" /\ k.sale = j.sale /\ j.phase = "reserve"
      BY <1>0, <1>9 DEF Fields, ReserveSale, At
    <3>. HIDE DEF k
    <3>2. JobDays(k)
      BY <1>0, <3>1 DEF JobDays
    <3>. QED
      BY <1>1, <2>2, <3>2, DayJob DEF k
  <2>. QED
    BY <1>9, <2>1, <2>2 DEF ReserveSale, RefuseSale
<1>10. CASE FillExit(p)
  <2>. PICK k, mem : k = Done(p, SaleOf(p).symbol) /\ Become(p, [k EXCEPT !.mem = mem])
    BY <1>10 DEF FillExit
  <2>1. Fields([k EXCEPT !.mem = mem]) /\ [k EXCEPT !.mem = mem].phase = "manage"
    BY <1>4 DEF Fields
  <2>. QED
    BY <1>2, <2>1
<1>11. CASE FinishRun(p)
  BY <1>3, <1>11 DEF FinishRun, Abort
<1>. QED
  BY <1>5, <1>6, <1>7, <1>8, <1>9, <1>10, <1>11 DEF LifecycleStep

\* An order that a step adds is of an exit, or of a signal of the session before.
LEMMA AddedOrderDays ==
    ASSUME OrdersStored, NEW p, JobDays(job[p]), JobOK(job[p], DOMAIN orders), RunStep(p),
           NEW x \in DOMAIN orders', x \notin DOMAIN orders
    PROVE  /\ "day" \in DOMAIN orders'[x]
           /\ \/ IsExit(x)
              \/ \E i \in DOMAIN signals : x = Entry(i)
                                           /\ orders'[x].day = signals[i].day + 1
<1>1. ASSUME job[p].phase = "execute", job[p].todo # <<>>, x = Entry(First(p)),
             NEW qty, NEW status,
             orders'[x] = [BuyOrder(p, qty) EXCEPT !.status = status]
      PROVE  /\ "day" \in DOMAIN orders'[x]
             /\ \E i \in DOMAIN signals : x = Entry(i)
                                          /\ orders'[x].day = signals[i].day + 1
  <2>1. First(p) \in Yesterday(job[p].day)
    BY <1>1, VisitFirst DEF First, JobDays
  <2>2. "day" \in DOMAIN orders'[x] /\ orders'[x].day = job[p].day
    BY <1>1 DEF BuyOrder
  <2>. QED
    BY <1>1, <2>1, <2>2 DEF Yesterday
<1>2. CASE RejectEntry(p)
  <2>1. PICK qty \in Quantity :
            InsertOrder(Entry(First(p)), [BuyOrder(p, qty) EXCEPT !.status = "REJECTED"])
    BY <1>2 DEF RejectEntry
  <2>2. x = Entry(First(p)) /\ orders'[x] = [BuyOrder(p, qty) EXCEPT !.status = "REJECTED"]
    BY <2>1 DEF InsertOrder
  <2>. QED
    BY <1>1, <1>2, <2>2 DEF RejectEntry, At
<1>3. CASE FillEntry(p)
  <2>1. PICK qty \in Quantity :
            SaveEntry(First(p), BuyOrder(p, qty), job[p].mem)
    BY <1>3 DEF FillEntry, storeVars
  <2>2. x = Entry(First(p)) /\ orders'[x] = [BuyOrder(p, qty) EXCEPT !.status = "FILLED"]
    BY <2>1 DEF SaveEntry, FillOrder
  <2>. QED
    BY <1>1, <1>3, <2>2 DEF FillEntry, At
<1>4. CASE ReserveSale(p)
  <2>1. x = Intent(p) /\ IsExit(x) /\ "day" \in DOMAIN SaleOf(p)
    BY <1>4 DEF ReserveSale, RefuseSale, InsertOrder, ReserveExit, At, JobDays, Intent, SaleOf
  <2>2. orders'[x] = SaleOf(p) \/ orders'[x] = [SaleOf(p) EXCEPT !.status = "REJECTED"]
    BY <1>4 DEF ReserveSale, RefuseSale, InsertOrder, ReserveExit
  <2>. QED
    BY <2>1, <2>2
<1>5. CASE FillExit(p)
  <2>1. Status(Intent(p)) = "ACCEPTED" /\ x = Intent(p)
    BY <1>5 DEF FillExit, SaveExit, FillOrder
  <2>. QED
    BY <2>1, NoneIsNew
<1>6. CASE UNCHANGED orders
  BY <1>6
<1>7. CASE ExecutionStep(p) /\ ~RejectEntry(p) /\ ~FillEntry(p)
  BY <1>6, <1>7, ExecutionQuiet DEF ExecutionStep, Quiet, KeepsIntents
<1>8. CASE LifecycleStep(p) /\ ~ReserveSale(p) /\ ~FillExit(p)
  BY <1>6, <1>8, LifecycleQuiet DEF LifecycleStep, Quiet, KeepsIntents
<1>. QED
  BY <1>2, <1>3, <1>4, <1>5, <1>7, <1>8 DEF RunStep

\* The sessions hold at first,
LEMMA DayInvInit == Init => DayInv
<1>. SUFFICES ASSUME Init PROVE DayInv
  OBVIOUS
<1>1. /\ orders = <<>> /\ signals = <<>>
      /\ job = [p \in Process |-> NoJob]
  BY DEF Init, StoreInit
<1>2. signals \in Seq({})
  BY <1>1
<1>. QED
  BY <1>1, <1>2, NoJobDays DEF DayInv, SignalRows, OrderDays

\* and every step keeps them.
LEMMA DayInvNext ==
    ASSUME IntentInv, DayInv, [Next]_paperVars
    PROVE  DayInv'
<1>0. OrdersStored /\ JobsOK /\ IntentInv' /\ OrdersStored' /\ OrdersGrow
      /\ SignalRows /\ OrderDays /\ DOMAIN orders \subseteq DOMAIN orders'
  BY IntentInvNext DEF IntentInv, DayInv, OrdersGrow
<1>1. ASSUME SignalRows', SignalsGrow, OrderDays', UNCHANGED job
      PROVE  DayInv'
  <2>1. ASSUME NEW p \in Process PROVE JobDays(job[p])'
    <3>1. PICK j : j = job[p] /\ j = job'[p]
      BY <1>1
    <3>2. JobDays(j)'
      BY <1>0, <1>1, <3>1, JobDaysGrow DEF DayInv
    <3>. QED
      BY <3>1, <3>2 DEF JobDays, Fields, Yesterday, IsExit
  <2>. QED
    BY <1>1, <2>1 DEF DayInv
<1>2. ASSUME NEW p \in Process, DayStep(p), OrderDays' PROVE DayInv'
  <2>1. PICK j : Become(p, j) /\ JobDays(j)'
    BY <1>0, <1>2 DEF DayStep
  <2>2. SignalRows' /\ SignalsGrow
    BY <1>2 DEF DayStep
  <2>3. /\ job' = [q \in Process |-> job'[q]] /\ job'[p] = j
        /\ \A q \in Process : q # p => job'[q] = job[q]
    BY <2>1 DEF Become, DayInv
  <2>4. ASSUME NEW q \in Process PROVE JobDays(job[q])'
    <3>1. PICK k : k = job'[q]
      OBVIOUS
    <3>2. CASE q = p
      <4>1. k = j
        BY <2>3, <3>1, <3>2
      <4>. QED
        BY <2>1, <3>1, <4>1 DEF JobDays, Fields, Yesterday, IsExit
    <3>3. CASE q # p
      <4>1. JobDays(k)
        BY <2>3, <3>1, <3>3 DEF DayInv
      <4>2. JobDays(k)'
        BY <1>0, <2>2, <4>1, JobDaysGrow
      <4>. QED
        BY <3>1, <4>2 DEF JobDays, Fields, Yesterday, IsExit
    <3>. QED
      BY <3>2, <3>3
  <2>. QED
    BY <1>2, <2>2, <2>3, <2>4 DEF DayInv
<1>3. ASSUME SignalRows', SignalsGrow, UNCHANGED orders PROVE OrderDays'
  BY <1>0, <1>3, OrderDaysGrow
<1>4. CASE OpenSession \/ UNCHANGED paperVars
  <2>1. UNCHANGED <<signals, orders, job>>
    BY <1>4 DEF OpenSession, paperVars, storeVars
  <2>2. SignalRows' /\ SignalsGrow
    BY <1>0, <2>1 DEF SignalRows, SignalsGrow
  <2>. QED
    BY <1>1, <1>3, <2>1, <2>2
<1>5. CASE QueueSignal
  <2>1. UNCHANGED <<orders, job>>
    BY <1>5 DEF QueueSignal
  <2>2. SignalRows' /\ SignalsGrow
    BY <1>0, <1>5, QueueGrows DEF QueueSignal
  <2>. QED
    BY <1>1, <1>3, <2>1, <2>2
<1>6. ASSUME NEW p \in Process, StartRun(p) \/ StartUpdate(p) \/ Crash(p)
      PROVE  DayInv'
  <2>1. UNCHANGED <<signals, orders>>
    BY <1>6 DEF StartRun, StartUpdate, Crash, storeVars
  <2>2. ASSUME NEW j, Become(p, j), JobDays(j) PROVE DayInv'
    <3>1. SignalRows' /\ SignalsGrow
      BY <1>0, <2>1 DEF SignalRows, SignalsGrow
    <3>. QED
      BY <1>0, <1>2, <1>3, <2>1, <2>2, <3>1, DayJob
  <2>3. JobDays([NoJob EXCEPT !.phase = "queued", !.day = today, !.mem = portfolio])
    BY DEF JobDays, NoJob, Fields
  <2>4. JobDays([NoJob EXCEPT !.phase = "update", !.day = today, !.mem = portfolio])
    BY DEF JobDays, NoJob, Fields
  <2>. QED
    BY <1>6, <2>2, <2>3, <2>4, NoJobDays DEF StartRun, StartUpdate, Crash
<1>7. ASSUME NEW p \in Process, RunStep(p) PROVE DayInv'
  <2>1. JobDays(job[p]) /\ JobOK(job[p], DOMAIN orders)
    BY <1>0 DEF DayInv, JobsOK
  <2>2. DayStep(p)
    BY <1>0, <1>7, <2>1, LoopDays, EntryDays, ManageDays DEF RunStep, ExecutionStep
  <2>3. OrderDays'
    <3>1. SignalsGrow
      BY <2>2 DEF DayStep
    <3>. QED
      BY <1>0, <1>7, <2>1, <3>1, OrderDaysGrow, AddedOrderDays
  <2>. QED
    BY <1>2, <2>2, <2>3
<1>. QED
  BY <1>4, <1>5, <1>6, <1>7 DEF Next

\* The session of an order is told by its signal.
LEMMA DaysGiveOpen == OrdersStored /\ DayInv => BoughtAtNextOpen
<1>. SUFFICES ASSUME DayInv, OrdersStored, NEW i \in DOMAIN signals,
                     Status(Entry(i)) = "FILLED"
              PROVE  orders[Entry(i)].day = signals[i].day + 1
  BY DEF BoughtAtNextOpen
<1>1. Entry(i) \in DOMAIN orders
  BY NoneIsNew
<1>2. ~IsExit(Entry(i))
  BY DEF IsExit, Entry
<1>3. \A k : Entry(k) = Entry(i) => k = i
  BY DEF Entry
<1>. QED
  BY <1>1, <1>2, <1>3 DEF DayInv, OrderDays

\* However many processes run, crash and rerun, nothing is bought at any other
\* open than that of the session after its signal.
THEOREM AlwaysBoughtAtNextOpen == Spec => []BoughtAtNextOpen
<1>1. Init => IntentInv /\ DayInv
  BY IntentInvInit, DayInvInit
<1>2. IntentInv /\ DayInv /\ [Next]_paperVars => IntentInv' /\ DayInv'
  BY IntentInvNext, DayInvNext
<1>3. IntentInv /\ DayInv => BoughtAtNextOpen
  BY DaysGiveOpen DEF IntentInv
<1>. QED
  BY <1>1, <1>2, <1>3, PTL DEF Spec

-----------------------------------------------------------------------------
(* What the tables of one process at a time say of intents. *)

\* The intent of an entry is no intent of an exit, and tells its signal.
LEMMA EntryIntents ==
    ASSUME NEW i
    PROVE  ~IsExit(Entry(i)) /\ \A k : Entry(k) = Entry(i) => k = i
  BY DEF IsExit, Entry

\* An order under the intent of a signal is the order of that signal.
LEMMA EntryOrder ==
    ASSUME OrdersOK, NEW i, Entry(i) \in DOMAIN orders
    PROVE  i \in DOMAIN signals /\ BuyOK(i, orders[Entry(i)])
  BY EntryIntents DEF OrdersOK

\* A bought signal has a filled order.
LEMMA BoughtOrder ==
    ASSUME OrdersOK, OrdersStored, NEW i, Bought(i)
    PROVE  /\ Entry(i) \in DOMAIN orders /\ i \in DOMAIN signals
           /\ BuyOK(i, orders[Entry(i)]) /\ orders[Entry(i)].status = "FILLED"
<1>1. Entry(i) \in DOMAIN orders
  BY NoneIsNew DEF Bought
<1>. QED
  BY <1>1, EntryOrder DEF Bought, Status

\* A sale has the intent and the terms of an exit.
LEMMA SellOrderTerms ==
    ASSUME OrdersOK, NEW x \in DOMAIN orders, orders[x].side = "SELL"
    PROVE  IsExit(x) /\ SellTerms(x, orders[x])
  BY DEF OrdersOK, BuyOK

\* So does an exit that is reserved.
LEMMA OpenSellTerms ==
    ASSUME OrdersOK, NEW x \in OpenSells
    PROVE  /\ x \in DOMAIN orders /\ IsExit(x) /\ SellTerms(x, orders[x])
           /\ orders[x].status = "ACCEPTED"
  BY SellOrderTerms DEF OpenSells, Status

\* An exit with an order is a sale, reserved or done.
LEMMA ExitOrder ==
    ASSUME OrdersOK, NEW x \in DOMAIN orders, IsExit(x)
    PROVE  /\ SellTerms(x, orders[x])
           /\ x \in OpenSells \/ (orders[x].status = "FILLED" /\ Sold(x.signal))
<1>1. SellTerms(x, orders[x])
  BY EntryIntents DEF OrdersOK
<1>. QED
  BY <1>1 DEF SellTerms, OpenSells, Sold, Status

-----------------------------------------------------------------------------
(* Steps that leave orders, positions and lifecycles alone. *)

\* The tables give their types.
LEMMA Tables ==
    ASSUME TablesOK
    PROVE  /\ signals \in Seq([day : Nat, symbol : Symbol, atr : Payload,
                               status : SignalStatus])
           /\ DOMAIN signals = 1 .. Len(signals) /\ Len(signals) \in Nat
           /\ market \in Seq(Markets) /\ today \in Nat /\ today > 0
           /\ \A i \in DOMAIN signals :
                /\ signals[i].day \in Nat /\ signals[i].day <= today
                /\ signals[i].symbol \in Symbol /\ signals[i].atr \in Payload
<1>1. /\ signals \in Seq([day : Nat, symbol : Symbol, atr : Payload,
                         status : SignalStatus])
      /\ market \in Seq(Markets) /\ market # <<>>
      /\ \A i \in DOMAIN signals : signals[i].day <= today
  BY DEF TablesOK, SignalsOK
<1>2. ASSUME NEW R, signals \in Seq(R)
      PROVE  /\ DOMAIN signals = 1 .. Len(signals) /\ Len(signals) \in Nat
             /\ \A i \in DOMAIN signals : signals[i] \in R
  BY <1>2
<1>3. Len(market) \in Nat /\ Len(market) > 0
  BY <1>1
<1>4. /\ DOMAIN signals = 1 .. Len(signals) /\ Len(signals) \in Nat
      /\ \A i \in DOMAIN signals :
          signals[i] \in [day : Nat, symbol : Symbol, atr : Payload, status : SignalStatus]
  BY <1>1, <1>2
<1>5. today \in Nat /\ today > 0
  BY <1>3 DEF today
<1>. QED
  BY <1>1, <1>4, <1>5

\* Sessions and symbols of the signals that are queued; what is settled stays so.
SignalsKept ==
    /\ DOMAIN signals \subseteq DOMAIN signals'
    /\ \A i \in DOMAIN signals :
        /\ signals'[i].day = signals[i].day /\ signals'[i].symbol = signals[i].symbol
        /\ signals[i].status # "PENDING" => signals'[i].status # "PENDING"

\* Orders, rows and portfolio stay.
AccountKept == UNCHANGED <<orders, lifecycle, portfolio>>

\* What a row protects is still bought and not sold.
LEMMA RowKept ==
    ASSUME NEW s, NEW r, RowOK(s, r), SignalsKept,
           Bought(r.entry) => Bought(r.entry)', Sold(r.entry)' => Sold(r.entry)
    PROVE  RowOK(s, r)'
  BY DEF RowOK, SignalsKept

\* A step beside the run leaves what the run knows.
LEMMA RunKept ==
    ASSUME NEW j, RunInv(j), AccountKept, SignalsKept, today \in Nat, today' \in Nat,
           today <= today',
           j.phase # "idle" => /\ Outstanding(j.day)' = Outstanding(j.day)
                               /\ \A s : Bar(j.day, s)' = Bar(j.day, s)
    PROVE  RunInv(j)'
<1>1. /\ \A x : Status(x)' = Status(x)
      /\ \A i : Bought(i)' <=> Bought(i)
      /\ \A i : Sold(i)' <=> Sold(i)
      /\ OpenSells' = OpenSells
      /\ \A s : Holds(portfolio, s)' <=> Holds(portfolio, s)
  BY DEF AccountKept, Status, Bought, Sold, OpenSells, Holds
<1>2. \A s, r : RowOK(s, r) => RowOK(s, r)'
  BY <1>1, RowKept
<1>3. Fields(j)' /\ j.phase \in Phase
      /\ j.phase = "idle" => j.mem = NewPortfolio
  BY DEF RunInv, Fields
<1>4. CASE j.phase = "idle"
  BY <1>3, <1>4 DEF RunInv, FirstLoops, LastLoops, Managing
<1>5. CASE j.phase # "idle"
  <2>1. Outstanding(j.day)' = Outstanding(j.day) /\ \A s : Bar(j.day, s)' = Bar(j.day, s)
    BY <1>5
  <2>2. Executable(j)' = Executable(j) /\ Tradable(j)' = Tradable(j)
    <3>1. Executable(j)' = Executable(j) /\ Executable(j) \subseteq DOMAIN signals
      BY <1>1, <2>1 DEF Executable, SignalsKept, Outstanding
    <3>. QED
      BY <2>1, <3>1 DEF Tradable, SignalsKept
  <2>3. RunOK(j)'
    BY <1>5 DEF RunInv, RunOK, AccountKept
  <2>4. FirstLoops(j)'
    BY <1>1, <2>1, <2>2 DEF RunInv, FirstLoops, VisitOK, Agrees
  <2>5. ASSUME NEW q, ResultsOK(q) PROVE ResultsOK(q)'
    BY <1>1, <2>5 DEF ResultsOK, Agrees, SignalsKept
  <2>6. ASSUME NEW S, ExecuteOK(j, S) PROVE ExecuteOK(j, S)'
    BY <2>1, <2>2, <2>5, <2>6 DEF ExecuteOK
  <2>7. ASSUME InitializeOK(j) PROVE InitializeOK(j)'
    <3>. PICK i : i = Head(j.todo)
      OBVIOUS
    <3>1. signals'[i].symbol = signals[i].symbol /\ i \in DOMAIN signals
      BY <2>7 DEF InitializeOK, SignalsKept, Outstanding
    <3>. QED
      BY <1>1, <1>2, <2>1, <2>6, <2>7, <3>1 DEF InitializeOK, Agrees, AccountKept
  <2>8. LastLoops(j)'
    BY <2>1, <2>5, <2>6, <2>7 DEF RunInv, LastLoops
  <2>9. ASSUME NEW S, ManageOK(j, S) PROVE ManageOK(j, S)'
    BY <1>1, <2>1, <2>9 DEF ManageOK, AccountKept
  <2>10. ASSUME NEW x, NEW o, SellTerms(x, o) PROVE SellTerms(x, o)'
    BY <1>1, <2>10 DEF SellTerms, SignalsKept
  <2>11. Managing(j)'
    BY <1>1, <1>2, <2>1, <2>9, <2>10
       DEF RunInv, Managing, HoldOK, ReserveOK, SellOK, AccountKept
  <2>. QED
    BY <1>3, <1>5, <2>3, <2>4, <2>8, <2>11 DEF RunInv
<1>. QED
  BY <1>4, <1>5

\* and what the tables say, if what is settled by it agrees with its order.
LEMMA TablesKept ==
    ASSUME TablesOK, OrdersStored, AccountKept, SignalsKept, SignalsOK',
           today \in Nat, today' \in Nat, today <= today', SettledAgreesWithOrder'
    PROVE  TablesOK'
<1>1. /\ \A x : Status(x)' = Status(x)
      /\ \A i : Bought(i)' <=> Bought(i)
      /\ \A i : Sold(i)' <=> Sold(i)
      /\ OpenSells' = OpenSells
      /\ \A s : Holds(portfolio, s)' <=> Holds(portfolio, s)
  BY DEF AccountKept, Status, Bought, Sold, OpenSells, Holds
<1>2. OrdersOK'
  <2>1. ASSUME NEW i \in DOMAIN signals, NEW o, BuyOK(i, o) PROVE BuyOK(i, o)'
    <3>1. signals[i].day \in Nat
      BY Tables
    <3>. QED
      BY <2>1, <3>1 DEF BuyOK, SignalsKept
  <2>2. ASSUME NEW x, NEW o, SellTerms(x, o) PROVE SellTerms(x, o)'
    BY <1>1, <2>2 DEF SellTerms, SignalsKept
  <2>3. ASSUME NEW x \in DOMAIN orders
        PROVE  \/ \E i \in DOMAIN signals' : x = Entry(i) /\ BuyOK(i, orders[x])'
               \/ IsExit(x) /\ SellTerms(x, orders[x])'
    <3>. PICK o : o = orders[x] /\ o = orders'[x]
      BY DEF AccountKept
    <3>1. \/ \E i \in DOMAIN signals : x = Entry(i) /\ BuyOK(i, o)
          \/ IsExit(x) /\ SellTerms(x, o)
      BY DEF TablesOK, OrdersOK
    <3>2. \/ \E i \in DOMAIN signals' : x = Entry(i) /\ BuyOK(i, o)'
          \/ IsExit(x) /\ SellTerms(x, o)'
      BY <2>1, <2>2, <3>1 DEF SignalsKept
    <3>. QED
      BY <3>2 DEF BuyOK, SellTerms
  <2>. QED
    BY <2>3 DEF OrdersOK, AccountKept, IsExit
<1>3. LifecycleOK'
  <2>1. ASSUME NEW s \in Symbol, lifecycle'[s] # NoRow PROVE RowOK(s, lifecycle[s])'
    <3>. PICK r : r = lifecycle[s] /\ r = lifecycle'[s]
      BY DEF AccountKept
    <3>1. RowOK(s, r)
      BY <2>1 DEF TablesOK, LifecycleOK
    <3>2. RowOK(s, r)'
      BY <1>1, <3>1, RowKept
    <3>. QED
      BY <3>2 DEF RowOK, RowFields
  <2>. QED
    BY <2>1 DEF LifecycleOK, TablesOK, AccountKept
<1>4. DealsOK'
  <2>1. \A i : Bought(i) => i \in DOMAIN signals
    BY BoughtOrder DEF TablesOK
  <2>. QED
    BY <1>1, <2>1 DEF TablesOK, DealsOK, SignalsKept, AccountKept
<1>5. OpenSalesOK'
  BY <1>1 DEF TablesOK, OpenSalesOK, AccountKept
<1>6. portfolio' \in PortfolioType /\ HeldHasLifecycle'
  BY <1>1 DEF TablesOK, HeldHasLifecycle, AccountKept
<1>. QED
  BY <1>2, <1>3, <1>4, <1>5, <1>6 DEF TablesOK

-----------------------------------------------------------------------------
(* What the run is known by at each of its steps. *)

\* The only process is at a step of which enough is known.
LEMMA OneStep ==
    ASSUME OneProcess, PaperInv, NEW p \in Process, NEW k, Become(p, k),
           TablesOK', RunInv(k)'
    PROVE  PaperInv'
<1>1. /\ job' = [q \in Process |-> job'[q]]
      /\ \A q \in Process : job'[q] = k
  BY DEF PaperInv, OneProcess, Become
<1>2. \A q \in Process : \A j \in {job'[q]} : RunInv(j)'
  BY <1>1
<1>. QED
  BY <1>1, <1>2 DEF PaperInv

\* No run: nothing is known but the copy of a new account.
LEMMA NoRunOK == RunInv(NoJob)
  BY DEF RunInv, NoJob, Fields, Phase, FirstLoops, LastLoops, Managing

\* The run goes on and knows what its next step needs.
Advances(p) == \E k : Become(p, k) /\ RunInv(k)

\* Dropping a run is always possible.
LEMMA AbortAdvances == ASSUME NEW p, Abort(p) PROVE Advances(p)
  BY NoRunOK DEF Abort, Advances
-----------------------------------------------------------------------------
(* The steps of the loops over signals that change nothing stored. *)

\* The due signals are loaded, each once.
LEMMA LoadAdvances ==
    ASSUME TablesOK, NEW p, RunInv(job[p]), JobDays(job[p]), LoadPending(p)
    PROVE  Advances(p)
<1>. PICK j : j = job[p]
  OBVIOUS
<1>. PICK out : out = Outstanding(j.day)
  OBVIOUS
<1>. PICK due : due = InOrder(out)
  OBVIOUS
<1>1. due \in Seq(out) /\ Distinct(due) /\ Elements(due) = out
  <2>1. out \in SUBSET (1 .. Len(signals)) /\ Len(signals) \in Nat
    BY Tables DEF Outstanding
  <2>. QED
    BY <2>1, InOrderVisitsAll
<1>2. j.phase = "queued" /\ Fields(j) /\ RunOK(j) /\ j.kept = <<>>
  BY DEF LoadPending, At, RunInv, JobDays
<1>3. ASSUME due = <<>> PROVE out = {}
  BY <1>1, <1>3 DEF Elements
<1>. DEFINE k == [j EXCEPT !.todo = due, !.pin = today,
                           !.phase = IF due = <<>> THEN "load" ELSE "fresh"]
<1>4. Become(p, k)
  BY DEF LoadPending, PendingBefore
<1>5. /\ Fields(k) /\ k.todo = due /\ k.kept = <<>> /\ k.day = j.day /\ k.mem = j.mem
      /\ k.phase = IF due = <<>> THEN "load" ELSE "fresh"
  BY <1>2 DEF Fields
<1>. HIDE DEF k
<1>6. RunOK(k)
  BY <1>2, <1>5 DEF RunOK
<1>7. VisitOK(k, Outstanding(k.day), Executable(k))
  <2>1. k.kept \in Seq(out) /\ Distinct(k.kept) /\ Elements(k.kept) = {}
    BY <1>5 DEF Distinct, Elements
  <2>. QED
    BY <1>1, <1>5, <2>1 DEF VisitOK
<1>8. RunInv(k)
  BY <1>3, <1>5, <1>6, <1>7 DEF RunInv, FirstLoops, LastLoops, Managing, Phase
<1>. QED
  BY <1>4, <1>8 DEF Advances

\* A settled signal was not sold: what is due was not sold.
LEMMA DueIsNotSold ==
    ASSUME TablesOK, NEW i, signals[i].status = "PENDING"
    PROVE  ~Sold(i)
<1>1. ASSUME NEW x \in DOMAIN orders, orders[x].side = "SELL", x.signal = i PROVE FALSE
  BY <1>1, SellOrderTerms DEF TablesOK, SellTerms
<1>. QED
  BY <1>1 DEF Sold

\* The first signal of a loop may be settled with what agrees with its order,
LEMMA SettleAdvances ==
    ASSUME NEW p, NEW j, j = job[p], RunInv(j), j.phase \in {"fresh", "price"},
           j.todo # <<>>, NEW status, Agrees(Head(j.todo), status),
           \/ j.phase = "fresh" /\ Settle(p, status)
           \/ j.phase = "price" /\ SettlePriced(p, status)
    PROVE  Advances(p)
<1>. DEFINE phase == IF j.phase = "fresh" THEN "settle" ELSE "settlePriced"
            k == [j EXCEPT !.phase = phase, !.verdict = status]
<1>1. Become(p, k)
  BY DEF Settle, SettlePriced
<1>2. Fields(j) /\ RunOK(j) /\ FirstLoops(j)
  BY DEF RunInv
<1>3. /\ Fields(k) /\ k.todo = j.todo /\ k.kept = j.kept /\ k.day = j.day /\ k.mem = j.mem
      /\ k.phase = phase /\ k.verdict = status
  BY <1>2 DEF Fields
<1>. HIDE DEF k
<1>4. RunOK(k) /\ Executable(k) = Executable(j) /\ Tradable(k) = Tradable(j)
  BY <1>2, <1>3 DEF RunOK, Executable, Tradable
<1>5. FirstLoops(k)
  BY <1>2, <1>3, <1>4 DEF FirstLoops, VisitOK
<1>6. RunInv(k)
  BY <1>3, <1>4, <1>5 DEF RunInv, LastLoops, Managing, Phase
<1>. QED
  BY <1>1, <1>6 DEF Advances

\* or kept for the next loop.
LEMMA KeepAdvances ==
    ASSUME NEW p, NEW j, j = job[p], RunInv(j), j.phase \in {"fresh", "price"},
           j.todo # <<>>, Keep(p, Head(j.todo)),
           Head(j.todo) \in Executable(j),
           j.phase = "price" => Head(j.todo) \in Tradable(j)
    PROVE  Advances(p)
<1>. PICK i : i = Head(j.todo)
  OBVIOUS
<1>. DEFINE k == [j EXCEPT !.todo = Tail(@), !.kept = Append(@, i)]
<1>1. Become(p, k)
  BY DEF Keep
<1>2. Fields(j) /\ RunOK(j) /\ FirstLoops(j)
  BY DEF RunInv
<1>3. /\ Fields(k) /\ k.todo = Tail(j.todo) /\ k.kept = Append(j.kept, i)
      /\ k.day = j.day /\ k.mem = j.mem /\ k.phase = j.phase
  BY <1>2 DEF Fields
<1>. HIDE DEF k
<1>4. RunOK(k) /\ Executable(k) = Executable(j) /\ Tradable(k) = Tradable(j)
  BY <1>2, <1>3 DEF RunOK, Executable, Tradable
<1>5. ASSUME NEW may, NEW passed, VisitOK(j, may, passed), i \in passed
      PROVE  VisitOK(k, may, passed)
  <2>. PICK S : j.todo \in Seq(S) /\ j.kept \in Seq(S)
    BY <1>5 DEF VisitOK
  <2>1. /\ i \in S /\ Tail(j.todo) \in Seq(S)
        /\ Elements(j.todo) = {i} \cup Elements(Tail(j.todo))
        /\ Distinct(Tail(j.todo)) /\ i \notin Elements(Tail(j.todo))
    BY <1>5, VisitFirst DEF VisitOK
  <2>2. i \notin Elements(j.kept)
    BY <1>5, <2>1 DEF VisitOK
  <2>3. /\ k.kept \in Seq(S) /\ Elements(k.kept) = Elements(j.kept) \cup {i}
        /\ Distinct(k.kept)
    BY <1>3, <1>5, <2>1, <2>2, KeepLast DEF VisitOK
  <2>. QED
    BY <1>3, <1>5, <2>1, <2>2, <2>3 DEF VisitOK
<1>6. FirstLoops(k)
  BY <1>2, <1>3, <1>4, <1>5 DEF FirstLoops
<1>7. RunInv(k)
  BY <1>3, <1>4, <1>6 DEF RunInv, LastLoops, Managing, Phase
<1>. QED
  BY <1>1, <1>7 DEF Advances

\* The first loop settles what is finished, missed or not to be traded.
LEMMA FreshAdvances ==
    ASSUME TablesOK, NEW p, RunInv(job[p]), CheckFreshness(p)
    PROVE  Advances(p)
<1>. PICK j : j = job[p]
  OBVIOUS
<1>. PICK i : i = Head(j.todo)
  OBVIOUS
<1>1. /\ j.phase = "fresh" /\ j.todo # <<>> /\ First(p) = i
      /\ VisitOK(j, Outstanding(j.day), Executable(j))
      /\ Executed(p) \/ Refused(p) \/ Missed(p) \/ Due(p)
  BY DEF CheckFreshness, At, First, RunInv, FirstLoops
<1>2. i \in Outstanding(j.day)
  BY <1>1, VisitFirst DEF VisitOK
<1>3. i \in DOMAIN signals /\ signals[i].status = "PENDING"
  BY <1>2 DEF Outstanding
<1>4. ASSUME NEW status, Agrees(i, status), Settle(p, status) PROVE Advances(p)
  BY <1>1, <1>4, SettleAdvances
<1>5. CASE Executed(p)
  <2>1. Bought(i)
    BY <1>1, <1>5 DEF Executed, Bought
  <2>2. lifecycle[signals[i].symbol] # NoRow
    BY <1>3, <2>1, DueIsNotSold DEF TablesOK, DealsOK
  <2>3. Settle(p, "ALREADY_EXECUTED")
    BY <1>1, <1>5, <2>2 DEF Executed
  <2>4. Agrees(i, "ALREADY_EXECUTED")
    BY <2>1 DEF Agrees, SignalStatus
  <2>. QED
    BY <1>4, <2>3, <2>4
<1>6. CASE Refused(p)
  <2>1. Agrees(i, "REJECTED") /\ Settle(p, "REJECTED")
    BY <1>1, <1>6 DEF Refused, Agrees, SignalStatus, Bought
  <2>. QED
    BY <1>4, <2>1
<1>7. CASE Missed(p)
  <2>1. Agrees(i, "MISSED_EXECUTION") /\ Settle(p, "MISSED_EXECUTION")
    BY <1>1, <1>7 DEF Missed, Agrees, SignalStatus, Bought
  <2>. QED
    BY <1>4, <2>1
<1>8. CASE Due(p)
  <2>1. Agrees(i, "REJECTED") /\ i \in Executable(j)
    BY <1>1, <1>2, <1>8 DEF Due, Agrees, SignalStatus, Bought, Executable
  <2>2. CASE Settle(p, "REJECTED")
    BY <1>4, <2>1, <2>2
  <2>3. CASE Keep(p, i)
    BY <1>1, <2>1, <2>3, KeepAdvances
  <2>. QED
    BY <1>1, <1>8, <2>2, <2>3 DEF Due
<1>. QED
  BY <1>1, <1>5, <1>6, <1>7, <1>8

\* The second loop keeps what has a price.
LEMMA PriceAdvances ==
    ASSUME TablesOK, NEW p, RunInv(job[p]), PriceSignal(p)
    PROVE  Advances(p)
<1>. PICK j : j = job[p]
  OBVIOUS
<1>. PICK i : i = Head(j.todo)
  OBVIOUS
<1>1. /\ j.phase = "price" /\ j.todo # <<>> /\ First(p) = i
      /\ VisitOK(j, Executable(j), Tradable(j))
  BY DEF PriceSignal, At, First, RunInv, FirstLoops
<1>2. i \in Executable(j)
  BY <1>1, VisitFirst DEF VisitOK
<1>3. CASE SettlePriced(p, "REJECTED")
  <2>1. Agrees(i, "REJECTED")
    BY <1>2 DEF Executable, Agrees, SignalStatus, Bought
  <2>. QED
    BY <1>1, <1>3, <2>1, SettleAdvances
<1>4. CASE Priced(p) /\ Keep(p, First(p))
  <2>1. i \in Tradable(j)
    BY <1>1, <1>2, <1>4 DEF Priced, Tradable
  <2>. QED
    BY <1>1, <1>2, <1>4, <2>1, KeepAdvances
<1>. QED
  BY <1>3, <1>4, AbortAdvances DEF PriceSignal

\* The first executed signal is passed on with its result.
ResultPassed ==
    \A j, k, status :
        /\ j.todo # <<>> /\ ExecuteOK(j, {Head(j.todo)}) /\ Fields(k)
        /\ Head(j.todo) \in DOMAIN signals /\ Agrees(Head(j.todo), status)
        /\ k.todo = Tail(j.todo) /\ k.kept = Append(j.kept, <<Head(j.todo), status>>)
        /\ k.day = j.day
        => ExecuteOK(k, {})

\* A result that agrees with the tables may be kept for the last loop.
LEMMA ResultIsPassed == ResultPassed
<1>. SUFFICES ASSUME NEW j, NEW k, NEW status, NEW i, i = Head(j.todo),
                     j.todo # <<>>, ExecuteOK(j, {i}), Fields(k),
                     i \in DOMAIN signals, Agrees(i, status),
                     k.todo = Tail(j.todo), k.kept = Append(j.kept, <<i, status>>),
                     k.day = j.day
              PROVE  ExecuteOK(k, {})
  BY DEF ResultPassed
<1>. PICK q : q = j.kept
  OBVIOUS
<1>. PICK r : r = <<i, status>>
  OBVIOUS
<1>1. PICK S : j.todo \in Seq(S)
  BY DEF ExecuteOK
<1>2. /\ i \in S /\ Tail(j.todo) \in Seq(S)
      /\ Elements(j.todo) = {i} \cup Elements(Tail(j.todo))
      /\ Distinct(Tail(j.todo)) /\ i \notin Elements(Tail(j.todo))
  BY <1>1, VisitFirst DEF ExecuteOK
<1>3. ResultsOK(q) /\ i \notin Visited(q)
  BY <1>2 DEF ExecuteOK
<1>4. PICK R : q \in Seq(R)
  BY <1>3 DEF ResultsOK
<1>5. /\ Append(q, r) \in Seq(R \cup {r})
      /\ Len(q) \in Nat /\ DOMAIN q = 1 .. Len(q)
      /\ DOMAIN Append(q, r) = 1 .. Len(q) + 1
      /\ Append(q, r)[Len(q) + 1] = r
      /\ \A m \in DOMAIN q : Append(q, r)[m] = q[m]
  <2>1. q \in Seq(R \cup {r}) /\ r \in R \cup {r}
    BY <1>4
  <2>. QED
    BY <2>1
<1>6. \A m \in DOMAIN Append(q, r) : m \in DOMAIN q \/ m = Len(q) + 1
  BY <1>5
<1>7. r[1] = i /\ r[2] = status /\ r = <<r[1], r[2]>>
  OBVIOUS
<1>8. Visited(Append(q, r)) = Visited(q) \cup {i}
  BY <1>5, <1>6, <1>7 DEF Visited
<1>9. ResultsOK(Append(q, r))
  <2>1. ASSUME NEW m \in DOMAIN Append(q, r)
        PROVE  /\ Append(q, r)[m] = <<Append(q, r)[m][1], Append(q, r)[m][2]>>
               /\ Append(q, r)[m][1] \in DOMAIN signals
               /\ Agrees(Append(q, r)[m][1], Append(q, r)[m][2])
    BY <1>3, <1>5, <1>6, <1>7 DEF ResultsOK
  <2>2. \A m \in DOMAIN q : q[m][1] # i
    BY <1>3 DEF Visited
  <2>3. \A m, n \in DOMAIN Append(q, r) : Append(q, r)[m][1] = Append(q, r)[n][1] => m = n
    BY <1>3, <1>5, <1>6, <1>7, <2>2 DEF ResultsOK
  <2>. QED
    BY <1>5, <2>1, <2>3 DEF ResultsOK
<1>10. Elements(k.todo) \subseteq Tradable(k)
  <2>1. Elements(Tail(j.todo)) \subseteq Tradable(j)
    BY <1>2 DEF ExecuteOK
  <2>. QED
    BY <2>1 DEF Tradable, Executable
<1>. QED
  BY <1>2, <1>8, <1>9, <1>10 DEF ExecuteOK
\* A run that leaves its result goes on to the next signal.
LEMMA ResultAdvances ==
    ASSUME TablesOK, NEW p, NEW j, j = job[p], Fields(j), RunOK(j), j.todo # <<>>,
           ExecuteOK(j, {Head(j.todo)}), Head(j.todo) \in DOMAIN signals,
           NEW status, Agrees(Head(j.todo), status), Result(p, j, status)
    PROVE  Advances(p)
<1>. PICK r : r = <<First(p), status>>
  OBVIOUS
<1>. DEFINE k == [j EXCEPT !.phase = "execute", !.verdict = "", !.todo = Tail(@),
                           !.kept = Append(@, r)]
<1>1. Become(p, k)
  BY DEF Result
<1>2. /\ Fields(k) /\ k.todo = Tail(j.todo) /\ k.kept = Append(j.kept, r)
      /\ k.day = j.day /\ k.mem = j.mem /\ k.phase = "execute"
  BY DEF Fields
<1>. HIDE DEF k
<1>3. RunOK(k)
  BY <1>2 DEF RunOK
<1>4. ExecuteOK(k, {})
  BY <1>2, ResultIsPassed DEF ResultPassed, First
<1>5. RunInv(k)
  BY <1>2, <1>3, <1>4 DEF RunInv, FirstLoops, LastLoops, Managing, Phase
<1>. QED
  BY <1>1, <1>5 DEF Advances

\* The next signal to execute is tradable.
LEMMA ExecuteFirst ==
    ASSUME NEW j, RunInv(j), j.phase = "execute", j.todo # <<>>
    PROVE  /\ Fields(j) /\ RunOK(j) /\ ExecuteOK(j, {}) /\ ExecuteOK(j, {Head(j.todo)})
           /\ Head(j.todo) \in Tradable(j) /\ Head(j.todo) \in Executable(j)
           /\ Head(j.todo) \in Outstanding(j.day) /\ Head(j.todo) \in DOMAIN signals
           /\ Status(Entry(Head(j.todo))) = "NONE"
<1>1. Fields(j) /\ RunOK(j) /\ ExecuteOK(j, {})
  BY DEF RunInv, LastLoops
<1>2. Head(j.todo) \in Tradable(j)
  BY <1>1, VisitFirst DEF ExecuteOK
<1>3. ExecuteOK(j, {Head(j.todo)})
  BY <1>1 DEF ExecuteOK
<1>. QED
  BY <1>1, <1>2, <1>3 DEF Tradable, Executable, Outstanding

\* A skipped signal has no order.
LEMMA SkipAdvances ==
    ASSUME TablesOK, NEW p, RunInv(job[p]), SkipSignal(p)
    PROVE  Advances(p)
<1>. PICK j : j = job[p]
  OBVIOUS
<1>1. j.phase = "execute" /\ j.todo # <<>> /\ Result(p, j, "SKIPPED")
  BY DEF SkipSignal, At
<1>2. Agrees(Head(j.todo), "SKIPPED")
  BY <1>1, ExecuteFirst DEF Agrees, SignalStatus, Bought
<1>. QED
  BY <1>1, <1>2, ExecuteFirst, ResultAdvances

\* After the position is initialized the signal has its result.
LEMMA MarkAdvances ==
    ASSUME TablesOK, NEW p, RunInv(job[p]), MarkEntry(p)
    PROVE  Advances(p)
<1>. PICK j : j = job[p]
  OBVIOUS
<1>1. j.phase = "initialized" /\ Result(p, j, j.verdict)
  BY DEF MarkEntry, At
<1>2. Fields(j) /\ RunOK(j) /\ InitializeOK(j)
  BY <1>1 DEF RunInv, LastLoops
<1>. PICK i : i = Head(j.todo)
  OBVIOUS
<1>3. /\ j.todo # <<>> /\ ExecuteOK(j, {i}) /\ i \in DOMAIN signals
      /\ Agrees(i, j.verdict)
  BY <1>2 DEF InitializeOK, Outstanding
<1>. QED
  BY <1>1, <1>2, <1>3, ResultAdvances

\* What a loop kept is what the next one visits.
LEMMA LoopAdvances ==
    ASSUME TablesOK, NEW p, RunInv(job[p]), EndLoop(p)
    PROVE  Advances(p)
<1>. PICK j : j = job[p]
  OBVIOUS
<1>1. Fields(j) /\ RunOK(j) /\ FirstLoops(j) /\ LastLoops(j)
  BY DEF RunInv, EndLoop, At
<1>2. ASSUME NEW phase, NextLoop(p, phase), phase \in Phase \ {"idle"}
      PROVE  \E k :
             /\ Become(p, k) /\ Fields(k) /\ RunOK(k)
             /\ Elements(j.todo) = {} /\ Visited(j.todo) = {}
             /\ k.phase = phase /\ k.todo = j.kept /\ k.kept = <<>> /\ k.day = j.day
             /\ Executable(k) = Executable(j) /\ Tradable(k) = Tradable(j)
  <2>. DEFINE k == [j EXCEPT !.phase = phase, !.todo = j.kept, !.kept = <<>>]
  <2>1. /\ Fields(k) /\ k.phase = phase /\ k.todo = j.kept /\ k.kept = <<>>
        /\ k.day = j.day /\ k.mem = j.mem
    BY <1>1, <1>2 DEF Fields
  <2>2. Become(p, k) /\ j.todo = <<>>
    BY <1>2 DEF NextLoop
  <2>. HIDE DEF k
  <2>3. Elements(j.todo) = {} /\ Visited(j.todo) = {}
    BY <2>2 DEF Elements, Visited
  <2>4. RunOK(k) /\ Executable(k) = Executable(j) /\ Tradable(k) = Tradable(j)
    BY <1>1, <2>1 DEF RunOK, Executable, Tradable
  <2>. QED
    BY <2>1, <2>2, <2>3, <2>4
<1>3. CASE At(p, "fresh") /\ NextLoop(p, "price")
  <2>0. NextLoop(p, "price") /\ "price" \in Phase \ {"idle"}
    BY <1>3 DEF Phase
  <2>1. PICK k :
        /\ Become(p, k) /\ Fields(k) /\ RunOK(k) /\ Elements(j.todo) = {}
        /\ k.phase = "price" /\ k.todo = j.kept /\ k.kept = <<>> /\ k.day = j.day
        /\ Executable(k) = Executable(j)
    BY <1>2, <2>0
  <2>2. VisitOK(j, Outstanding(j.day), Executable(j))
    BY <1>1, <1>3 DEF FirstLoops, At
  <2>3. PICK S : k.todo \in Seq(S)
    BY <2>1, <2>2 DEF VisitOK
  <2>4. k.kept \in Seq(S) /\ Distinct(k.kept) /\ Elements(k.kept) = {}
    BY <2>1 DEF Distinct, Elements
  <2>5. VisitOK(k, Executable(k), Tradable(k))
    BY <2>1, <2>2, <2>3, <2>4 DEF VisitOK
  <2>6. RunInv(k)
    BY <2>1, <2>5 DEF RunInv, FirstLoops, LastLoops, Managing, Phase
  <2>. QED
    BY <2>1, <2>6 DEF Advances
<1>4. CASE At(p, "price") /\ NextLoop(p, "execute")
  <2>0. NextLoop(p, "execute") /\ "execute" \in Phase \ {"idle"}
    BY <1>4 DEF Phase
  <2>1. PICK k :
        /\ Become(p, k) /\ Fields(k) /\ RunOK(k) /\ Elements(j.todo) = {}
        /\ k.phase = "execute" /\ k.todo = j.kept /\ k.kept = <<>> /\ k.day = j.day
        /\ Tradable(k) = Tradable(j)
    BY <1>2, <2>0
  <2>2. VisitOK(j, Executable(j), Tradable(j))
    BY <1>1, <1>4 DEF FirstLoops, At
  <2>3. ResultsOK(k.kept) /\ Visited(k.kept) = {}
    <3>1. k.kept \in Seq({})
      BY <2>1
    <3>. QED
      BY <2>1, <3>1 DEF ResultsOK, Visited
  <2>4. ExecuteOK(k, {})
    BY <2>1, <2>2, <2>3 DEF ExecuteOK, VisitOK
  <2>5. RunInv(k)
    BY <2>1, <2>4 DEF RunInv, FirstLoops, LastLoops, Managing, Phase
  <2>. QED
    BY <2>1, <2>5 DEF Advances
<1>5. CASE At(p, "execute") /\ NextLoop(p, "complete")
  <2>0. NextLoop(p, "complete") /\ "complete" \in Phase \ {"idle"}
    BY <1>5 DEF Phase
  <2>1. PICK k :
        /\ Become(p, k) /\ Fields(k) /\ RunOK(k) /\ Elements(j.todo) = {}
        /\ k.phase = "complete" /\ k.todo = j.kept /\ k.day = j.day
    BY <1>2, <2>0
  <2>2. ExecuteOK(j, {})
    BY <1>1, <1>5 DEF LastLoops, At
  <2>3. ResultsOK(k.todo) /\ Visited(k.todo) = Outstanding(k.day)
    BY <2>1, <2>2 DEF ExecuteOK
  <2>4. RunInv(k)
    BY <2>1, <2>3 DEF RunInv, FirstLoops, LastLoops, Managing, Phase
  <2>. QED
    BY <2>1, <2>4 DEF Advances
<1>6. CASE At(p, "complete") /\ NextLoop(p, "load")
  <2>0. NextLoop(p, "load") /\ "load" \in Phase \ {"idle"}
    BY <1>6 DEF Phase
  <2>1. PICK k :
        /\ Become(p, k) /\ Fields(k) /\ RunOK(k) /\ Visited(j.todo) = {}
        /\ k.phase = "load" /\ k.day = j.day
    BY <1>2, <2>0
  <2>2. Outstanding(k.day) = {}
    BY <1>1, <1>6, <2>1 DEF LastLoops, At
  <2>3. RunInv(k)
    BY <2>1, <2>2 DEF RunInv, FirstLoops, LastLoops, Managing, Phase
  <2>. QED
    BY <2>1, <2>3 DEF Advances
<1>. QED
  BY <1>3, <1>4, <1>5, <1>6 DEF EndLoop
-----------------------------------------------------------------------------
(* The steps of the manager that change nothing stored. *)

\* A stored bar is valid, and its prices pay for the costs of a sale.
LEMMA StoredBar ==
    ASSUME TablesOK, NEW day \in 1 .. today, NEW s \in Symbol, Bar(day, s) # NoBar
    PROVE  ValidBar(Bar(day, s)) /\ Costs < Bar(day, s).low
<1>1. market[day] \in Markets
  BY Tables DEF today
<1>. QED
  BY <1>1, MarketsAssumption DEF Bar, Costs

\* A level met during the session lies above the low that met it, or the open.
LEMMA LevelAboveLow ==
    ASSUME NEW c, NEW z, NEW b, ValidBar(b), ValidPosition(z),
           ~ReachedBy(c, z, b.open), c.target = TRUE, c.trailing \in BOOLEAN,
           DuringSession(c, z, b) # Hold
    PROVE  /\ DuringSession(c, z, b).price \in Nat
           /\ b.low <= DuringSession(c, z, b).price
<1>. DEFINE stop == ActiveStop(c, z)
<1>1. /\ b.open \in Nat /\ b.low \in Nat /\ b.low <= b.open
  BY DEF ValidBar, Price
<1>2. z.target \in Nat /\ stop \in Nat
  BY DEF ValidPosition, ActiveStop, EffectiveStop, ActiveTrailing, Higher,
         Price, Level, NoPrice
<1>3. CASE TargetComesFirst(c, z, b)
  <2>1. DuringSession(c, z, b).price = z.target
    BY <1>3 DEF DuringSession, TargetExit, Exit
  <2>2. b.open < z.target
    BY <1>1, <1>2, <1>3 DEF TargetComesFirst, ReachedBy
  <2>. QED
    BY <1>1, <1>2, <2>1, <2>2
<1>4. CASE ~TargetComesFirst(c, z, b)
  <2>1. StoppedBy(c, z, b.low) /\ DuringSession(c, z, b).price = stop
    BY <1>4 DEF DuringSession, StopExit, Exit
  <2>2. b.low <= stop
    BY <2>1 DEF StoppedBy
  <2>. QED
    BY <1>2, <2>1, <2>2
<1>. QED
  BY <1>3, <1>4

\* An exit takes a price of its session, or the level that was met in it.
LEMMA ExitAboveLow ==
    ASSUME NEW z, NEW b, NEW n, ValidBar(b), ValidPosition(z),
           Evaluate(ExitConfig, z, b, n, FALSE) # Hold
    PROVE  /\ Evaluate(ExitConfig, z, b, n, FALSE).price \in Nat
           /\ b.low <= Evaluate(ExitConfig, z, b, n, FALSE).price
<1>1. /\ b.open \in Nat /\ b.low \in Nat /\ b.close \in Nat
      /\ b.low <= b.open /\ b.low <= b.close
  BY DEF ValidBar, Price
<1>2. CASE AtOpen(ExitConfig, z, b) # Hold
  <2>1. Evaluate(ExitConfig, z, b, n, FALSE).price = b.open
    BY <1>2 DEF Evaluate, AtOpen, StopExit, TargetExit, Exit
  <2>. QED
    BY <1>1, <2>1
<1>3. CASE AtOpen(ExitConfig, z, b) = Hold /\ DuringSession(ExitConfig, z, b) # Hold
  <2>1. ~ReachedBy(ExitConfig, z, b.open)
    BY <1>3 DEF AtOpen, TargetExit, StopExit, Exit, Hold
  <2>2. ExitConfig.target = TRUE /\ ExitConfig.trailing \in BOOLEAN
    BY TrailingAssumption DEF ExitConfig
  <2>3. Evaluate(ExitConfig, z, b, n, FALSE) = DuringSession(ExitConfig, z, b)
    BY <1>3 DEF Evaluate
  <2>. QED
    BY <1>3, <2>1, <2>2, <2>3, LevelAboveLow
<1>4. CASE AtOpen(ExitConfig, z, b) = Hold /\ DuringSession(ExitConfig, z, b) = Hold
  <2>1. Evaluate(ExitConfig, z, b, n, FALSE).price = b.close
    BY <1>4 DEF Evaluate, AtClose, Exit
  <2>. QED
    BY <1>1, <2>1
<1>. QED
  BY <1>2, <1>3, <1>4

\* A row is a valid position of the exit rules.
LEMMA RowPosition ==
    ASSUME NEW s, NEW r, RowOK(s, r)
    PROVE  ValidPosition(Position(r))
  BY StoreAssumption
     DEF RowOK, ValidRow, Position, ValidPosition, Price, Level, NoPrice

\* A reserved exit is for a position that is held, of the signal its row names.
LEMMA SaleHeld ==
    ASSUME TablesOK, NEW x \in OpenSells, NEW s, s = orders[x].symbol
    PROVE  /\ s \in Symbol /\ Holds(portfolio, s) /\ lifecycle[s] # NoRow
           /\ lifecycle[s].entry = x.signal /\ ~Sold(x.signal)
<1>1. SellTerms(x, orders[x]) /\ ~Sold(x.signal)
  BY OpenSellTerms DEF TablesOK, OpenSalesOK
<1>2. /\ x.signal \in DOMAIN signals /\ Bought(x.signal)
      /\ s = signals[x.signal].symbol
  BY <1>1 DEF SellTerms
<1>3. s \in Symbol
  BY <1>2, Tables
<1>. QED
  BY <1>1, <1>2, <1>3 DEF TablesOK, DealsOK, HeldHasLifecycle

\* A position that is held has its row, of a session of the run or before.
LEMMA HeldRow ==
    ASSUME TablesOK, NEW j, RunOK(j), NEW s \in Symbol, Holds(portfolio, s)
    PROVE  /\ lifecycle[s] # NoRow /\ RowOK(s, lifecycle[s])
           /\ lifecycle[s].day \in Nat /\ lifecycle[s].day <= j.day
           /\ portfolio.position[s].qty \in Nat \ {0}
           /\ portfolio.position[s].average \in Nat
<1>1. lifecycle[s] # NoRow
  BY DEF TablesOK, HeldHasLifecycle
<1>2. RowOK(s, lifecycle[s])
  BY <1>1 DEF TablesOK, LifecycleOK
<1>3. portfolio.position[s] \in [qty : Nat, average : Nat]
  BY DEF TablesOK, PortfolioType
<1>. QED
  BY <1>1, <1>2, <1>3 DEF RowOK, RunOK, Holds

\* The manager starts with all positions and all reserved exits.
LEMMA PositionsAdvance ==
    ASSUME TablesOK, NEW p, RunInv(job[p]), LoadPositions(p)
    PROVE  Advances(p)
<1>. PICK j : j = job[p]
  OBVIOUS
<1>. PICK held : held = {s \in Symbol : Holds(portfolio, s)}
  OBVIOUS
<1>1. j.phase = "load" /\ Fields(j) /\ RunOK(j) /\ Outstanding(j.day) = {}
  BY DEF LoadPositions, At, RunInv, Managing
<1>. DEFINE k == [NoJob EXCEPT
         !.phase = "manage", !.day = j.day, !.mem = portfolio, !.pin = today,
         !.list = portfolio.position, !.held = held, !.sells = OpenSells]
<1>2. Become(p, k)
  BY DEF LoadPositions
<1>3. /\ Fields(k) /\ k.phase = "manage" /\ k.day = j.day /\ k.mem = portfolio
      /\ k.list = portfolio.position /\ k.held = held /\ k.sells = OpenSells
  BY DEF NoJob, Fields
<1>. HIDE DEF k
<1>4. RunOK(k)
  BY <1>1, <1>3 DEF RunOK
<1>5. ManageOK(k, {})
  <2>1. \A x \in OpenSells : orders[x].symbol \in held
    BY SaleHeld
  <2>2. OpenSells \subseteq DOMAIN orders
    BY DEF OpenSells
  <2>. QED
    BY <1>1, <1>3, <2>1, <2>2 DEF ManageOK
<1>6. RunInv(k)
  BY <1>3, <1>4, <1>5 DEF RunInv, FirstLoops, LastLoops, Managing, Phase
<1>. QED
  BY <1>2, <1>6 DEF Advances

\* Starting, finishing and dying know nothing of the tables but the portfolio.
LEMMA EndsAdvance ==
    ASSUME TablesOK, OrdersStored, NEW p,
           StartRun(p) \/ StartUpdate(p) \/ FinishRun(p) \/ Crash(p)
    PROVE  Advances(p)
<1>1. ASSUME NEW k, Fields(k), k.phase = "queued" \/ k.phase = "update",
             k.day = today, k.mem = portfolio
      PROVE  RunInv(k)
  <2>1. \A s \in Symbol : lifecycle[s] # NoRow => lifecycle[s].day <= today
    <3>. SUFFICES ASSUME NEW s \in Symbol, lifecycle[s] # NoRow
                  PROVE  lifecycle[s].day <= today
      OBVIOUS
    <3>1. Bought(lifecycle[s].entry) /\ lifecycle[s].day = signals[lifecycle[s].entry].day + 1
      BY DEF TablesOK, LifecycleOK, RowOK
    <3>. QED
      BY <3>1, BoughtOrder DEF TablesOK, BuyOK
  <2>2. RunOK(k)
    BY <1>1, <2>1, Tables DEF RunOK
  <2>. QED
    BY <1>1, <2>2 DEF RunInv, FirstLoops, LastLoops, Managing, Phase
<1>2. CASE StartRun(p)
  <2>. DEFINE k == [NoJob EXCEPT !.phase = "queued", !.day = today, !.mem = portfolio]
  <2>1. Become(p, k) /\ Fields(k) /\ k.phase = "queued" /\ k.day = today /\ k.mem = portfolio
    BY <1>2 DEF StartRun, NoJob, Fields
  <2>. HIDE DEF k
  <2>. QED
    BY <1>1, <2>1 DEF Advances
<1>3. CASE StartUpdate(p)
  <2>. DEFINE k == [NoJob EXCEPT !.phase = "update", !.day = today, !.mem = portfolio]
  <2>1. Become(p, k) /\ Fields(k) /\ k.phase = "update" /\ k.day = today /\ k.mem = portfolio
    BY <1>3 DEF StartUpdate, NoJob, Fields
  <2>. HIDE DEF k
  <2>. QED
    BY <1>1, <2>1 DEF Advances
<1>4. CASE FinishRun(p) \/ Crash(p)
  BY <1>4, NoRunOK DEF FinishRun, Crash, Advances
<1>. QED
  BY <1>2, <1>3, <1>4
\* A position is done when no exit of it is reserved, or it has no bar.
LEMMA DoneKnows ==
    ASSUME NEW j, ManageOK(j, {}), NEW s,
           \A x \in OpenSells : orders[x].symbol = s => Bar(j.day, s) = NoBar,
           NEW k, k.day = j.day, k.held = j.held \ {s}, k.list = j.list, k.sells = j.sells
    PROVE  ManageOK(k, {})
<1>1. \A x \in OpenSells : orders[x].symbol \in k.held
                           \/ Bar(k.day, orders[x].symbol) = NoBar
  BY DEF ManageOK
<1>. QED
  BY <1>1 DEF ManageOK

\* The fields of a run that is done with a position.
LEMMA DoneFields ==
    ASSUME NEW p, NEW j, j = job[p], Fields(j), NEW s
    PROVE  /\ Fields(Done(p, s)) /\ Done(p, s).phase = "manage"
           /\ Done(p, s).day = j.day /\ Done(p, s).mem = j.mem
           /\ Done(p, s).held = j.held \ {s} /\ Done(p, s).list = j.list
           /\ Done(p, s).sells = j.sells
  BY DEF Done, Fields

\* Loaded sales of a position that is evaluated are its reserved exits.
LEMMA LoadedSales ==
    ASSUME NEW p, NEW j, j = job[p], ManageOK(j, {}), NEW s \in j.held
    PROVE  SellsOf(p, s) = {x \in OpenSells : orders[x].symbol = s}
<1>1. OpenSells \subseteq DOMAIN orders
  BY DEF OpenSells
<1>. QED
  BY <1>1 DEF SellsOf, ManageOK

\* A position that is passed over has no bar.
LEMMA SkipPositionAdvances ==
    ASSUME TablesOK, NEW p, NEW j, j = job[p], Fields(j), RunOK(j), ManageOK(j, {}),
           NEW s \in j.held, SkipPosition(p, s)
    PROVE  Advances(p)
<1>1. s \in Symbol /\ Holds(portfolio, s)
  BY DEF ManageOK
<1>2. lifecycle[s] # NoRow /\ lifecycle[s].day <= j.day
  BY <1>1, HeldRow
<1>3. Cardinality(SellsOf(p, s)) <= 1
  <2>1. \A x, y \in SellsOf(p, s) : x = y
    BY LoadedSales DEF TablesOK, OpenSalesOK
  <2>2. CASE SellsOf(p, s) = {}
    BY <2>2, FS_EmptySet
  <2>3. CASE SellsOf(p, s) # {}
    <3>1. PICK x : SellsOf(p, s) = {x}
      BY <2>1, <2>3
    <3>2. Cardinality({x}) = 1
      BY FS_Singleton
    <3>. QED
      BY <3>1, <3>2
  <2>. QED
    BY <2>2, <2>3
<1>4. Bar(j.day, s) = NoBar
  BY <1>2, <1>3 DEF SkipPosition, Decidable
<1>. PICK k : k = Done(p, s)
  OBVIOUS
<1>5. /\ Fields(k) /\ k.phase = "manage" /\ k.day = j.day /\ k.mem = j.mem
      /\ k.held = j.held \ {s} /\ k.list = j.list /\ k.sells = j.sells
  BY DoneFields
<1>6. ManageOK(k, {}) /\ RunOK(k)
  BY <1>4, <1>5, DoneKnows DEF RunOK
<1>7. RunInv(k)
  BY <1>5, <1>6 DEF RunInv, FirstLoops, LastLoops, Managing, Phase
<1>. QED
  BY <1>7 DEF Advances, SkipPosition

\* An exit that may be reserved: of the whole position, which no other exit sells.
Reservable(j, x, o) ==
    /\ IsExit(x) /\ o.symbol \in j.held /\ SellTerms(x, o) /\ ~Sold(x.signal)
    /\ OrderRecord(o) /\ o.status = "ACCEPTED"
    /\ SellsAll(o, portfolio.position[o.symbol])
    /\ x \in DOMAIN orders => x \in OpenSells /\ orders[x] = o
    /\ \A y \in OpenSells : orders[y].symbol = o.symbol => y = x

\* The run goes on to reserve it.
Reserving(j, k, x, o) ==
    /\ Fields(k) /\ k.phase = "reserve" /\ k.sale[1] = x /\ k.sale[2] = o
    /\ k.day = j.day /\ k.mem = j.mem
    /\ k.held = j.held /\ k.list = j.list /\ k.sells = j.sells

\* Reserving it changes the phase and the sale of the run.
LEMMA ReserveAdvances ==
    ASSUME NEW p, NEW j, Fields(j), RunOK(j), ManageOK(j, {}), NEW x, NEW o,
           Reservable(j, x, o), NEW k, Become(p, k),
           Reserving(j, k, x, o)
    PROVE  Advances(p)
<1>1. /\ Fields(k) /\ k.phase = "reserve" /\ k.day = j.day /\ k.mem = j.mem
      /\ k.held = j.held /\ k.list = j.list /\ k.sells = j.sells
      /\ k.sale[1] = x /\ k.sale[2] = o
  BY DEF Reserving
<1>3. ManageOK(k, {}) /\ RunOK(k)
  BY <1>1 DEF RunOK, ManageOK
<1>4. ReserveOK(k)
  BY <1>1, <1>3 DEF ReserveOK, Reservable, OrderRecord
<1>5. RunInv(k)
  BY <1>1, <1>3, <1>4 DEF RunInv, FirstLoops, LastLoops, Managing, Phase
<1>. QED
  BY <1>5 DEF Advances

\* An exit reserved before is resumed as it is.
LEMMA ResumeAdvances ==
    ASSUME TablesOK, OrdersStored, NEW p, NEW j, j = job[p], Fields(j), RunOK(j),
           ManageOK(j, {}), NEW s \in j.held, Resume(p, s)
    PROVE  Advances(p)
<1>1. PICK x \in SellsOf(p, s) :
          Become(p, [j EXCEPT !.phase = "reserve", !.sale = <<x, orders[x]>>])
  BY DEF Resume
<1>. PICK o : o = orders[x]
  OBVIOUS
<1>2. x \in OpenSells /\ o.symbol = s /\ x \in DOMAIN orders
  BY LoadedSales DEF OpenSells
<1>3. IsExit(x) /\ SellTerms(x, o) /\ o.status = "ACCEPTED" /\ ~Sold(x.signal)
  BY <1>2, OpenSellTerms DEF TablesOK, OpenSalesOK
<1>4. OrderRecord(o) /\ SellsAll(o, portfolio.position[s])
  BY <1>2 DEF OrdersStored, TablesOK, OpenSalesOK
<1>5. \A y \in OpenSells : orders[y].symbol = o.symbol => y = x
  BY <1>2 DEF TablesOK, OpenSalesOK
<1>6. o.symbol \in j.held /\ SellsAll(o, portfolio.position[o.symbol])
  BY <1>2, <1>4
<1>. QED
  <2>1. Reservable(j, x, o)
    BY <1>2, <1>3, <1>4, <1>5, <1>6 DEF Reservable
  <2>. PICK k : k = [j EXCEPT !.phase = "reserve", !.sale = <<x, o>>]
    OBVIOUS
  <2>2. Become(p, k) /\ Reserving(j, k, x, o)
    BY <1>1 DEF Reserving, Fields
  <2>. QED
    BY <2>1, <2>2, ReserveAdvances

\* A held position carries its levels over; its row stays valid.
LEMMA CarryKeepsRow ==
    ASSUME TablesOK, NEW p, NEW j, j = job[p], NEW s \in Symbol,
           j.day \in 1 .. today, RowOK(s, lifecycle[s]), Bar(j.day, s) # NoBar
    PROVE  RowOK(s, NextRow(p, s)) /\ NextRow(p, s).day = lifecycle[s].day
<1>. PICK r : r = lifecycle[s]
  OBVIOUS
<1>. PICK b : b = Bar(j.day, s)
  OBVIOUS
<1>. PICK next : next = Carry(ExitConfig, Position(r), b)
  OBVIOUS
<1>1. ValidBar(b)
  BY StoredBar
<1>2. /\ r.price \in Nat /\ r.stop \in Nat /\ r.highest \in Nat /\ r.trailing \in Nat
      /\ RowFields(r)
  BY DEF RowOK
<1>3. b.high \in Nat /\ b.atr \in Nat /\ TrailAtr \in Nat
  BY <1>1, StoreAssumption DEF ValidBar, Price, Level
<1>. PICK high : high = HighestPrice(Position(r), b)
  OBVIOUS
<1>. PICK trailing : trailing = NextTrailing(ExitConfig, Position(r), b)
  OBVIOUS
<1>4. high \in Nat
  BY <1>2, <1>3 DEF HighestPrice, Position, Higher
<1>5. PICK cut \in Nat : cut = TrailAtr * b.atr
  BY <1>3
<1>6. trailing \in Nat
  <2>1. \/ trailing = r.trailing
        \/ trailing = Higher(r.trailing, Higher(high - cut, r.stop))
    BY <1>5 DEF NextTrailing, Position
  <2>. QED
    BY <1>2, <1>4, <1>5, <2>1 DEF Higher
<1>7. next.highest = high /\ next.trailing = trailing
  BY DEF Carry, Position
<1>. PICK since : since = IF next.trailing = r.trailing THEN r.since ELSE j.day
  OBVIOUS
<1>. PICK n : n = [r EXCEPT !.highest = next.highest, !.trailing = next.trailing,
                            !.since = since]
  OBVIOUS
<1>a. NextRow(p, s) = n
  BY DEF NextRow
<1>8. /\ RowFields(n) /\ n.highest = high /\ n.trailing = trailing
      /\ n.entry = r.entry /\ n.day = r.day /\ n.price = r.price /\ n.stop = r.stop
      /\ n.target = r.target
  BY <1>2, <1>7 DEF RowFields
<1>9. RowOK(s, n)
  BY <1>4, <1>6, <1>8 DEF RowOK, ValidRow
<1>. QED
  BY <1>8, <1>9, <1>a

\* A position that is held is not being sold.
LEMMA HoldAdvances ==
    ASSUME TablesOK, NEW p, NEW j, j = job[p], Fields(j), RunOK(j), ManageOK(j, {}),
           NEW s \in j.held, HoldPosition(p, s)
    PROVE  Advances(p)
<1>. PICK row : row = NextRow(p, s)
  OBVIOUS
<1>. DEFINE k == [j EXCEPT !.phase = "hold", !.row = row, !.sale = <<s>>]
<1>1. s \in Symbol /\ Holds(portfolio, s)
  BY DEF ManageOK
<1>2. Bar(j.day, s) # NoBar /\ SellsOf(p, s) = {} /\ Become(p, k)
  BY DEF HoldPosition, Decidable
<1>3. RowOK(s, row) /\ row.day <= j.day
  BY <1>1, <1>2, HeldRow, CarryKeepsRow DEF RunOK
<1>4. /\ Fields(k) /\ k.phase = "hold" /\ k.day = j.day /\ k.mem = j.mem
      /\ k.held = j.held /\ k.list = j.list /\ k.sells = j.sells
      /\ k.sale[1] = s /\ k.row = row
  BY DEF Fields
<1>. HIDE DEF k
<1>5. ManageOK(k, {}) /\ RunOK(k)
  BY <1>4 DEF RunOK, ManageOK
<1>6. \A x \in OpenSells : orders[x].symbol # s
  BY <1>2, LoadedSales
<1>7. HoldOK(k)
  BY <1>3, <1>4, <1>5, <1>6 DEF HoldOK
<1>8. RunInv(k)
  BY <1>4, <1>5, <1>7 DEF RunInv, FirstLoops, LastLoops, Managing, Phase
<1>. QED
  BY <1>2, <1>8 DEF Advances

\* A new exit sells the whole position above its costs, under an intent that no
\* order has: the row still protects what it sells.
LEMMA DecideAdvances ==
    ASSUME TablesOK, NEW p, NEW j, j = job[p], Fields(j), RunOK(j), ManageOK(j, {}),
           NEW s \in j.held, DecideExit(p, s), ~Abort(p)
    PROVE  Advances(p)
<1>. PICK r : r = lifecycle[s]
  OBVIOUS
<1>. PICK b : b = Bar(j.day, s)
  OBVIOUS
<1>. PICK d : d = Decision(p, s)
  OBVIOUS
<1>. PICK o : o = SellOrder(p, s)
  OBVIOUS
<1>. PICK x : x = ExitOf(r, o.day, o.qty, o.reason)
  OBVIOUS
<1>1. s \in Symbol /\ Holds(portfolio, s) /\ Outstanding(j.day) = {}
      /\ j.list[s] = portfolio.position[s] /\ j.day \in 1 .. today
  BY DEF ManageOK, RunOK
<1>2. /\ Become(p, [j EXCEPT !.phase = "reserve", !.sale = <<x, o>>])
      /\ b # NoBar /\ SellsOf(p, s) = {} /\ d # Hold
  BY DEF DecideExit, Decidable
<1>3. /\ RowOK(s, r) /\ r.day <= j.day /\ r.day \in Nat
      /\ portfolio.position[s].qty \in Nat \ {0} /\ portfolio.position[s].average \in Nat
  BY <1>1, HeldRow
<1>4. d.price \in Nat /\ b.low <= d.price
  BY <1>1, <1>2, <1>3, StoredBar, RowPosition, ExitAboveLow DEF Decision
<1>5. d.price \in Price /\ Costs < d.price
  <2>1. Costs < b.low /\ b.low \in Nat \ {0} /\ Costs \in Nat
    BY <1>1, <1>2, StoredBar, StoreAssumption DEF ValidBar, Price, NoPrice, Costs
  <2>. QED
    BY <1>4, <2>1 DEF Price, NoPrice
<1>6. /\ o.side = "SELL" /\ o.status = "ACCEPTED" /\ o.symbol = s
      /\ o.qty = portfolio.position[s].qty /\ o.price = d.price
      /\ o.average = portfolio.position[s].average
      /\ OrderRecord(o)
  BY <1>1 DEF SellOrder, OrderRecord
<1>7. IsExit(x) /\ x.signal = r.entry
  BY DEF IsExit, ExitOf
<1>8. /\ r.entry \in DOMAIN signals /\ Bought(r.entry) /\ ~Sold(r.entry)
      /\ signals[r.entry].symbol = s /\ signals[r.entry].status # "PENDING"
  <2>1. /\ r.entry \in DOMAIN signals /\ signals[r.entry].symbol = s
        /\ Bought(r.entry) /\ ~Sold(r.entry) /\ r.day = signals[r.entry].day + 1
    BY <1>3 DEF RowOK
  <2>2. signals[r.entry].day \in Nat
    BY <2>1, Tables
  <2>3. signals[r.entry].day < j.day
    BY <1>1, <1>3, <2>1, <2>2
  <2>. QED
    BY <1>1, <2>1, <2>3 DEF Outstanding
<1>9. SellTerms(x, o)
  BY <1>3, <1>5, <1>6, <1>7, <1>8 DEF SellTerms
<1>10. \A y \in OpenSells : orders[y].symbol # s
  BY <1>2, LoadedSales
<1>11. x \notin DOMAIN orders
  <2>. SUFFICES ASSUME x \in DOMAIN orders PROVE FALSE
    OBVIOUS
  <2>1. SellTerms(x, orders[x]) /\ x \in OpenSells
    BY <1>7, <1>8, ExitOrder DEF TablesOK
  <2>. QED
    BY <1>7, <1>8, <1>10, <2>1 DEF SellTerms
<1>12. /\ o.symbol \in j.held /\ SellsAll(o, portfolio.position[o.symbol])
       /\ \A y \in OpenSells : orders[y].symbol = o.symbol => y = x
       /\ ~Sold(x.signal)
  BY <1>6, <1>7, <1>8, <1>10 DEF SellsAll
<1>. QED
  <2>1. Reservable(j, x, o)
    BY <1>6, <1>7, <1>9, <1>11, <1>12 DEF Reservable
  <2>. PICK k : k = [j EXCEPT !.phase = "reserve", !.sale = <<x, o>>]
    OBVIOUS
  <2>2. Become(p, k) /\ Reserving(j, k, x, o)
    BY <1>2 DEF Reserving, Fields
  <2>. QED
    BY <2>1, <2>2, ReserveAdvances

\* Whatever is decided for a position, the run goes on or dies.
LEMMA EvaluateAdvances ==
    ASSUME TablesOK, OrdersStored, NEW p, RunInv(job[p]), EvaluatePosition(p)
    PROVE  Advances(p)
<1>. PICK j : j = job[p]
  OBVIOUS
<1>1. Fields(j) /\ RunOK(j) /\ ManageOK(j, {})
  BY DEF EvaluatePosition, At, RunInv, Managing
<1>2. PICK s \in j.held :
          SkipPosition(p, s) \/ Resume(p, s) \/ HoldPosition(p, s) \/ DecideExit(p, s)
  BY DEF EvaluatePosition
<1>. QED
  BY <1>1, <1>2, AbortAdvances, SkipPositionAdvances, ResumeAdvances, HoldAdvances,
     DecideAdvances

=============================================================================
