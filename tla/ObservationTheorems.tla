------------------------- MODULE ObservationTheorems -------------------------
(***************************************************************************)
(* What the prospective evidence of paper runs tells, for every number of  *)
(* processes, symbols, signals, sessions, configurations and deaths, as    *)
(* long as one process works at a time.  The account itself is abstracted  *)
(* to three facts: fills are only appended, an order keeps its session,    *)
(* and a run orders for a session that has its baseline.                   *)
(***************************************************************************)
EXTENDS PaperTheorems, PaperObservation

-----------------------------------------------------------------------------
(* The invariant. *)

\* The session of the order a fill belongs to.
FillDay(k) == orders[fills[k].intent].day

\* Phases in which a run may order something.
Ordering(j) == j.phase \notin {"idle", "update"}
Exiting(j) == j.phase \in {"reserve", "sell"}

\* A run works for a session that has its baseline, and so does what it sells.
JobDated(j, days) ==
    /\ Ordering(j) => j.day \in days
    /\ Exiting(j) => j.sale[2].day \in days

OrdersDated(days) == \A x \in DOMAIN orders : orders[x].day \in days

\* Every order is of a session with a baseline, and none of the fills before a
\* baseline is of its session or a later one.
DatesOK ==
    /\ \E S : market \in Seq(S)
    /\ DOMAIN baselines \subseteq 0 .. today
    /\ \A d \in DOMAIN baselines :
        /\ baselines[d] \in 0 .. Len(fills)
        /\ \A k \in 1 .. baselines[d] : FillDay(k) < d
    /\ OrdersDated(DOMAIN baselines)
    /\ \A p \in Process : JobDated(job[p], DOMAIN baselines)

\* An observation tells all fills up to its cursor, from some fill on.
ObservationOK(o) ==
    /\ o.day \in DOMAIN baselines
    /\ o.cursor \in 0 .. Len(fills)
    /\ \E n \in 0 .. o.cursor : o.told = n + 1 .. o.cursor

CapturePhase == {"none", "find", "replay", "prior", "account", "append", "captured"}

\* A capture is of a session with a baseline; what it has found is an observation.
CaptureOK(c) ==
    /\ {"phase", "day", "config", "since", "pin", "draft"} \subseteq DOMAIN c
    /\ c.phase \in CapturePhase
    /\ c.phase # "none" => c.day \in DOMAIN baselines
    /\ c.phase = "replay" => c.draft \in observations /\ Key(c.draft) = Key(c)
    /\ c.phase \in {"account", "append"} => c.since \in 0 .. Len(fills)
    /\ c.phase = "append" => ObservationOK(c.draft) /\ Key(c.draft) = Key(c)

\* The locals of a capture are named, so that they are those of one state.
ObservationsOK ==
    /\ \A o \in observations : ObservationOK(o)
    /\ capture = [p \in Process |-> capture[p]]
    /\ \A p \in Process : \A c \in {capture[p]} : CaptureOK(c)

-----------------------------------------------------------------------------
(* What holds as long as one process works at a time. *)

OneWorks ==
    /\ \A p, q \in Process : Working(p) /\ Working(q) => p = q
    /\ \A p \in Process : ~Idle(p) => Capturing(p, "none")

Told(k) == \E q \in observations : k \in q.told

\* Filled for a session before every observed one.
Early(k) == \A q \in observations : FillDay(k) < q.day

\* A later session tells what comes behind all that an earlier one has told.
ToldInOrder ==
    \A o, q \in observations : o.day < q.day =>
        /\ o.cursor <= q.cursor
        /\ \A k \in q.told : o.cursor < k

NoneMissed == \A o \in observations : \A k \in 1 .. o.cursor : Told(k) \/ Early(k)

\* Who works, works for the latest session there is an observation of.
Latest(day) == \A o \in observations : o.day <= day

\* What a capture resumes from is behind every earlier session, and misses nothing.
ResumesBehind(c) ==
    /\ \A o \in observations : o.day < c.day => o.cursor <= c.since
    /\ \A k \in 1 .. c.since : Told(k) \/ (Early(k) /\ FillDay(k) < c.day)

\* Nobody trades while a capture is under way, so what it has read stays so.
CaptureKnows(c) ==
    /\ c.phase # "none" => Latest(c.day)
    /\ c.phase \in {"account", "append"} => ResumesBehind(c)
    /\ c.phase = "append" => SameState(c.draft) /\ c.draft.told = c.since + 1 .. Len(fills)
    /\ c.phase = "captured" => \E o \in observations : Key(o) = Key(c) /\ SameState(o)

TellingOK ==
    /\ OneWorks /\ ToldInOrder /\ NoneMissed
    /\ \A p \in Process :
        /\ \A j \in {job[p]} : Ordering(j) => Latest(j.day)
        /\ \A c \in {capture[p]} : CaptureKnows(c)

EvidenceInv ==
    /\ IntentInv /\ DayInv
    /\ DatesOK /\ ObservationsOK
    /\ ~overlapped => TellingOK

-----------------------------------------------------------------------------
(* The sessions of runs and orders. *)

\* A run ends, or goes on with its session.
Continues(p, days) ==
    \E j : /\ Become(p, j) /\ JobDated(j, days)
           /\ \/ j.phase = "idle"
              \/ /\ Ordering(job[p]) /\ ~Returning(p)
                 /\ Ordering(j) /\ j.day = job[p].day

\* A run that ends has no session.
LEMMA EndContinues ==
    ASSUME NEW p, NEW days, Become(p, NoJob)
    PROVE  Continues(p, days)
<1>1. PICK j : j = NoJob
  OBVIOUS
<1>2. j.phase = "idle"
  BY <1>1 DEF NoJob
<1>3. Become(p, j) /\ JobDated(j, days)
  BY <1>1, <1>2 DEF JobDated, Ordering, Exiting
<1>. QED
  BY <1>2, <1>3 DEF Continues

\* Unless it is about to sell, a run that goes on with its session is dated.
LEMMA GoesOn ==
    ASSUME NEW p, NEW days, NEW j, Become(p, j),
           Ordering(job[p]), JobDated(job[p], days), ~Returning(p),
           Ordering(j), j.day = job[p].day, Exiting(j) => j.sale[2].day \in days
    PROVE  Continues(p, days)
  BY DEF Continues, JobDated

LoopPhase == {"queued", "fresh", "settle", "restore", "restored", "price", "settlePriced",
              "execute", "initialize", "initialized", "complete", "load"}

\* From one loop over signals to the same or the next.
LEMMA LoopGoesOn ==
    ASSUME NEW p, NEW days, NEW j, Become(p, j),
           job[p].phase \in LoopPhase, JobDated(job[p], days),
           j.phase \in LoopPhase, j.day = job[p].day
    PROVE  Continues(p, days)
  BY GoesOn DEF LoopPhase, Ordering, Exiting, Returning, At

\* The first half of a run goes on with its session.
LEMMA ExecutionContinues ==
    ASSUME NEW p, NEW days, Fields(job[p]), JobDated(job[p], days), ExecutionStep(p)
    PROVE  Continues(p, days)
<1>1. CASE LoadPending(p)
  BY <1>1, LoopGoesOn DEF LoadPending, At, Fields, LoopPhase
<1>2. CASE CheckFreshness(p)
  <2>0. job[p].phase = "fresh"
    BY <1>2 DEF CheckFreshness, At
  <2>1. CASE Executed(p)
    BY <2>0, <2>1, LoopGoesOn DEF Executed, Settle, Fields, LoopPhase
  <2>2. CASE Refused(p) \/ Missed(p)
    BY <2>0, <2>2, LoopGoesOn DEF Refused, Missed, Settle, Fields, LoopPhase
  <2>3. CASE Due(p)
    BY <2>0, <2>3, LoopGoesOn DEF Due, Settle, Keep, Fields, LoopPhase
  <2>. QED
    BY <1>2, <2>1, <2>2, <2>3 DEF CheckFreshness
<1>3. CASE RestoreLifecycle(p)
  BY <1>3, LoopGoesOn DEF RestoreLifecycle, At, Fields, LoopPhase
<1>4. CASE MarkRestored(p)
  BY <1>4, LoopGoesOn DEF MarkRestored, Settle, At, Fields, LoopPhase
<1>5. CASE SettleSignal(p)
  BY <1>5, LoopGoesOn DEF SettleSignal, Fields, LoopPhase
<1>6. CASE PriceSignal(p)
  <2>0. job[p].phase = "price"
    BY <1>6 DEF PriceSignal, At
  <2>1. CASE SettlePriced(p, "REJECTED")
    BY <2>0, <2>1, LoopGoesOn DEF SettlePriced, Fields, LoopPhase
  <2>2. CASE Abort(p)
    BY <2>2, EndContinues DEF Abort
  <2>3. CASE Keep(p, First(p))
    BY <2>0, <2>3, LoopGoesOn DEF Keep, Fields, LoopPhase
  <2>. QED
    BY <1>6, <2>1, <2>2, <2>3 DEF PriceSignal
<1>7. CASE SkipSignal(p)
  BY <1>7, LoopGoesOn DEF SkipSignal, Result, At, Fields, LoopPhase
<1>8. CASE RejectEntry(p)
  <2>1. job[p].phase = "execute" /\ (Result(p, job[p], "REJECTED") \/ Abort(p))
    BY <1>8 DEF RejectEntry, At
  <2>. QED
    BY <2>1, LoopGoesOn, EndContinues DEF Result, Abort, Fields, LoopPhase
<1>9. CASE FillEntry(p)
  <2>1. job[p].phase = "execute"
    BY <1>9 DEF FillEntry, At
  <2>2. PICK row, mem :
            \/ Become(p, [job[p] EXCEPT !.phase = "initialize", !.verdict = "FILLED",
                                        !.count = @ + 1, !.row = row, !.mem = mem])
            \/ Abort(p)
    BY <1>9 DEF FillEntry
  <2>. QED
    BY <2>1, <2>2, LoopGoesOn, EndContinues DEF Abort, Fields, LoopPhase
<1>10. CASE FindEntry(p)
  BY <1>10, LoopGoesOn DEF FindEntry, Result, At, Fields, LoopPhase
<1>11. CASE InitializePosition(p)
  BY <1>11, LoopGoesOn DEF InitializePosition, At, Fields, LoopPhase
<1>12. CASE MarkEntry(p)
  BY <1>12, LoopGoesOn DEF MarkEntry, Result, At, Fields, LoopPhase
<1>13. CASE CompleteSignal(p)
  BY <1>13, LoopGoesOn DEF CompleteSignal, At, Fields, LoopPhase
<1>14. CASE EndLoop(p)
  BY <1>14, LoopGoesOn DEF EndLoop, NextLoop, At, Fields, LoopPhase
<1>. QED
  BY <1>1, <1>2, <1>3, <1>4, <1>5, <1>6, <1>7, <1>8, <1>9, <1>10, <1>11, <1>12, <1>13,
     <1>14 DEF ExecutionStep

\* A position that is done leaves the run with its session.
LEMMA DoneGoesOn ==
    ASSUME NEW p, NEW days, Fields(job[p]), JobDated(job[p], days),
           Ordering(job[p]), ~Returning(p), NEW s, NEW mem, NEW sells,
           \/ Become(p, Done(p, s))
           \/ Become(p, [Done(p, s) EXCEPT !.mem = mem])
           \/ Become(p, [Done(p, s) EXCEPT !.mem = mem, !.sells = sells])
    PROVE  Continues(p, days)
<1>1. PICK k : k = Done(p, s)
  OBVIOUS
<1>2. PICK m : m = [k EXCEPT !.mem = mem]
  OBVIOUS
<1>3. PICK x : x = [k EXCEPT !.mem = mem, !.sells = sells]
  OBVIOUS
<1>4. /\ {"phase", "day", "mem", "sells"} \subseteq DOMAIN k
      /\ k.phase = "manage" /\ k.day = job[p].day
  BY <1>1 DEF Done, Fields
<1>5. m.phase = "manage" /\ m.day = job[p].day
  BY <1>2, <1>4
<1>6. x.phase = "manage" /\ x.day = job[p].day
  BY <1>3, <1>4
<1>7. Become(p, k) \/ Become(p, m) \/ Become(p, x)
  BY <1>1, <1>2, <1>3
<1>8. ASSUME NEW j, j.phase = "manage", j.day = job[p].day, Become(p, j)
      PROVE  Continues(p, days)
  BY <1>8, GoesOn DEF Ordering, Exiting
<1>. QED
  BY <1>4, <1>5, <1>6, <1>7, <1>8

\* The second half too; what it is about to sell is of a session that has its
\* baseline: its own, or that of a reserved exit.
LEMMA LifecycleContinues ==
    ASSUME NEW p, NEW days, JobOK(job[p], DOMAIN orders), Fields(job[p]),
           OrdersDated(days), JobDated(job[p], days), LifecycleStep(p)
    PROVE  Continues(p, days)
<1>. PICK j : j = job[p]
  OBVIOUS
<1>1. CASE LoadPositions(p)
  <2>1. PICK list, held :
          Become(p, [NoJob EXCEPT !.phase = "manage", !.day = job[p].day, !.mem = portfolio,
                                  !.pin = today, !.list = list, !.held = held,
                                  !.sells = OpenSells])
    BY <1>1 DEF LoadPositions
  <2>2. job[p].phase = "load"
    BY <1>1 DEF LoadPositions, At
  <2>. QED
    BY <2>1, <2>2, GoesOn DEF NoJob, Ordering, Exiting, Returning, At
<1>2. CASE EvaluatePosition(p)
  <2>1. PICK s \in j.held :
            SkipPosition(p, s) \/ Resume(p, s) \/ HoldPosition(p, s) \/ DecideExit(p, s)
    BY <1>2 DEF EvaluatePosition
  <2>2. Ordering(j) /\ ~Returning(p)
    BY <1>2, <2>1 DEF EvaluatePosition, At, Ordering, Returning
  <2>3. CASE SkipPosition(p, s)
    BY <2>2, <2>3, DoneGoesOn DEF SkipPosition
  <2>4. CASE Resume(p, s)
    <3>1. PICK x \in SellsOf(p, s) :
              Become(p, [j EXCEPT !.phase = "reserve", !.sale = <<x, orders[x]>>])
      BY <2>4 DEF Resume
    <3>2. x \in DOMAIN orders
      BY <3>1 DEF SellsOf, JobOK
    <3>3. orders[x].day \in days
      BY <3>2 DEF OrdersDated
    <3>. DEFINE k == [j EXCEPT !.phase = "reserve", !.sale = <<x, orders[x]>>]
    <3>4. k.phase = "reserve" /\ k.day = j.day /\ k.sale = <<x, orders[x]>>
      BY DEF Fields
    <3>5. Become(p, k) /\ k.sale[2].day \in days
      BY <3>1, <3>3, <3>4
    <3>. HIDE DEF k
    <3>. QED
      BY <2>2, <3>4, <3>5, GoesOn DEF Ordering
  <2>5. CASE HoldPosition(p, s)
    <3>1. PICK row : Become(p, [j EXCEPT !.phase = "hold", !.row = row, !.sale = <<s>>])
      BY <2>5 DEF HoldPosition
    <3>. QED
      BY <2>2, <3>1, GoesOn DEF Fields, Ordering, Exiting
  <2>6. CASE DecideExit(p, s)
    <3>1. CASE Abort(p)
      BY <3>1, EndContinues DEF Abort
    <3>2. CASE ~Abort(p)
      <4>1. PICK x, o : /\ Become(p, [j EXCEPT !.phase = "reserve", !.sale = <<x, o>>])
                        /\ o.day = j.day
        <5>1. SellOrder(p, s).day = j.day
          BY DEF SellOrder
        <5>. QED
          BY <2>6, <3>2, <5>1 DEF DecideExit
      <4>. DEFINE k == [j EXCEPT !.phase = "reserve", !.sale = <<x, o>>]
      <4>2. k.phase = "reserve" /\ k.day = j.day /\ k.sale = <<x, o>>
        BY DEF Fields
      <4>3. Become(p, k) /\ k.sale[2].day \in days
        BY <2>2, <4>1, <4>2 DEF JobDated
      <4>. HIDE DEF k
      <4>. QED
        BY <2>2, <4>2, <4>3, GoesOn DEF Ordering
    <3>. QED
      BY <3>1, <3>2
  <2>. QED
    BY <2>1, <2>3, <2>4, <2>5, <2>6
<1>3. CASE SaveHold(p)
  <2>1. Ordering(j) /\ ~Returning(p)
    BY <1>3 DEF SaveHold, At, Ordering, Returning
  <2>2. Become(p, Done(p, j.sale[1])) \/ Abort(p)
    BY <1>3 DEF SaveHold
  <2>. QED
    BY <2>1, <2>2, DoneGoesOn, EndContinues DEF Abort
<1>4. CASE FindExit(p, "reserve") \/ FindExit(p, "sell")
  <2>1. Ordering(j) /\ ~Returning(p)
    BY <1>4 DEF FindExit, At, Ordering, Returning
  <2>2. Become(p, [Done(p, SaleOf(p).symbol) EXCEPT !.mem = portfolio, !.sells = OpenSells])
    BY <1>4 DEF FindExit
  <2>. QED
    BY <2>1, <2>2, DoneGoesOn
<1>5. CASE ReserveSale(p)
  <2>1. j.phase = "reserve" /\ Ordering(j) /\ ~Returning(p)
    BY <1>5 DEF ReserveSale, At, Ordering, Returning
  <2>2. \/ Become(p, Done(p, SaleOf(p).symbol)) \/ Abort(p)
        \/ Become(p, [j EXCEPT !.phase = "sell"])
    BY <1>5 DEF ReserveSale, RefuseSale
  <2>3. CASE Become(p, [j EXCEPT !.phase = "sell"])
    <3>. DEFINE k == [j EXCEPT !.phase = "sell"]
    <3>1. Become(p, k) /\ k.phase = "sell" /\ k.day = j.day /\ k.sale = j.sale
      BY <2>3 DEF Fields
    <3>. HIDE DEF k
    <3>2. k.sale[2].day \in days
      BY <2>1, <3>1 DEF JobDated, Exiting
    <3>. QED
      BY <2>1, <3>1, <3>2, GoesOn DEF Ordering
  <2>. QED
    BY <2>1, <2>2, <2>3, DoneGoesOn, EndContinues DEF Abort
<1>6. CASE FillExit(p)
  <2>1. Ordering(j) /\ ~Returning(p)
    BY <1>6 DEF FillExit, At, Ordering, Returning
  <2>2. PICK mem : Become(p, [Done(p, SaleOf(p).symbol) EXCEPT !.mem = mem])
    BY <1>6 DEF FillExit
  <2>. QED
    BY <2>1, <2>2, DoneGoesOn
<1>7. CASE FinishRun(p)
  BY <1>7, EndContinues DEF FinishRun
<1>. QED
  BY <1>1, <1>2, <1>3, <1>4, <1>5, <1>6, <1>7 DEF LifecycleStep

\* A run of either half.
LEMMA RunContinues ==
    ASSUME NEW p, NEW days, JobOK(job[p], DOMAIN orders), JobDays(job[p]),
           OrdersDated(days), JobDated(job[p], days), RunStep(p)
    PROVE  Continues(p, days)
  BY ExecutionContinues, LifecycleContinues DEF RunStep, JobDays

\* An order that a run adds is of a session that has its baseline.
LEMMA AddedOrderDated ==
    ASSUME OrdersStored, NEW p, NEW days, JobDays(job[p]), JobOK(job[p], DOMAIN orders),
           JobDated(job[p], days), RunStep(p),
           NEW x \in DOMAIN orders', x \notin DOMAIN orders
    PROVE  orders'[x].day \in days
<1>1. ASSUME job[p].phase = "execute", NEW qty, NEW status,
             orders'[x] = [BuyOrder(p, qty) EXCEPT !.status = status]
      PROVE  orders'[x].day \in days
  <2>1. orders'[x].day = job[p].day
    BY <1>1 DEF BuyOrder
  <2>. QED
    BY <1>1, <2>1 DEF JobDated, Ordering
<1>2. CASE RejectEntry(p)
  <2>1. PICK qty \in Quantity :
            InsertOrder(Entry(First(p)), [BuyOrder(p, qty) EXCEPT !.status = "REJECTED"])
    BY <1>2 DEF RejectEntry
  <2>2. orders'[x] = [BuyOrder(p, qty) EXCEPT !.status = "REJECTED"]
    BY <2>1 DEF InsertOrder
  <2>. QED
    BY <1>1, <1>2, <2>2 DEF RejectEntry, At
<1>3. CASE FillEntry(p)
  <2>1. PICK qty \in Quantity : SaveEntry(First(p), BuyOrder(p, qty), job[p].mem)
    BY <1>3 DEF FillEntry, storeVars
  <2>2. orders'[x] = [BuyOrder(p, qty) EXCEPT !.status = "FILLED"]
    BY <2>1 DEF SaveEntry, FillOrder
  <2>. QED
    BY <1>1, <1>3, <2>2 DEF FillEntry, At
<1>4. CASE ReserveSale(p)
  <2>1. job[p].phase = "reserve" /\ x = Intent(p)
    BY <1>4 DEF ReserveSale, RefuseSale, InsertOrder, ReserveExit, At
  <2>2. "day" \in DOMAIN SaleOf(p) /\ SaleOf(p).day \in days
    BY <2>1 DEF JobDays, JobDated, Exiting, Intent, SaleOf
  <2>3. orders'[x] = SaleOf(p) \/ orders'[x] = [SaleOf(p) EXCEPT !.status = "REJECTED"]
    BY <1>4 DEF ReserveSale, RefuseSale, InsertOrder, ReserveExit
  <2>. QED
    BY <2>2, <2>3
<1>5. CASE FillExit(p)
  <2>1. Status(Intent(p)) = "ACCEPTED" /\ x = Intent(p)
    BY <1>5 DEF FillExit, SaveExit, FillOrder
  <2>. QED
    BY <2>1, NoneIsNew
<1>6. CASE UNCHANGED orders
  BY <1>6
<1>7. CASE ExecutionStep(p) /\ ~RejectEntry(p) /\ ~FillEntry(p)
  BY <1>6, <1>7, ExecutionQuiet DEF ExecutionStep, Quiet, KeepsIntents
<1>8. CASE LifecycleStep(p) /\ ~ReserveSale(p) /\ ~FillExit(p)
  BY <1>6, <1>8, LifecycleQuiet DEF LifecycleStep, Quiet, KeepsIntents
<1>. QED
  BY <1>2, <1>3, <1>4, <1>5, <1>7, <1>8 DEF RunStep

\* Stored orders keep their session, so only what a step adds matters.
LEMMA OrdersStayDated ==
    ASSUME OrdersStored, OrdersStored', OrderDays, OrdersGrow,
           NEW days, OrdersDated(days),
           \A x \in DOMAIN orders' \ DOMAIN orders : orders'[x].day \in days
    PROVE  \A x \in DOMAIN orders' : orders'[x].day \in days
<1>1. ASSUME NEW x \in DOMAIN orders PROVE orders'[x].day \in days
  <2>1. orders'[x].day = orders[x].day
    BY TermsTellDay DEF OrdersStored, OrdersGrow, OrderDays
  <2>. QED
    BY <2>1 DEF OrdersDated
<1>. QED
  BY <1>1

-----------------------------------------------------------------------------
(* Fills are appended, and keep their session. *)

Grows ==
    /\ Len(fills) \in Nat /\ Len(fills') \in Nat /\ Len(fills) <= Len(fills')
    /\ \A k \in 1 .. Len(fills) : FillDay(k)' = FillDay(k)

FillsStay == \A k \in DOMAIN fills : k \in DOMAIN fills' /\ fills'[k] = fills[k]

\* A step that fills an intent appends its fill.
LEMMA IntentsAppend ==
    ASSUME FillsMatchOrders, IntentStep
    PROVE  FillsStay
<1>1. CASE UNCHANGED fills
  BY <1>1 DEF FillsStay
<1>2. CASE FillsIntent
  <2>1. PICK r : fills' = Append(fills, r)
    BY <1>2 DEF FillsIntent, FillOrder
  <2>2. PICK S : fills \in Seq(S)
    BY DEF FillsMatchOrders
  <2>3. fills \in Seq(S \cup {r}) /\ r \in S \cup {r}
    BY <2>2
  <2>. QED
    BY <2>1, <2>3 DEF FillsStay
<1>. QED
  BY <1>1, <1>2 DEF IntentStep, KeepsIntents, InsertsRejected, ReservesIntent

\* Fills that stay, of orders that keep their terms, keep their session.
LEMMA StayingGrows ==
    ASSUME IntentInv, DayInv, IntentInv', OrdersGrow, FillsStay
    PROVE  Grows
<1>1. PICK n \in Nat, m \in Nat :
          /\ n = Len(fills) /\ DOMAIN fills = 1 .. n
          /\ m = Len(fills') /\ DOMAIN fills' = 1 .. m
  BY DEF IntentInv, FillsMatchOrders
<1>2. n <= m
  <2>1. CASE n = 0
    BY <2>1
  <2>2. CASE n # 0
    <3>1. n \in 1 .. m
      BY <1>1, <2>2 DEF FillsStay
    <3>. QED
      BY <3>1
  <2>. QED
    BY <2>1, <2>2
<1>3. ASSUME NEW k \in 1 .. n PROVE FillDay(k)' = FillDay(k)
  <2>1. PICK x : x = fills[k].intent /\ x = fills'[k].intent
    BY <1>1 DEF FillsStay
  <2>2. x \in DOMAIN orders /\ x \in DOMAIN orders'
    <3>1. k \in 1 .. Len(fills)
      BY <1>1
    <3>2. fills[k].intent \in DOMAIN orders
      BY <3>1 DEF IntentInv, FillsMatchOrders
    <3>. QED
      BY <2>1, <3>2 DEF OrdersGrow
  <2>3. orders'[x].day = orders[x].day
    BY <2>2, TermsTellDay DEF IntentInv, OrdersStored, OrdersGrow, DayInv, OrderDays
  <2>. QED
    BY <2>1, <2>3 DEF FillDay
<1>. QED
  BY <1>1, <1>2, <1>3 DEF Grows

\* A step of the observed system is one of paper trading, or a capture dies.
LEMMA ObservedIsNext ==
    ASSUME [ObservedNext]_observedVars
    PROVE  [Next]_paperVars \/ \E p \in Process : CaptureCrash(p)
<1>1. ASSUME NEW p \in Process, CaptureStep(p) PROVE UNCHANGED paperVars
  BY <1>1 DEF CaptureStep, FindObservation, ReplayObservation, FindPrior, ReadAccount,
              AppendObservation, ReportRun, CapturesOnly
<1>2. CASE UNCHANGED observedVars
  BY <1>2 DEF observedVars
<1>3. ASSUME NEW p \in Process, StartObservedRun(p) \/ StartPriceUpdate(p)
                                \/ ObservedRunStep(p) \/ Crash(p)
      PROVE  Next
  BY <1>3 DEF Next, StartObservedRun, StartPriceUpdate, ObservedRunStep
<1>4. CASE OpenSession \/ QueueSignal
  BY <1>4 DEF Next
<1>. QED
  BY <1>1, <1>2, <1>3, <1>4 DEF ObservedNext

\* Whatever is observed, intents and dates keep their invariants and fills stay.
LEMMA StoreKeeps ==
    ASSUME IntentInv, DayInv, [ObservedNext]_observedVars
    PROVE  IntentInv' /\ DayInv' /\ OrdersGrow /\ Grows
<1>1. CASE [Next]_paperVars
  <2>1. IntentInv' /\ DayInv' /\ OrdersGrow
    BY <1>1, IntentInvNext, DayInvNext
  <2>2. FillsStay
    <3>1. CASE UNCHANGED fills
      BY <3>1 DEF FillsStay
    <3>2. ASSUME NEW p \in Process, RunStep(p) PROVE FillsStay
      <4>1. IntentStep
        BY <3>2, ExecutionKeeps, LifecycleKeeps DEF IntentInv, JobsOK, RunStep
      <4>. QED
        BY <4>1, IntentsAppend DEF IntentInv
    <3>3. CASE ~(\E p \in Process : RunStep(p))
      <4>1. UNCHANGED fills
        BY <1>1, <3>3 DEF Next, OpenSession, QueueSignal, StartRun, StartUpdate, Crash,
                          storeVars, paperVars
      <4>. QED
        BY <3>1, <4>1
    <3>. QED
      BY <3>2, <3>3
  <2>. QED
    BY <2>1, <2>2, StayingGrows
<1>2. ASSUME NEW p \in Process, CaptureCrash(p)
      PROVE  IntentInv' /\ DayInv' /\ OrdersGrow /\ Grows
  <2>1. UNCHANGED <<orders, fills, signals, job>>
    BY <1>2 DEF CaptureCrash, storeVars
  <2>2. IntentInv'
    BY <2>1 DEF IntentInv, OrdersStored, OrderRecord, FillsMatchOrders, JobsOK, JobOK,
                JobShape
  <2>3. DayInv'
    BY <2>1 DEF DayInv, SignalRows, OrderDays, JobDays, Fields, Yesterday, IsExit, Entry
  <2>4. OrdersGrow /\ FillsStay
    BY <2>1 DEF OrdersGrow, FillsStay
  <2>. QED
    BY <2>2, <2>3, <2>4, StayingGrows
<1>. QED
  BY <1>1, <1>2, ObservedIsNext

-----------------------------------------------------------------------------
(* Dates: every order has its baseline, and every baseline comes before the orders *)
(* of its session.                                                         *)

\* A run changes no session.
LEMMA RunKeepsMarket ==
    ASSUME NEW p, RunStep(p)
    PROVE  UNCHANGED market
<1>1. CASE ExecutionStep(p)
  BY <1>1 DEF ExecutionStep, LoadPending, CheckFreshness, RestoreLifecycle, MarkRestored,
         SettleSignal, PriceSignal, SkipSignal, RejectEntry, FillEntry, FindEntry,
         InitializePosition, MarkEntry, CompleteSignal, EndLoop, NextLoop, Local, Others
<1>2. CASE LifecycleStep(p)
  BY <1>2 DEF LifecycleStep, LoadPositions, EvaluatePosition, SaveHold, FindExit,
         ReserveSale, FillExit, FinishRun, Local, Others
<1>. QED
  BY <1>1, <1>2 DEF RunStep

\* A fill is of a session that has its baseline, as its order is.
LEMMA FillsDated ==
    ASSUME IntentInv, NEW days, OrdersDated(days), NEW k \in 1 .. Len(fills)
    PROVE  FillDay(k) \in days
<1>1. fills[k].intent \in DOMAIN orders
  BY DEF IntentInv, FillsMatchOrders
<1>. QED
  BY <1>1 DEF FillDay, OrdersDated

\* What is dated stays dated when another session gets its baseline.
LEMMA MoreDates ==
    ASSUME NEW j, NEW days, NEW more, days \subseteq more, JobDated(j, days)
    PROVE  JobDated(j, more)
  BY DEF JobDated

\* A new baseline needs that every earlier fill is of an earlier session.
LEMMA DatesStay ==
    ASSUME DatesOK, Grows, NEW days, days = DOMAIN baselines,
           \E S : market' \in Seq(S),
           NEW more, more = DOMAIN baselines', days \subseteq more, more \subseteq 0 .. today',
           \A d \in days : baselines'[d] = baselines[d],
           \A d \in more \ days :
               baselines'[d] = Len(fills) /\ \A k \in 1 .. Len(fills) : FillDay(k) < d,
           \A x \in DOMAIN orders' : orders'[x].day \in more,
           \A p \in Process : JobDated(job'[p], more)
    PROVE  DatesOK'
<1>1. PICK n \in Nat, m \in Nat :
          /\ n = Len(fills) /\ m = Len(fills') /\ n <= m
          /\ \A k \in 1 .. n : FillDay(k)' = FillDay(k)
  BY DEF Grows
<1>2. ASSUME NEW d \in more
      PROVE  /\ baselines'[d] \in 0 .. m
             /\ \A k \in 1 .. baselines'[d] : FillDay(k)' < d
  <2>1. baselines'[d] \in 0 .. n /\ \A k \in 1 .. baselines'[d] : FillDay(k) < d
    BY <1>1 DEF DatesOK
  <2>2. 0 .. n \subseteq 0 .. m
    BY <1>1
  <2>3. \A k \in 1 .. baselines'[d] : k \in 1 .. n
    BY <2>1
  <2>. QED
    BY <1>1, <2>1, <2>2, <2>3
<1>3. OrdersDated(DOMAIN baselines)'
  BY DEF OrdersDated
<1>4. \A p \in Process : JobDated(job[p], DOMAIN baselines)'
  BY DEF JobDated, Ordering, Exiting
<1>. QED
  BY <1>1, <1>2, <1>3, <1>4 DEF DatesOK

\* Every step of the observed system keeps the dates.
LEMMA DatesNext ==
    ASSUME IntentInv, DayInv, DatesOK, [ObservedNext]_observedVars,
           IntentInv', OrdersGrow, Grows
    PROVE  DatesOK' /\ DOMAIN baselines \subseteq DOMAIN baselines'
<1>. PICK days : days = DOMAIN baselines
  OBVIOUS
<1>0. PICK t \in Nat, n \in Nat :
          /\ t = today /\ n = Len(fills)
          /\ days \subseteq 0 .. t
          /\ OrdersDated(days)
          /\ \A p \in Process : JobDated(job[p], days)
          /\ \A d \in days : baselines[d] \in 0 .. n
  BY DEF DatesOK, Grows, today
<1>1. ASSUME NEW p \in Process, NEW j, Become(p, j), NEW more, days \subseteq more,
             JobDated(j, more)
      PROVE  \A q \in Process : JobDated(job'[q], more)
  <2>1. \A q \in Process : job'[q] = IF q = p THEN j ELSE job[q]
    BY <1>1 DEF Become, DayInv
  <2>2. \A q \in Process : JobDated(job[q], more)
    BY <1>0, <1>1, MoreDates
  <2>. QED
    BY <1>1, <2>1, <2>2
<1>2. ASSUME UNCHANGED <<baselines, orders>>, \E S : market' \in Seq(S), t <= today',
             \A q \in Process : JobDated(job'[q], days)
      PROVE  DatesOK' /\ days \subseteq DOMAIN baselines'
  <2>1. PICK u \in Nat : u = today'
    BY <1>2 DEF today
  <2>2. days \subseteq 0 .. u
    BY <1>0, <1>2, <2>1
  <2>3. \A x \in DOMAIN orders' : orders'[x].day \in days
    BY <1>0, <1>2 DEF OrdersDated
  <2>4. days = DOMAIN baselines' /\ \A d \in days : baselines'[d] = baselines[d]
    BY <1>2
  <2>. QED
    BY <1>2, <2>1, <2>2, <2>3, <2>4, DatesStay
<1>3. ASSUME UNCHANGED market PROVE (\E S : market' \in Seq(S)) /\ t <= today' /\ today' = t
  BY <1>0, <1>3 DEF DatesOK, today
<1>4. JobDated(NoJob, days)
  BY DEF NoJob, JobDated, Ordering, Exiting
<1>5. CASE (OpenSession \/ QueueSignal) /\ UNCHANGED evidenceVars
  <2>1. UNCHANGED <<orders, job, baselines>>
    BY <1>5 DEF OpenSession, QueueSignal, storeVars, evidenceVars, ObservedNext
  <2>2. CASE OpenSession
    <3>1. PICK bars : market' = Append(market, bars)
      BY <2>2 DEF OpenSession
    <3>2. PICK S : market \in Seq(S)
      BY DEF DatesOK
    <3>3. market \in Seq(S \cup {bars}) /\ bars \in S \cup {bars}
      BY <3>2
    <3>4. market' \in Seq(S \cup {bars}) /\ Len(market') = Len(market) + 1
      BY <3>1, <3>3
    <3>5. t <= today'
      BY <1>0, <3>4 DEF today
    <3>6. \A q \in Process : JobDated(job'[q], days)
      BY <1>0, <2>1
    <3>. QED
      BY <1>2, <2>1, <3>4, <3>5, <3>6
  <2>3. CASE QueueSignal
    <3>1. UNCHANGED market
      BY <2>3 DEF QueueSignal, Others
    <3>2. \A q \in Process : JobDated(job'[q], days)
      BY <1>0, <2>1
    <3>. QED
      BY <1>2, <1>3, <2>1, <3>1, <3>2
  <2>. QED
    BY <1>5, <2>2, <2>3
<1>6. ASSUME NEW p \in Process, StartObservedRun(p)
      PROVE  DatesOK' /\ days \subseteq DOMAIN baselines'
  <2>. DEFINE j == [NoJob EXCEPT !.phase = "queued", !.day = today, !.mem = portfolio]
              more == days \cup {t}
  <2>1. Become(p, j) /\ UNCHANGED <<market, orders, fills>> /\ SaveBaseline(t)
    BY <1>0, <1>6 DEF StartObservedRun, StartRun, storeVars
  <2>2. /\ more = DOMAIN baselines' /\ days \subseteq more
        /\ \A d \in days : baselines'[d] = baselines[d]
        /\ t \notin days => baselines'[t] = n
    BY <1>0, <2>1 DEF SaveBaseline
  <2>3. today' = t /\ more \subseteq 0 .. today' /\ \E S : market' \in Seq(S)
    BY <1>0, <1>3, <2>1
  <2>4. JobDated(j, more)
    BY <1>0 DEF NoJob, JobDated, Ordering, Exiting
  <2>5. ASSUME t \notin days, NEW k \in 1 .. n PROVE FillDay(k) < t
    <3>1. FillDay(k) \in days
      BY <1>0, <2>5, FillsDated
    <3>. QED
      BY <1>0, <2>5, <3>1
  <2>6. \A x \in DOMAIN orders' : orders'[x].day \in more
    BY <1>0, <2>1 DEF OrdersDated
  <2>. HIDE DEF j
  <2>7. \A q \in Process : JobDated(job'[q], more)
    BY <1>1, <2>1, <2>2, <2>4
  <2>8. \A d \in more \ days :
            baselines'[d] = Len(fills) /\ \A k \in 1 .. Len(fills) : FillDay(k) < d
    BY <1>0, <2>2, <2>5
  <2>. HIDE DEF more
  <2>9. DatesOK'
    BY <2>2, <2>3, <2>6, <2>7, <2>8, DatesStay
  <2>. QED
    BY <2>2, <2>9
<1>7. ASSUME NEW p \in Process, NEW j, Become(p, j), JobDated(j, days),
             UNCHANGED <<baselines, orders, market>>
      PROVE  DatesOK' /\ days \subseteq DOMAIN baselines'
  <2>1. \A q \in Process : JobDated(job'[q], days)
    BY <1>1, <1>7
  <2>. QED
    BY <1>2, <1>3, <1>7, <2>1
<1>8. ASSUME NEW p \in Process, StartPriceUpdate(p)
      PROVE  DatesOK' /\ days \subseteq DOMAIN baselines'
  <2>. DEFINE j == [NoJob EXCEPT !.phase = "update", !.day = today, !.mem = portfolio]
  <2>1. Become(p, j) /\ UNCHANGED <<baselines, orders, market>>
    BY <1>8 DEF StartPriceUpdate, StartUpdate, storeVars
  <2>2. JobDated(j, days)
    BY DEF NoJob, JobDated, Ordering, Exiting
  <2>. HIDE DEF j
  <2>. QED
    BY <1>7, <2>1, <2>2
<1>9. ASSUME NEW p \in Process, ObservedRunStep(p)
      PROVE  DatesOK' /\ days \subseteq DOMAIN baselines'
  <2>1. RunStep(p) /\ UNCHANGED <<baselines, market>>
    BY <1>9, RunKeepsMarket DEF ObservedRunStep
  <2>2. JobOK(job[p], DOMAIN orders) /\ JobDays(job[p]) /\ JobDated(job[p], days)
        /\ OrdersStored /\ OrdersStored' /\ OrderDays
    BY <1>0 DEF IntentInv, JobsOK, DayInv
  <2>3. PICK j : Become(p, j) /\ JobDated(j, days)
    BY <1>0, <2>1, <2>2, RunContinues DEF Continues
  <2>4. \A q \in Process : JobDated(job'[q], days)
    BY <1>1, <2>3
  <2>5. \A x \in DOMAIN orders' : orders'[x].day \in days
    BY <1>0, <2>1, <2>2, AddedOrderDated, OrdersStayDated
  <2>6. (\E S : market' \in Seq(S)) /\ days \subseteq 0 .. today'
    BY <1>0, <1>3, <2>1
  <2>7. days = DOMAIN baselines' /\ \A d \in days : baselines'[d] = baselines[d]
    BY <2>1
  <2>. QED
    BY <2>4, <2>5, <2>6, <2>7, DatesStay
<1>10. ASSUME NEW p \in Process, CaptureStep(p) \/ CaptureCrash(p) \/ (Crash(p) /\ UNCHANGED evidenceVars)
       PROVE  DatesOK' /\ days \subseteq DOMAIN baselines'
  <2>1. UNCHANGED <<baselines, orders, market>> /\ (UNCHANGED job \/ Become(p, NoJob))
    BY <1>10 DEF CaptureStep, FindObservation, ReplayObservation, FindPrior, ReadAccount,
                 AppendObservation, ReportRun, CapturesOnly, CaptureCrash, Crash, storeVars,
                 paperVars, evidenceVars
  <2>2. CASE UNCHANGED job
    BY <1>0, <1>2, <1>3, <2>1, <2>2
  <2>3. CASE Become(p, NoJob)
    BY <1>4, <1>7, <2>1, <2>3
  <2>. QED
    BY <2>1, <2>2, <2>3
<1>11. CASE UNCHANGED observedVars
  <2>1. UNCHANGED <<baselines, orders, market, job>>
    BY <1>11 DEF observedVars, paperVars, evidenceVars
  <2>. QED
    BY <1>0, <1>2, <1>3, <2>1
<1>12. DatesOK' /\ days \subseteq DOMAIN baselines'
  BY <1>5, <1>6, <1>8, <1>9, <1>10, <1>11 DEF ObservedNext
<1>. QED
  BY <1>12

-----------------------------------------------------------------------------
(* The ledger and the captures. *)

\* A set of natural numbers with a bound has a greatest one.
LEMMA GreatestNumber ==
    ASSUME NEW T, T \subseteq Nat, T # {}, NEW b \in Nat, \A n \in T : n <= b
    PROVE  \E n \in T : Max(T) = n /\ \A m \in T : m <= n
<1>. DEFINE U == {u \in Nat : \A n \in T : n <= u}
<1>1. PICK u \in U : \A v \in U : u <= v
  <2>1. U \subseteq Nat /\ b \in U
    OBVIOUS
  <2>. HIDE DEF U
  <2>. QED
    BY <2>1, LeastNumber
<1>2. u \in T
  <2>1. SUFFICES ASSUME u \notin T PROVE FALSE
    OBVIOUS
  <2>2. \A n \in T : n < u
    BY <1>1, <2>1
  <2>3. PICK e \in T : e < u
    BY <2>2
  <2>4. u - 1 \in Nat
    BY <1>1, <2>3
  <2>5. \A n \in T : n <= u - 1
    BY <1>1, <2>2
  <2>6. u - 1 \in U
    BY <2>4, <2>5
  <2>7. u <= u - 1
    BY <1>1, <2>6
  <2>. QED
    BY <1>1, <2>7
<1>3. \A m \in T : m <= u
  BY <1>1
<1>4. \A x \in T : (\A y \in T : x >= y) => x = u
  BY <1>2, <1>3
<1>5. Max(T) = u
  BY <1>2, <1>3, <1>4 DEF Max
<1>. QED
  BY <1>2, <1>3, <1>5

\* A capture resumes from the baseline of its session, or from the greatest cursor of
\* the latest earlier session.
LEMMA ResumesFrom ==
    ASSUME DatesOK, ObservationsOK, Grows, NEW day
    PROVE  \/ /\ \A o \in observations : ~(o.day < day)
              /\ ResumeFrom(day) = baselines[day]
           \/ \E o \in observations :
                /\ o.day < day /\ ResumeFrom(day) = o.cursor
                /\ \A q \in observations : q.day < day =>
                     q.day < o.day \/ (q.day = o.day /\ q.cursor <= o.cursor)
<1>. DEFINE prior == {o \in observations : o.day < day}
            latest == {o \in prior : \A q \in prior : q.day <= o.day}
<1>0. PICK t \in Nat, n \in Nat :
          \A o \in observations : o.day \in 0 .. t /\ o.cursor \in 0 .. n
  <2>1. PICK t, n : t = today /\ n = Len(fills)
    OBVIOUS
  <2>2. t \in Nat /\ n \in Nat
    BY <2>1 DEF DatesOK, Grows, today
  <2>3. \A o \in observations : o.day \in 0 .. t /\ o.cursor \in 0 .. n
    BY <2>1 DEF DatesOK, ObservationsOK, ObservationOK
  <2>. QED
    BY <2>2, <2>3
<1>1. ResumeFrom(day) = IF prior = {} THEN baselines[day]
                        ELSE Max({o.cursor : o \in latest})
  BY DEF ResumeFrom
<1>2. CASE prior = {}
  BY <1>1, <1>2
<1>3. CASE prior # {}
  <2>. DEFINE D == {o.day : o \in prior}
              C == {o.cursor : o \in latest}
  <2>1. PICK d \in D : \A e \in D : e <= d
    <3>1. D \subseteq Nat /\ D # {} /\ \A e \in D : e <= t
      BY <1>0, <1>3
    <3>. HIDE DEF D
    <3>. QED
      BY <3>1, GreatestNumber
  <2>2. PICK o1 \in prior : o1.day = d
    BY <2>1
  <2>3. \A q \in prior : q.day <= d
    BY <2>1
  <2>4. o1 \in latest
    BY <2>2, <2>3
  <2>5. \A q \in latest : q.day = d
    BY <1>0, <2>2, <2>3
  <2>6. PICK c \in C : Max(C) = c /\ \A e \in C : e <= c
    <3>1. C \subseteq Nat /\ C # {} /\ \A e \in C : e <= n
      BY <1>0, <2>4
    <3>. HIDE DEF C
    <3>. QED
      BY <3>1, GreatestNumber
  <2>7. PICK o \in latest : o.cursor = c
    BY <2>6
  <2>8. \A q \in latest : q.cursor <= o.cursor
    BY <2>6, <2>7
  <2>9. ASSUME NEW q \in prior PROVE q.day < o.day \/ (q.day = o.day /\ q.cursor <= o.cursor)
    <3>1. CASE q.day = d
      BY <2>3, <2>5, <2>7, <2>8, <3>1
    <3>2. CASE q.day # d
      BY <1>0, <2>3, <2>5, <2>7, <3>2
    <3>. QED
      BY <3>1, <3>2
  <2>10. ResumeFrom(day) = o.cursor
    BY <1>1, <1>3, <2>6, <2>7
  <2>. QED
    BY <2>7, <2>9, <2>10
<1>. QED
  BY <1>2, <1>3

\* An observation of the past stays one when the account grows.
LEMMA ObservationKept ==
    ASSUME Grows, DOMAIN baselines \subseteq DOMAIN baselines', NEW o, ObservationOK(o)
    PROVE  ObservationOK(o)'
<1>1. 0 .. Len(fills) \subseteq 0 .. Len(fills')
  BY DEF Grows
<1>. QED
  BY <1>1 DEF ObservationOK

\* So does a capture that has not moved.
LEMMA CaptureKept ==
    ASSUME Grows, DOMAIN baselines \subseteq DOMAIN baselines',
           observations \subseteq observations', NEW c, CaptureOK(c)
    PROVE  CaptureOK(c)'
<1>1. 0 .. Len(fills) \subseteq 0 .. Len(fills')
  BY DEF Grows
<1>2. c.phase = "append" => ObservationOK(c.draft)'
  BY ObservationKept DEF CaptureOK
<1>. QED
  BY <1>1, <1>2 DEF CaptureOK

\* No capture is under way.
LEMMA NoCaptureOK == CaptureOK(NoCapture)
  BY DEF CaptureOK, NoCapture, CapturePhase

\* The locals and the ledger after a step of p.
LEMMA CaptureMoves ==
    ASSUME ObservationsOK, Grows, DOMAIN baselines \subseteq DOMAIN baselines',
           NEW p \in Process, NEW c, Advance(p, c), CaptureOK(c)',
           observations \subseteq observations',
           \A o \in observations' \ observations : ObservationOK(o)'
    PROVE  ObservationsOK'
<1>1. capture' = [q \in Process |-> IF q = p THEN c ELSE capture[q]]
  BY DEF Advance, ObservationsOK
<1>2. ASSUME NEW q \in Process, NEW k, k = capture'[q] PROVE CaptureOK(k)'
  <2>1. CASE q = p
    BY <1>1, <1>2, <2>1
  <2>2. CASE q # p
    <3>1. k = capture[q]
      BY <1>1, <1>2, <2>2
    <3>2. CaptureOK(k)
      BY <3>1 DEF ObservationsOK
    <3>. QED
      BY <3>2, CaptureKept
  <2>. QED
    BY <2>1, <2>2
<1>3. \A o \in observations' : ObservationOK(o)'
  BY ObservationKept DEF ObservationsOK
<1>. QED
  BY <1>1, <1>2, <1>3 DEF ObservationsOK

\* Every step of a capture keeps what it knows, and appends a true observation.
LEMMA CaptureKeeps ==
    ASSUME DatesOK, ObservationsOK, Grows, NEW p \in Process, CaptureStep(p)
    PROVE  ObservationsOK'
<1>. PICK c : c = capture[p]
  OBVIOUS
<1>0. CaptureOK(c) /\ {"phase", "day", "config", "since", "pin", "draft"} \subseteq DOMAIN c
      /\ DOMAIN baselines \subseteq DOMAIN baselines' /\ UNCHANGED fills
  BY DEF ObservationsOK, CaptureOK, CaptureStep, FindObservation, ReplayObservation,
         FindPrior, ReadAccount, AppendObservation, ReportRun, CapturesOnly, paperVars
<1>1. ASSUME NEW k, Advance(p, k), CaptureOK(k), UNCHANGED observations
      PROVE  ObservationsOK'
  <2>1. CaptureOK(k)'
    BY <1>0, <1>1, CaptureKept
  <2>. QED
    BY <1>0, <1>1, <2>1, CaptureMoves
<1>2. ASSUME Fail(p), UNCHANGED observations PROVE ObservationsOK'
  BY <1>1, <1>2, NoCaptureOK DEF Fail
<1>3. ASSUME NEW k, k = [c EXCEPT !.phase = "captured", !.draft = <<>>], c.phase # "none"
      PROVE  CaptureOK(k)
  BY <1>0, <1>3 DEF CaptureOK, CapturePhase
<1>4. CASE FindObservation(p)
  <2>1. c.phase = "find" /\ UNCHANGED observations
    BY <1>4 DEF FindObservation, Capturing
  <2>2. ASSUME NEW o \in Existing(p), Advance(p, [c EXCEPT !.phase = "replay", !.draft = o])
        PROVE  ObservationsOK'
    <3>. DEFINE k == [c EXCEPT !.phase = "replay", !.draft = o]
    <3>1. CaptureOK(k)
      BY <1>0, <2>1 DEF CaptureOK, CapturePhase, Existing, Key
    <3>. HIDE DEF k
    <3>. QED
      BY <1>1, <2>1, <2>2, <3>1 DEF k
  <2>3. CASE Advance(p, [c EXCEPT !.phase = "prior"])
    <3>1. CaptureOK([c EXCEPT !.phase = "prior"])
      BY <1>0, <2>1 DEF CaptureOK, CapturePhase
    <3>. QED
      BY <1>1, <2>1, <2>3, <3>1
  <2>. QED
    BY <1>4, <2>2, <2>3 DEF FindObservation
<1>5. CASE ReplayObservation(p)
  <2>1. c.phase = "replay" /\ UNCHANGED observations /\ (Succeed(p) \/ Fail(p))
    BY <1>5 DEF ReplayObservation, Capturing
  <2>. QED
    BY <1>1, <1>2, <1>3, <2>1 DEF Succeed
<1>6. CASE FindPrior(p)
  <2>. PICK since : since = ResumeFrom(c.day)
    OBVIOUS
  <2>1. c.phase = "prior" /\ UNCHANGED observations
        /\ Advance(p, [c EXCEPT !.phase = "account", !.pin = today, !.since = since])
    BY <1>6 DEF FindPrior, Capturing
  <2>2. since \in 0 .. Len(fills)
    <3>1. baselines[c.day] \in 0 .. Len(fills)
      BY <1>0, <2>1 DEF DatesOK, CaptureOK
    <3>2. \A o \in observations : o.cursor \in 0 .. Len(fills)
      BY DEF ObservationsOK, ObservationOK
    <3>3. PICK day : day = c.day
      OBVIOUS
    <3>. QED
      BY <3>1, <3>2, <3>3, ResumesFrom
  <2>3. CaptureOK([c EXCEPT !.phase = "account", !.pin = today, !.since = since])
    BY <1>0, <2>1, <2>2 DEF CaptureOK, CapturePhase
  <2>. QED
    BY <1>1, <2>1, <2>3
<1>7. CASE ReadAccount(p)
  <2>. PICK o : o = Account(c.day, c.config, c.since)
    OBVIOUS
  <2>1. c.phase = "account" /\ UNCHANGED observations
        /\ Advance(p, [c EXCEPT !.phase = "append", !.draft = o])
    BY <1>7 DEF ReadAccount, Capturing
  <2>2. ObservationOK(o) /\ Key(o) = <<c.day, c.config>>
    BY <1>0, <2>1 DEF Account, ObservationOK, CaptureOK, Key, Grows
  <2>3. CaptureOK([c EXCEPT !.phase = "append", !.draft = o])
    BY <1>0, <2>1, <2>2 DEF CaptureOK, CapturePhase, Key
  <2>. QED
    BY <1>1, <2>1, <2>3
<1>8. CASE AppendObservation(p)
  <2>1. c.phase = "append"
    BY <1>8 DEF AppendObservation, Capturing
  <2>2. CASE Fail(p) /\ UNCHANGED observations
    BY <1>2, <2>2
  <2>3. CASE Succeed(p) /\ observations' = observations \cup {c.draft}
    <3>. DEFINE k == [c EXCEPT !.phase = "captured", !.draft = <<>>]
    <3>1. Advance(p, k)
      BY <2>3 DEF Succeed
    <3>2. CaptureOK(k)
      BY <1>3, <2>1
    <3>. HIDE DEF k
    <3>3. CaptureOK(k)'
      BY <1>0, <2>3, <3>2, CaptureKept
    <3>4. ObservationOK(c.draft)'
      BY <1>0, <2>1, ObservationKept DEF CaptureOK
    <3>. QED
      BY <1>0, <2>3, <3>1, <3>3, <3>4, CaptureMoves
  <2>. QED
    BY <1>8, <2>2, <2>3 DEF AppendObservation
<1>9. CASE ReportRun(p)
  BY <1>2, <1>9 DEF ReportRun, Fail
<1>. QED
  BY <1>4, <1>5, <1>6, <1>7, <1>8, <1>9 DEF CaptureStep

\* A run that returns captures its own session; other steps change no capture.
LEMMA ObservationsNext ==
    ASSUME DatesOK, ObservationsOK, Grows, [ObservedNext]_observedVars,
           DOMAIN baselines \subseteq DOMAIN baselines'
    PROVE  ObservationsOK'
<1>1. CASE UNCHANGED <<capture, observations>>
  <2>1. \A o \in observations : ObservationOK(o)'
    BY ObservationKept DEF ObservationsOK
  <2>2. ASSUME NEW p \in Process, NEW c, c = capture[p] PROVE CaptureOK(c)'
    <3>1. CaptureOK(c)
      BY <2>2 DEF ObservationsOK
    <3>. QED
      BY <1>1, <3>1, CaptureKept
  <2>. QED
    BY <1>1, <2>1, <2>2 DEF ObservationsOK
<1>2. ASSUME NEW p \in Process, ObservedRunStep(p), Returning(p) PROVE ObservationsOK'
  <2>1. PICK config \in Configuration :
            Advance(p, [NoCapture EXCEPT !.phase = "find", !.day = job[p].day,
                                         !.config = config])
    BY <1>2 DEF ObservedRunStep
  <2>. PICK k : k = [NoCapture EXCEPT !.phase = "find", !.day = job[p].day, !.config = config]
    OBVIOUS
  <2>2. job[p].day \in DOMAIN baselines
    BY <1>2 DEF Returning, At, DatesOK, JobDated, Ordering
  <2>3. CaptureOK(k)
    BY <2>2 DEF NoCapture, CaptureOK, CapturePhase
  <2>4. UNCHANGED observations
    BY <1>2 DEF ObservedRunStep
  <2>5. CaptureOK(k)'
    BY <2>3, <2>4, CaptureKept
  <2>6. Advance(p, k)
    BY <2>1
  <2>. QED
    BY <2>4, <2>5, <2>6, CaptureMoves
<1>3. ASSUME NEW p \in Process, CaptureCrash(p) PROVE ObservationsOK'
  <2>1. Advance(p, NoCapture) /\ UNCHANGED observations
    BY <1>3 DEF CaptureCrash
  <2>2. CaptureOK(NoCapture)'
    BY <2>1, NoCaptureOK, CaptureKept
  <2>. QED
    BY <2>1, <2>2, CaptureMoves
<1>4. ASSUME NEW p \in Process, ObservedRunStep(p), ~Returning(p)
      PROVE  UNCHANGED <<capture, observations>>
  BY <1>4 DEF ObservedRunStep
<1>. QED
  BY <1>1, <1>2, <1>3, <1>4, CaptureKeeps
     DEF ObservedNext, StartObservedRun, StartPriceUpdate, observedVars, evidenceVars

-----------------------------------------------------------------------------
(* What holds as long as one process works at a time. *)

\* Dying, aborting and reporting end work, and tell nothing.
LEMMA RestKeeps ==
    ASSUME ObservationsOK, TellingOK, Grows, UNCHANGED <<fills, portfolio, observations>>,
           \A q \in Process : job'[q] = job[q] \/ job'[q] = NoJob,
           \A q \in Process : capture'[q] = capture[q] \/ capture'[q] = NoCapture
    PROVE  TellingOK'
<1>1. \A k \in 1 .. Len(fills) : FillDay(k)' = FillDay(k)
  BY DEF Grows
<1>2. ASSUME NEW q \in Process
      PROVE  /\ Working(q)' => Working(q)
             /\ ~Idle(q)' => ~Idle(q)
             /\ Capturing(q, "none") => Capturing(q, "none")'
  <2>1. NoJob.phase = "idle" /\ NoCapture.phase = "none"
    BY DEF NoJob, NoCapture
  <2>2. PICK j, c : j = job'[q] /\ c = capture'[q]
    OBVIOUS
  <2>3. (j = job[q] \/ j = NoJob) /\ (c = capture[q] \/ c = NoCapture)
    BY <2>2
  <2>4. ~Idle(q)' => ~Idle(q)
    BY <2>1, <2>2, <2>3 DEF Idle
  <2>5. Capturing(q, "none") => Capturing(q, "none")'
    BY <2>1, <2>2, <2>3 DEF Capturing
  <2>6. Working(q)' => Working(q)
    BY <2>4, <2>5 DEF Working
  <2>. QED
    BY <2>4, <2>5, <2>6
<1>3. OneWorks'
  BY <1>2 DEF TellingOK, OneWorks
<1>4. ToldInOrder'
  BY DEF TellingOK, ToldInOrder
<1>5. ASSUME NEW k \in 1 .. Len(fills)
      PROVE  (Told(k) => Told(k)') /\ (Early(k) => Early(k)')
  BY <1>1 DEF Told, Early
<1>6. NoneMissed'
  <2>1. \A o \in observations : \A k \in 1 .. o.cursor : k \in 1 .. Len(fills)
    BY DEF ObservationsOK, ObservationOK, Grows
  <2>. QED
    BY <1>5, <2>1 DEF TellingOK, NoneMissed
<1>7. ASSUME NEW p \in Process, NEW j, j = job'[p], Ordering(j) PROVE Latest(j.day)'
  <2>1. NoJob.phase = "idle"
    BY DEF NoJob
  <2>2. j = job[p]
    BY <1>7, <2>1 DEF Ordering
  <2>3. Latest(j.day)
    BY <1>7, <2>2 DEF TellingOK
  <2>. QED
    BY <2>3 DEF Latest
<1>8. ASSUME NEW p \in Process, NEW c, c = capture'[p] PROVE CaptureKnows(c)'
  <2>1. CASE c = NoCapture
    BY <2>1 DEF CaptureKnows, NoCapture
  <2>2. CASE c = capture[p]
    <3>1. CaptureKnows(c) /\ CaptureOK(c)
      BY <2>2 DEF TellingOK, ObservationsOK
    <3>2. c.phase # "none" => Latest(c.day)'
      BY <3>1 DEF CaptureKnows, Latest
    <3>3. c.phase \in {"account", "append"} => ResumesBehind(c)'
      <4>1. SUFFICES ASSUME c.phase \in {"account", "append"} PROVE ResumesBehind(c)'
        OBVIOUS
      <4>2. ResumesBehind(c) /\ \A k \in 1 .. c.since : k \in 1 .. Len(fills)
        BY <3>1, <4>1 DEF CaptureKnows, CaptureOK, Grows
      <4>. QED
        BY <1>1, <1>5, <4>2 DEF ResumesBehind
    <3>. QED
      BY <3>1, <3>2, <3>3 DEF CaptureKnows, SameState
  <2>. QED
    BY <1>8, <2>1, <2>2
<1>. QED
  BY <1>3, <1>4, <1>6, <1>7, <1>8 DEF TellingOK

\* While a run works nothing is captured; when it returns, its own session is the
\* latest there may be an observation of.
LEMMA RunKeeps ==
    ASSUME ObservationsOK, TellingOK, Grows, JobsOK, UNCHANGED observations,
           NEW p \in Process, \A q \in Process \ {p} : ~Working(q),
           Capturing(p, "none"), NEW j, Become(p, j), NEW c, Advance(p, c),
           c.phase = "none" \/ (c.phase = "find" /\ j.phase = "idle" /\ Latest(c.day)),
           Ordering(j) => Latest(j.day)
    PROVE  TellingOK'
<1>1. \A k \in 1 .. Len(fills) : FillDay(k)' = FillDay(k)
  BY DEF Grows
<1>2. /\ job'[p] = j /\ \A q \in Process \ {p} : job'[q] = job[q]
      /\ capture'[p] = c /\ \A q \in Process \ {p} : capture'[q] = capture[q]
  BY DEF Become, Advance, JobsOK, ObservationsOK
<1>3. \A q \in Process \ {p} : Idle(q)' /\ Capturing(q, "none")'
  BY <1>2 DEF Working, Idle, Capturing
<1>4. ~Idle(p)' => Capturing(p, "none")'
  BY <1>2 DEF Idle, Capturing
<1>5. OneWorks'
  BY <1>3, <1>4 DEF OneWorks, Working
<1>6. ToldInOrder'
  BY DEF TellingOK, ToldInOrder
<1>7. NoneMissed'
  <2>1. ASSUME NEW o \in observations, NEW k \in 1 .. o.cursor
        PROVE  Told(k)' \/ Early(k)'
    <3>1. k \in 1 .. Len(fills)
      BY DEF ObservationsOK, ObservationOK, Grows
    <3>2. Told(k) \/ Early(k)
      BY DEF TellingOK, NoneMissed
    <3>. QED
      BY <1>1, <3>1, <3>2 DEF Told, Early
  <2>. QED
    BY <2>1 DEF NoneMissed
<1>8. ASSUME NEW q \in Process, NEW k, k = job'[q], Ordering(k) PROVE Latest(k.day)'
  <2>1. CASE q = p
    BY <1>2, <1>8, <2>1 DEF Latest
  <2>2. CASE q # p
    BY <1>3, <1>8, <2>2 DEF Idle, Ordering
  <2>. QED
    BY <2>1, <2>2
<1>9. ASSUME NEW q \in Process, NEW k, k = capture'[q] PROVE CaptureKnows(k)'
  <2>1. k.phase = "none" \/ (k.phase = "find" /\ Latest(k.day))
    BY <1>2, <1>3, <1>9 DEF Capturing
  <2>. QED
    BY <2>1 DEF CaptureKnows, Latest
<1>. QED
  BY <1>5, <1>6, <1>7, <1>8, <1>9 DEF TellingOK

\* A capture that goes on knows what it has read.
LEMMA StepKeeps ==
    ASSUME ObservationsOK, TellingOK, NEW p \in Process, ~Capturing(p, "none"),
           NEW c, Advance(p, c), UNCHANGED paperVars,
           ToldInOrder', NoneMissed', \A o \in observations' : o.day <= c.day,
           CaptureKnows(c)'
    PROVE  TellingOK'
<1>1. UNCHANGED <<job, fills, orders, portfolio>>
  BY DEF paperVars
<1>2. /\ capture'[p] = c
      /\ \A q \in Process \ {p} : capture'[q] = capture[q]
  BY DEF Advance, ObservationsOK
<1>3. \A q \in Process \ {p} : Idle(q) /\ Capturing(q, "none")
  BY DEF TellingOK, OneWorks, Working
<1>4. Idle(p)
  BY DEF TellingOK, OneWorks
<1>5. /\ \A q \in Process : Idle(q)'
      /\ \A q \in Process \ {p} : Capturing(q, "none")'
  BY <1>1, <1>2, <1>3, <1>4 DEF Idle, Capturing
<1>6. OneWorks'
  BY <1>5 DEF OneWorks, Working
<1>7. ASSUME NEW q \in Process, NEW k, k = job'[q] PROVE ~Ordering(k)
  BY <1>5, <1>7 DEF Ordering, Idle
<1>8. ASSUME NEW q \in Process, NEW k, k = capture'[q] PROVE CaptureKnows(k)'
  <2>1. CASE q = p
    BY <1>2, <1>8, <2>1
  <2>2. CASE q # p
    <3>1. k.phase = "none"
      BY <1>5, <1>8, <2>2 DEF Capturing
    <3>. QED
      BY <3>1 DEF CaptureKnows
  <2>. QED
    BY <2>1, <2>2
<1>. QED
  BY <1>6, <1>7, <1>8 DEF TellingOK

\* A step that adds no observation loses nothing of what was told.
LEMMA LookingKeeps ==
    ASSUME ObservationsOK, TellingOK, NEW p \in Process, ~Capturing(p, "none"),
           NEW c, Advance(p, c), UNCHANGED <<paperVars, observations>>, CaptureKnows(c),
           c.phase # "none"
    PROVE  TellingOK'
<1>1. UNCHANGED <<fills, orders, portfolio>>
  BY DEF paperVars
<1>2. ToldInOrder' /\ NoneMissed'
  BY <1>1 DEF TellingOK, ToldInOrder, NoneMissed, Told, Early, FillDay
<1>3. CaptureKnows(c)'
  BY <1>1 DEF CaptureKnows, Latest, ResumesBehind, Told, Early, FillDay, SameState
<1>4. \A o \in observations' : o.day <= c.day
  BY DEF CaptureKnows, Latest
<1>. QED
  BY <1>2, <1>3, <1>4, StepKeeps

\* What a capture resumes from is behind all that was told, and misses nothing.
LEMMA ResumingMissesNothing ==
    ASSUME IntentInv, DatesOK, ObservationsOK, TellingOK, Grows,
           NEW c, CaptureOK(c), c.phase # "none", Latest(c.day),
           NEW d, d.day = c.day, d.since = ResumeFrom(c.day)
    PROVE  ResumesBehind(d)
<1>0. PICK t \in Nat, n \in Nat :
          /\ t = today /\ n = Len(fills) /\ c.day \in 0 .. t
          /\ \A o \in observations : o.day \in 0 .. t /\ o.cursor \in 0 .. n
  <2>1. PICK t, n : t = today /\ n = Len(fills)
    OBVIOUS
  <2>2. t \in Nat /\ n \in Nat
    BY <2>1 DEF DatesOK, Grows, today
  <2>3. \A o \in observations : o.day \in 0 .. t /\ o.cursor \in 0 .. n
    BY <2>1 DEF DatesOK, ObservationsOK, ObservationOK
  <2>4. c.day \in 0 .. t
    BY <2>1 DEF DatesOK, CaptureOK
  <2>. QED
    BY <2>1, <2>2, <2>3, <2>4
<1>1. CASE /\ \A o \in observations : ~(o.day < c.day)
           /\ d.since = baselines[c.day]
  <2>1. \A k \in 1 .. d.since : FillDay(k) < c.day
    BY <1>1 DEF DatesOK, CaptureOK
  <2>2. \A o \in observations : o.day = c.day
    BY <1>0, <1>1 DEF Latest
  <2>3. \A k \in 1 .. d.since : Early(k)
    BY <2>1, <2>2 DEF Early
  <2>. QED
    BY <1>1, <2>1, <2>3 DEF ResumesBehind
<1>2. ASSUME NEW o \in observations, o.day < c.day, d.since = o.cursor,
             \A q \in observations : q.day < c.day =>
                 q.day < o.day \/ (q.day = o.day /\ q.cursor <= o.cursor)
      PROVE  ResumesBehind(d)
  <2>1. \A q \in observations : q.day < d.day => q.cursor <= d.since
    BY <1>2 DEF TellingOK, ToldInOrder
  <2>2. ASSUME NEW k \in 1 .. d.since PROVE Told(k) \/ (Early(k) /\ FillDay(k) < c.day)
    <3>1. Told(k) \/ Early(k)
      BY <1>2 DEF TellingOK, NoneMissed
    <3>2. CASE Early(k)
      <4>1. FillDay(k) < o.day
        BY <3>2 DEF Early
      <4>2. FillDay(k) \in Int
        <5>1. k \in 1 .. n
          BY <1>0, <1>2
        <5>2. FillDay(k) \in DOMAIN baselines
          BY <1>0, <5>1, FillsDated DEF DatesOK
        <5>. QED
          BY <1>0, <5>2 DEF DatesOK
      <4>. QED
        BY <1>0, <1>2, <3>2, <4>1, <4>2
    <3>. QED
      BY <3>1, <3>2
  <2>. QED
    BY <2>1, <2>2 DEF ResumesBehind
<1>. QED
  BY <1>1, <1>2, ResumesFrom

\* The observation that is appended tells all that comes behind the earlier sessions.
LEMMA AppendTells ==
    ASSUME DatesOK, ObservationsOK, TellingOK, Grows, IntentInv, NEW p \in Process,
           AppendObservation(p), Succeed(p), observations' = observations \cup {capture[p].draft}
    PROVE  TellingOK'
<1>. PICK c : c = capture[p]
  OBVIOUS
<1>. PICK o : o = c.draft
  OBVIOUS
<1>0. /\ c.phase = "append" /\ UNCHANGED paperVars /\ UNCHANGED <<fills, orders, portfolio>>
      /\ observations' = observations \cup {o}
  BY DEF AppendObservation, Capturing, CapturesOnly, paperVars
<1>1. CaptureOK(c) /\ CaptureKnows(c)
  BY DEF ObservationsOK, TellingOK
<1>a. PICK n \in Nat, t \in Nat : n = Len(fills) /\ t = today
  BY DEF Grows, DatesOK, today
<1>b. /\ c.since \in 0 .. n /\ o.day \in DOMAIN baselines /\ Key(o) = Key(c)
      /\ SameState(o) /\ o.told = c.since + 1 .. n
      /\ ResumesBehind(c) /\ Latest(c.day)
  BY <1>0, <1>1, <1>a DEF CaptureOK, CaptureKnows, ObservationOK
<1>c. \A q \in observations : q.day \in 0 .. t /\ q.cursor \in 0 .. n
  BY <1>a DEF DatesOK, ObservationsOK, ObservationOK
<1>d. o.day = c.day /\ o.day \in 0 .. t /\ o.cursor = n
  BY <1>a, <1>b DEF DatesOK, Key, SameState
<1>2. /\ c.since \in 0 .. n /\ o.cursor = n /\ o.told = c.since + 1 .. n
      /\ o.day = c.day /\ o.day \in 0 .. t
      /\ \A q \in observations : q.day \in 0 .. t /\ q.cursor \in 0 .. n /\ q.day <= o.day
      /\ SameState(o) /\ Key(o) = Key(c) /\ ResumesBehind(c)
  BY <1>b, <1>c, <1>d DEF Latest
<1>3. ToldInOrder'
  <2>1. ASSUME NEW a \in observations', NEW q \in observations', a.day < q.day
        PROVE  a.cursor <= q.cursor /\ \A k \in q.told : a.cursor < k
    <3>1. CASE q \in observations /\ a \in observations
      BY <2>1, <3>1 DEF TellingOK, ToldInOrder
    <3>2. CASE q = o /\ a \in observations
      BY <1>2, <2>1, <3>2 DEF ResumesBehind
    <3>3. CASE a = o
      BY <1>0, <1>2, <2>1, <3>3
    <3>. QED
      BY <1>0, <3>1, <3>2, <3>3
  <2>. QED
    BY <2>1 DEF ToldInOrder
<1>4. ASSUME NEW k \in 1 .. n, Told(k) \/ (Early(k) /\ FillDay(k) < o.day)
      PROVE  Told(k)' \/ Early(k)'
  BY <1>0, <1>4 DEF Told, Early, FillDay
<1>5. NoneMissed'
  <2>1. ASSUME NEW k \in 1 .. n PROVE Told(k)' \/ Early(k)'
    <3>1. CASE k \in 1 .. c.since
      <4>1. Told(k) \/ (Early(k) /\ FillDay(k) < c.day)
        BY <1>2, <3>1 DEF ResumesBehind
      <4>2. Told(k) \/ (Early(k) /\ FillDay(k) < o.day)
        BY <1>2, <4>1
      <4>. QED
        BY <1>4, <4>2
    <3>2. CASE k \notin 1 .. c.since
      <4>1. k \in c.since + 1 .. n
        BY <1>2, <3>2
      <4>2. o \in observations' /\ k \in o.told
        BY <1>0, <1>2, <4>1
      <4>. QED
        BY <4>2 DEF Told
    <3>. QED
      BY <3>1, <3>2
  <2>2. \A q \in observations' : \A k \in 1 .. q.cursor : k \in 1 .. n
    BY <1>0, <1>2
  <2>. QED
    BY <2>1, <2>2 DEF NoneMissed
<1>. PICK d : d = [c EXCEPT !.phase = "captured", !.draft = <<>>]
  OBVIOUS
<1>6. Advance(p, d)
  BY DEF Succeed
<1>7. d.phase = "captured" /\ d.day = c.day /\ Key(d) = Key(c)
  BY <1>1 DEF CaptureOK, Key
<1>8. \A q \in observations' : q.day <= d.day
  BY <1>0, <1>2, <1>7
<1>9. CaptureKnows(d)'
  <2>1. Latest(d.day)'
    BY <1>8 DEF Latest
  <2>2. SameState(o)'
    BY <1>0, <1>2 DEF SameState
  <2>3. o \in observations' /\ Key(o) = Key(d)
    BY <1>0, <1>2, <1>7
  <2>4. \E q \in observations' : Key(q) = Key(d) /\ SameState(q)'
    BY <2>2, <2>3
  <2>. QED
    BY <1>7, <2>1, <2>4 DEF CaptureKnows, SameState
<1>. QED
  BY <1>0, <1>3, <1>5, <1>6, <1>8, <1>9, StepKeeps DEF Capturing

\* Every step of a capture keeps what holds of one process at a time.
LEMMA CaptureTells ==
    ASSUME IntentInv, DatesOK, ObservationsOK, TellingOK, Grows,
           NEW p \in Process, CaptureStep(p)
    PROVE  TellingOK'
<1>. PICK c : c = capture[p]
  OBVIOUS
<1>0. /\ UNCHANGED paperVars
      /\ {"phase", "day", "config", "since", "pin", "draft"} \subseteq DOMAIN c
      /\ CaptureOK(c) /\ CaptureKnows(c)
  BY DEF ObservationsOK, TellingOK, CaptureOK, CaptureStep, FindObservation,
         ReplayObservation, FindPrior, ReadAccount, AppendObservation, ReportRun, CapturesOnly
<1>1. ASSUME Fail(p), UNCHANGED observations PROVE TellingOK'
  <2>1. UNCHANGED <<fills, portfolio, job>>
    BY <1>0 DEF paperVars
  <2>2. \A q \in Process : capture'[q] = capture[q] \/ capture'[q] = NoCapture
    BY <1>1 DEF Fail, Advance, ObservationsOK
  <2>. QED
    BY <1>1, <2>1, <2>2, RestKeeps
<1>2. ASSUME c.phase # "none", NEW k, Advance(p, k), UNCHANGED observations,
             k.phase # "none", CaptureKnows(k)
      PROVE  TellingOK'
  BY <1>0, <1>2, LookingKeeps DEF Capturing
<1>3. c.phase # "none" => Latest(c.day)
  BY <1>0 DEF CaptureKnows
<1>4. CASE FindObservation(p)
  <2>1. c.phase = "find" /\ UNCHANGED observations
    BY <1>4 DEF FindObservation, Capturing
  <2>2. ASSUME NEW o, Advance(p, [c EXCEPT !.phase = "replay", !.draft = o])
        PROVE  TellingOK'
    <3>1. PICK k : k = [c EXCEPT !.phase = "replay", !.draft = o]
      OBVIOUS
    <3>2. k.phase = "replay" /\ k.day = c.day
      BY <1>0, <3>1
    <3>3. CaptureKnows(k)
      BY <1>3, <2>1, <3>2 DEF CaptureKnows
    <3>. QED
      BY <1>2, <2>1, <2>2, <3>1, <3>2, <3>3
  <2>3. CASE Advance(p, [c EXCEPT !.phase = "prior"])
    <3>1. PICK k : k = [c EXCEPT !.phase = "prior"]
      OBVIOUS
    <3>2. k.phase = "prior" /\ k.day = c.day
      BY <1>0, <3>1
    <3>3. CaptureKnows(k)
      BY <1>3, <2>1, <3>2 DEF CaptureKnows
    <3>. QED
      BY <1>2, <2>1, <2>3, <3>1, <3>2, <3>3
  <2>. QED
    BY <1>4, <2>2, <2>3 DEF FindObservation
<1>5. CASE ReplayObservation(p)
  <2>1. c.phase = "replay" /\ UNCHANGED observations
    BY <1>5 DEF ReplayObservation, Capturing
  <2>2. CASE SameState(c.draft) /\ Succeed(p)
    <3>1. PICK k : k = [c EXCEPT !.phase = "captured", !.draft = <<>>]
      OBVIOUS
    <3>2. k.phase = "captured" /\ k.day = c.day /\ Key(k) = Key(c)
      BY <1>0, <3>1 DEF Key
    <3>3. c.draft \in observations /\ Key(c.draft) = Key(k)
      BY <1>0, <2>1, <3>2 DEF CaptureOK
    <3>4. CaptureKnows(k)
      BY <1>3, <2>1, <2>2, <3>2, <3>3 DEF CaptureKnows
    <3>5. Advance(p, k)
      BY <2>2, <3>1 DEF Succeed
    <3>. QED
      BY <1>2, <2>1, <3>2, <3>4, <3>5
  <2>. QED
    BY <1>1, <1>5, <2>1, <2>2 DEF ReplayObservation
<1>6. CASE FindPrior(p)
  <2>1. c.phase = "prior" /\ UNCHANGED observations
    BY <1>6 DEF FindPrior, Capturing
  <2>2. PICK k : k = [c EXCEPT !.phase = "account", !.pin = today,
                               !.since = ResumeFrom(c.day)]
    OBVIOUS
  <2>3. k.phase = "account" /\ k.day = c.day /\ k.since = ResumeFrom(c.day)
    BY <1>0, <2>2
  <2>4. Advance(p, k)
    BY <1>6, <2>2 DEF FindPrior
  <2>5. ResumesBehind(k)
    BY <1>0, <1>3, <2>1, <2>3, ResumingMissesNothing
  <2>6. CaptureKnows(k)
    BY <1>3, <2>1, <2>3, <2>5 DEF CaptureKnows
  <2>. QED
    BY <1>2, <2>1, <2>3, <2>4, <2>6
<1>7. CASE ReadAccount(p)
  <2>1. c.phase = "account" /\ UNCHANGED observations
    BY <1>7 DEF ReadAccount, Capturing
  <2>2. PICK o : o = Account(c.day, c.config, c.since)
    OBVIOUS
  <2>3. PICK k : k = [c EXCEPT !.phase = "append", !.draft = o]
    OBVIOUS
  <2>4. k.phase = "append" /\ k.day = c.day /\ k.since = c.since /\ k.draft = o
    BY <1>0, <2>3
  <2>5. Advance(p, k)
    BY <1>7, <2>2, <2>3 DEF ReadAccount
  <2>6. SameState(o) /\ o.told = k.since + 1 .. Len(fills)
    BY <2>2, <2>4 DEF SameState, Account
  <2>7. ResumesBehind(k)
    BY <1>0, <2>1, <2>4 DEF CaptureKnows, ResumesBehind
  <2>8. CaptureKnows(k)
    BY <1>3, <2>1, <2>4, <2>6, <2>7 DEF CaptureKnows
  <2>. QED
    BY <1>2, <2>1, <2>4, <2>5, <2>8
<1>8. CASE AppendObservation(p)
  <2>1. CASE Fail(p) /\ UNCHANGED observations
    BY <1>1, <2>1
  <2>2. CASE Succeed(p) /\ observations' = observations \cup {capture[p].draft}
    BY <1>8, <2>2, AppendTells
  <2>. QED
    BY <1>8, <2>1, <2>2 DEF AppendObservation
<1>9. CASE ReportRun(p)
  BY <1>1, <1>9 DEF ReportRun, Fail
<1>. QED
  BY <1>4, <1>5, <1>6, <1>7, <1>8, <1>9 DEF CaptureStep

\* A process that takes a step of a run is at work.
LEMMA RunIsWork ==
    ASSUME NEW p, RunStep(p)
    PROVE  ~Idle(p)
<1>1. CASE ExecutionStep(p)
  BY <1>1 DEF ExecutionStep, LoadPending, CheckFreshness, RestoreLifecycle, MarkRestored,
         SettleSignal, PriceSignal, SkipSignal, RejectEntry, FillEntry, FindEntry,
         InitializePosition, MarkEntry, CompleteSignal, EndLoop, At, Idle
<1>2. CASE LifecycleStep(p)
  BY <1>2 DEF LifecycleStep, LoadPositions, EvaluatePosition, SaveHold, FindExit,
         ReserveSale, FillExit, FinishRun, At, Idle
<1>. QED
  BY <1>1, <1>2 DEF RunStep

\* As long as no two processes overlap, every step keeps it.
LEMMA TellingNext ==
    ASSUME EvidenceInv, [ObservedNext]_observedVars, Grows, ~overlapped'
    PROVE  TellingOK'
<1>0. IntentInv /\ DayInv /\ DatesOK /\ ObservationsOK /\ JobsOK
  BY DEF EvidenceInv, IntentInv
<1>1. ASSUME overlapped' = overlapped PROVE TellingOK
  BY <1>1 DEF EvidenceInv
<1>2. ASSUME NEW p \in Process, Overlap(p)
      PROVE  TellingOK /\ \A q \in Process \ {p} : ~Working(q)
  BY <1>2 DEF Overlap, EvidenceInv
<1>3. ASSUME TellingOK, UNCHANGED <<fills, portfolio, job>>, UNCHANGED evidenceVars
      PROVE  TellingOK'
  BY <1>0, <1>3, RestKeeps DEF evidenceVars
<1>4. CASE (OpenSession \/ QueueSignal) /\ UNCHANGED evidenceVars
  <2>1. UNCHANGED <<fills, portfolio, job>>
    BY <1>4 DEF OpenSession, QueueSignal, storeVars
  <2>. QED
    BY <1>1, <1>3, <1>4, <2>1 DEF evidenceVars
<1>5. \A p \in Process : Advance(p, capture[p]) <=> UNCHANGED capture
  BY <1>0 DEF Advance, ObservationsOK
<1>6. Latest(today)
  BY <1>0 DEF DatesOK, ObservationsOK, ObservationOK, Latest, today
<1>7. ASSUME NEW p \in Process, StartObservedRun(p) PROVE TellingOK'
  <2>1. TellingOK /\ \A q \in Process \ {p} : ~Working(q)
    BY <1>2, <1>7 DEF StartObservedRun
  <2>2. PICK j : j = [NoJob EXCEPT !.phase = "queued", !.day = today, !.mem = portfolio]
    OBVIOUS
  <2>3. Become(p, j) /\ j.day = today
    BY <1>7, <2>2 DEF StartObservedRun, StartRun, NoJob
  <2>4. Capturing(p, "none") /\ Advance(p, capture[p]) /\ UNCHANGED observations
    BY <1>5, <1>7 DEF StartObservedRun
  <2>. QED
    BY <1>0, <1>6, <2>1, <2>3, <2>4, RunKeeps DEF Capturing
<1>8. ASSUME NEW p \in Process, StartPriceUpdate(p) PROVE TellingOK'
  <2>1. TellingOK /\ \A q \in Process \ {p} : ~Working(q)
    BY <1>2, <1>8 DEF StartPriceUpdate
  <2>2. PICK j : j = [NoJob EXCEPT !.phase = "update", !.day = today, !.mem = portfolio]
    OBVIOUS
  <2>3. Become(p, j) /\ ~Ordering(j)
    BY <1>8, <2>2 DEF StartPriceUpdate, StartUpdate, NoJob, Ordering
  <2>4. Capturing(p, "none") /\ Advance(p, capture[p]) /\ UNCHANGED observations
    BY <1>5, <1>8 DEF StartPriceUpdate
  <2>. QED
    BY <1>0, <2>1, <2>3, <2>4, RunKeeps DEF Capturing
<1>9. ASSUME NEW p \in Process, ObservedRunStep(p) PROVE TellingOK'
  <2>1. RunStep(p) /\ UNCHANGED observations /\ TellingOK
    BY <1>1, <1>9 DEF ObservedRunStep
  <2>2. Capturing(p, "none") /\ \A q \in Process \ {p} : ~Working(q)
    BY <2>1, RunIsWork DEF TellingOK, OneWorks, Working
  <2>3. JobOK(job[p], DOMAIN orders) /\ JobDays(job[p])
        /\ OrdersDated(DOMAIN baselines) /\ JobDated(job[p], DOMAIN baselines)
    BY <1>0 DEF JobsOK, DayInv, DatesOK
  <2>4. PICK j : /\ Become(p, j)
                 /\ \/ j.phase = "idle"
                    \/ Ordering(job[p]) /\ ~Returning(p) /\ j.day = job[p].day
    BY <2>1, <2>3, RunContinues DEF Continues
  <2>5. Ordering(job[p]) => Latest(job[p].day)
    BY <2>1 DEF TellingOK
  <2>6. Ordering(j) => Latest(j.day)
    BY <2>4, <2>5 DEF Ordering
  <2>7. CASE Returning(p)
    <3>1. PICK config \in Configuration :
              Advance(p, [NoCapture EXCEPT !.phase = "find", !.day = job[p].day,
                                           !.config = config])
      BY <1>9, <2>7 DEF ObservedRunStep
    <3>2. PICK c : c = [NoCapture EXCEPT !.phase = "find", !.day = job[p].day,
                                         !.config = config]
      OBVIOUS
    <3>3. c.phase = "find" /\ c.day = job[p].day
      BY <3>2 DEF NoCapture
    <3>4. Latest(job[p].day)
      BY <2>5, <2>7 DEF Returning, At, Ordering
    <3>5. j.phase = "idle"
      BY <2>4, <2>7
    <3>6. Advance(p, c)
      BY <3>1, <3>2
    <3>. QED
      BY <1>0, <2>1, <2>2, <2>4, <2>6, <3>3, <3>4, <3>5, <3>6, RunKeeps
  <2>8. CASE ~Returning(p)
    <3>1. Advance(p, capture[p])
      BY <1>5, <1>9, <2>8 DEF ObservedRunStep
    <3>. QED
      BY <1>0, <2>1, <2>2, <2>4, <2>6, <3>1, RunKeeps DEF Capturing
  <2>. QED
    BY <2>7, <2>8
<1>10. ASSUME NEW p \in Process, CaptureStep(p) PROVE TellingOK'
  <2>1. overlapped' = overlapped
    BY <1>10 DEF CaptureStep, FindObservation, ReplayObservation, FindPrior, ReadAccount,
                 AppendObservation, ReportRun, CapturesOnly
  <2>. QED
    BY <1>0, <1>1, <1>10, <2>1, CaptureTells
<1>11. ASSUME NEW p \in Process, CaptureCrash(p) PROVE TellingOK'
  <2>1. /\ UNCHANGED <<fills, portfolio, job, observations, overlapped>>
        /\ Advance(p, NoCapture)
    BY <1>11 DEF CaptureCrash, storeVars
  <2>2. \A q \in Process : capture'[q] = capture[q] \/ capture'[q] = NoCapture
    BY <1>0, <2>1 DEF Advance, ObservationsOK
  <2>. QED
    BY <1>0, <1>1, <2>1, <2>2, RestKeeps
<1>12. ASSUME NEW p \in Process, Crash(p), UNCHANGED evidenceVars PROVE TellingOK'
  <2>1. UNCHANGED <<fills, portfolio>> /\ Become(p, NoJob)
    BY <1>12 DEF Crash, storeVars
  <2>2. \A q \in Process : job'[q] = job[q] \/ job'[q] = NoJob
    BY <1>0, <2>1 DEF Become, JobsOK
  <2>. QED
    BY <1>0, <1>1, <1>12, <2>1, <2>2, RestKeeps DEF evidenceVars
<1>13. CASE UNCHANGED observedVars
  BY <1>1, <1>3, <1>13 DEF observedVars, paperVars, evidenceVars
<1>. QED
  BY <1>4, <1>7, <1>8, <1>9, <1>10, <1>11, <1>12, <1>13 DEF ObservedNext

-----------------------------------------------------------------------------
(* The theorems. *)

\* At first nothing is stored, observed or under way,
LEMMA EvidenceInvInit == ObservedInit => EvidenceInv
<1>. SUFFICES ASSUME ObservedInit PROVE EvidenceInv
  OBVIOUS
<1>0. /\ Init /\ orders = <<>> /\ fills = <<>> /\ baselines = <<>> /\ observations = {}
      /\ job = [p \in Process |-> NoJob] /\ capture = [p \in Process |-> NoCapture]
  BY DEF ObservedInit, Init, StoreInit
<1>1. IntentInv /\ DayInv
  BY <1>0, IntentInvInit, DayInvInit
<1>2. DatesOK
  <2>1. PICK bars : market = <<bars>>
    BY <1>0 DEF Init
  <2>2. market \in Seq({bars})
    BY <2>1
  <2>3. \A p \in Process : JobDated(job[p], DOMAIN baselines)
    BY <1>0 DEF NoJob, JobDated, Ordering, Exiting
  <2>. QED
    BY <1>0, <2>2, <2>3 DEF DatesOK, OrdersDated
<1>3. ObservationsOK
  BY <1>0, NoCaptureOK DEF ObservationsOK
<1>4. TellingOK
  <2>1. OneWorks
    BY <1>0 DEF OneWorks, Working, Idle, Capturing, NoJob, NoCapture
  <2>2. ToldInOrder /\ NoneMissed
    BY <1>0 DEF ToldInOrder, NoneMissed
  <2>3. ~Ordering(NoJob) /\ CaptureKnows(NoCapture)
    BY DEF NoJob, NoCapture, Ordering, CaptureKnows
  <2>. QED
    BY <1>0, <2>1, <2>2, <2>3 DEF TellingOK
<1>. QED
  BY <1>1, <1>2, <1>3, <1>4 DEF EvidenceInv

\* and every step keeps the invariant.
LEMMA EvidenceInvNext ==
    ASSUME EvidenceInv, [ObservedNext]_observedVars
    PROVE  EvidenceInv'
<1>1. IntentInv' /\ DayInv' /\ OrdersGrow /\ Grows
  BY StoreKeeps DEF EvidenceInv
<1>2. DatesOK' /\ DOMAIN baselines \subseteq DOMAIN baselines'
  BY <1>1, DatesNext DEF EvidenceInv
<1>3. ObservationsOK'
  BY <1>1, <1>2, ObservationsNext DEF EvidenceInv
<1>4. ~overlapped' => TellingOK'
  BY <1>1, TellingNext
<1>. QED
  BY <1>1, <1>2, <1>3, <1>4 DEF EvidenceInv

\* The invariant holds in every state of the observed system, with any number of
\* processes; its last part as long as no two have been at work at once.
THEOREM EvidenceAlwaysHolds == ObservedSpec => []EvidenceInv
  BY EvidenceInvInit, EvidenceInvNext, PTL DEF ObservedSpec

\* As long as one run follows another, no two sessions tell the same fill, and
\* none is passed over from the first observed session on.
THEOREM EventsAlwaysToldOnce == ObservedSpec => []EventsToldOnce
<1>1. EvidenceInv => EventsToldOnce
  <2>. SUFFICES ASSUME EvidenceInv, ~overlapped
                PROVE  /\ \A o, q \in observations : o.day # q.day => o.told \cap q.told = {}
                       /\ \A o \in observations : \A k \in 1 .. o.cursor :
                           Told(k) \/ Early(k)
    BY DEF EventsToldOnce, Told, Early, FillDay
  <2>1. ToldInOrder /\ NoneMissed
    BY DEF EvidenceInv, TellingOK
  <2>2. ASSUME NEW o \in observations
        PROVE  o.day \in Int /\ o.cursor \in Int /\ \A k \in o.told : k \in Int /\ k <= o.cursor
    BY DEF EvidenceInv, DatesOK, ObservationsOK, ObservationOK
  <2>3. ASSUME NEW o \in observations, NEW q \in observations, o.day < q.day
        PROVE  o.told \cap q.told = {}
    BY <2>1, <2>2, <2>3 DEF ToldInOrder
  <2>4. ASSUME NEW o \in observations, NEW q \in observations, o.day # q.day
        PROVE  o.told \cap q.told = {}
    BY <2>2, <2>3, <2>4
  <2>. QED
    BY <2>1, <2>4 DEF NoneMissed
<1>. QED
  BY <1>1, EvidenceAlwaysHolds, PTL

\* As long as one run follows another, a run that reports its evidence has an
\* observation of its session that describes the account as it left it.
THEOREM CapturedAlwaysObserved == ObservedSpec => []CapturedRunIsObserved
<1>1. EvidenceInv => CapturedRunIsObserved
  <2>. SUFFICES ASSUME EvidenceInv, ~overlapped, NEW p \in Process, Capturing(p, "captured")
                PROVE  \E o \in Existing(p) : SameState(o)
    BY DEF CapturedRunIsObserved
  <2>1. CaptureKnows(capture[p])
    BY DEF EvidenceInv, TellingOK
  <2>. QED
    BY <2>1 DEF CaptureKnows, Capturing, Existing
<1>. QED
  BY <1>1, EvidenceAlwaysHolds, PTL
=============================================================================
