--------------------------- MODULE PaperLifecycle ----------------------------
(***************************************************************************)
(* The second half of a paper run: a new broker is built, every position   *)
(* is evaluated on the bar of the session, and held, sold, or its earlier  *)
(* reserved exit is resumed (PaperLifecycleManager.run).                   *)
(***************************************************************************)
EXTENDS PaperExecution

CONSTANT Trailing \* enable_trailing_stop

ASSUME TrailingAssumption == Trailing \in BOOLEAN

ExitConfig == [stop |-> TRUE, target |-> TRUE, trailing |-> Trailing,
               time |-> TRUE, first |-> "CONSERVATIVE_STOP"]

\* The broker reads portfolio and orders; the manager pins and loads the bars.
LoadPositions(p) ==
    /\ At(p, "load")
    /\ Become(p, [NoJob EXCEPT
           !.phase = "manage", !.day = job[p].day, !.mem = portfolio, !.pin = today,
           !.list = portfolio.position,
           !.held = {s \in Symbol : Holds(portfolio, s)}, !.sells = OpenSells])
    /\ Local

\* Only a full run evaluates; the price updater goes straight to the end.
StartUpdate(p) ==
    /\ Idle(p)
    /\ updates < MaxUpdates
    /\ \E s \in Symbol : Holds(portfolio, s)
    /\ updates' = updates + 1
    /\ Become(p, [NoJob EXCEPT !.phase = "update", !.day = today, !.mem = portfolio])
    /\ UNCHANGED <<storeVars, market, runs, crashes>>

-----------------------------------------------------------------------------

\* PositionExitState of a lifecycle row.
Position(row) ==
    [entry |-> row.price, stop |-> row.stop, target |-> row.target,
     highest |-> row.highest, trailing |-> row.trailing,
     multiplier |-> TrailAtr, limit |-> MaxHold]

Decision(p, s) ==
    Evaluate(ExitConfig, Position(lifecycle[s]), Bar(job[p].day, s),
             job[p].day - lifecycle[s].day, FALSE)

\* Nothing to decide without a lifecycle, without a bar, or before the entry.
Decidable(p, s) ==
    /\ lifecycle[s] # NoRow
    /\ Bar(job[p].day, s) # NoBar
    /\ lifecycle[s].day <= job[p].day

SellsOf(p, s) == {x \in job[p].sells : orders[x].symbol = s}

Done(p, s) == [job[p] EXCEPT !.phase = "manage", !.held = @ \ {s},
                             !.row = NoRow, !.sale = <<>>]

SkipPosition(p, s) ==
    /\ ~(Decidable(p, s) /\ Cardinality(SellsOf(p, s)) <= 1)
    /\ Become(p, Done(p, s))

\* An exit that was reserved and not filled is resumed on its frozen terms.
Resume(p, s) ==
    /\ Decidable(p, s)
    /\ \E x \in SellsOf(p, s) :
        /\ SellsOf(p, s) = {x}
        /\ Become(p, [job[p] EXCEPT !.phase = "reserve", !.sale = <<x, orders[x]>>])

NextRow(p, s) ==
    LET row == lifecycle[s]
        next == Carry(ExitConfig, Position(row), Bar(job[p].day, s)) IN
    [row EXCEPT !.highest = next.highest, !.trailing = next.trailing,
                !.since = IF next.trailing = row.trailing THEN @ ELSE job[p].day]

HoldPosition(p, s) ==
    /\ Decidable(p, s) /\ SellsOf(p, s) = {}
    /\ Decision(p, s) = Hold
    /\ Become(p, [job[p] EXCEPT !.phase = "hold", !.row = NextRow(p, s),
                                !.sale = <<s>>])

SellOrder(p, s) ==
    LET held == job[p].list[s] IN
    [side |-> "SELL", status |-> "ACCEPTED", symbol |-> s, qty |-> held.qty,
     price |-> Decision(p, s).price, day |-> job[p].day, average |-> held.average,
     reason |-> Decision(p, s).reason, since |-> lifecycle[s].since]

\* A new exit is bound to the pinned dataset, or the run ends.
DecideExit(p, s) ==
    /\ Decidable(p, s) /\ SellsOf(p, s) = {}
    /\ Decision(p, s) # Hold
    /\ LET o == SellOrder(p, s) IN
       \/ /\ job[p].pin = today
          /\ Become(p, [job[p] EXCEPT
                 !.phase = "reserve",
                 !.sale = <<ExitOf(lifecycle[s], o.day, o.qty, o.reason), o>>])
       \/ job[p].pin # today /\ Abort(p)

EvaluatePosition(p) ==
    /\ At(p, "manage")
    /\ \E s \in job[p].held :
        SkipPosition(p, s) \/ Resume(p, s) \/ HoldPosition(p, s) \/ DecideExit(p, s)
    /\ Local

\* A position that is gone from the copy raises, after the row was saved.
SaveHold(p) ==
    /\ At(p, "hold")
    /\ LET s == job[p].sale[1] IN
       /\ SaveLifecycle(s, job[p].row)
       /\ IF Holds(job[p].mem, s) THEN Become(p, Done(p, s)) ELSE Abort(p)
    /\ UNCHANGED <<signals, orders, fills, portfolio, closed, Others>>

-----------------------------------------------------------------------------
(* One exit: reserve its intent, then fill it. *)

Intent(p) == job[p].sale[1]
SaleOf(p) == job[p].sale[2]

\* RiskGuard refuses to sell more than the copy holds.
SellRefused(p) == job[p].mem.position[SaleOf(p).symbol].qty < SaleOf(p).qty

\* The intent is finished: its fill counts and the stored portfolio is read again.
FindExit(p, phase) ==
    /\ At(p, phase)
    /\ phase = "sell" \/ ~SellRefused(p)
    /\ Status(Intent(p)) = "FILLED"
    /\ Become(p, [Done(p, SaleOf(p).symbol) EXCEPT
           !.mem = portfolio, !.sells = OpenSells])
    /\ Local

\* The refusal is stored; that raises when the intent has an order.
RefuseSale(p) ==
    IF Status(Intent(p)) = "NONE"
    THEN /\ InsertOrder(Intent(p), [SaleOf(p) EXCEPT !.status = "REJECTED"])
         /\ Become(p, Done(p, SaleOf(p).symbol))
    ELSE Abort(p) /\ UNCHANGED orders

ReserveSale(p) ==
    /\ At(p, "reserve")
    /\ IF SellRefused(p) THEN RefuseSale(p)
       ELSE /\ ReserveExit(Intent(p), SaleOf(p))
            /\ Become(p, [job[p] EXCEPT !.phase = "sell"])
    /\ UNCHANGED <<signals, fills, portfolio, lifecycle, closed, clock, Others>>

FillExit(p) ==
    /\ At(p, "sell")
    /\ SaveExit(Intent(p), job[p].mem)
    /\ Become(p, [Done(p, SaleOf(p).symbol) EXCEPT
           !.mem = ApplySell(@, orders[Intent(p)].symbol, orders[Intent(p)].qty,
                             orders[Intent(p)].price)])
    /\ UNCHANGED Others

\* All positions are evaluated: the marked portfolio is written, the run is over.
FinishRun(p) ==
    /\ \/ At(p, "manage") /\ job[p].held = {}
       \/ At(p, "update")
    /\ SavePortfolio(job[p].mem)
    /\ Become(p, NoJob)
    /\ UNCHANGED <<signals, orders, fills, lifecycle, closed, clock, Others>>

LifecycleStep(p) ==
    \/ LoadPositions(p) \/ EvaluatePosition(p) \/ SaveHold(p)
    \/ FindExit(p, "reserve") \/ FindExit(p, "sell")
    \/ ReserveSale(p) \/ FillExit(p) \/ FinishRun(p)

-----------------------------------------------------------------------------

Init ==
    /\ StoreInit
    /\ \E bars \in Markets : market = <<bars>>
    /\ job = [p \in Process |-> NoJob]
    /\ runs = 0 /\ updates = 0 /\ crashes = 0

RunStep(p) == ExecutionStep(p) \/ LifecycleStep(p)

Next ==
    \/ OpenSession \/ QueueSignal
    \/ \E p \in Process : StartRun(p) \/ StartUpdate(p) \/ RunStep(p) \/ Crash(p)

Spec == Init /\ [][Next]_paperVars

\* The operating routine: sessions follow one another, on each the run is started
\* again until the bound, and a started run goes on (or dies).
FairSpec ==
    /\ Spec
    /\ WF_paperVars(OpenSession)
    /\ \A p \in Process : WF_paperVars(StartRun(p)) /\ WF_paperVars(RunStep(p))
=============================================================================
