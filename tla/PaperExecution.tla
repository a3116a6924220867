--------------------------- MODULE PaperExecution ----------------------------
(***************************************************************************)
(* The first half of a paper run (run_paper_lifecycle.main): execute the   *)
(* pending signals at the open of the session after theirs. A process      *)
(* keeps the portfolio it read when its broker was built, changes its copy *)
(* and writes the whole of it. One action lies between any two durable     *)
(* effects.                                                                *)
(***************************************************************************)
EXTENDS PaperStore

CONSTANTS Process,
          Quantity,   \* results of position sizing, in lots
          Payload,    \* ATRs of queued signals; 0 is missing
          Markets,    \* bars a session may have: functions from Symbol
          MaxOrders,  \* maximum_orders_per_scan
          MaxRuns, MaxUpdates, MaxCrashes \* bounds: per session, overall

ASSUME ExecutionAssumption ==
    /\ Quantity \subseteq Nat \ {0} /\ Payload \subseteq Nat
    /\ {MaxOrders, MaxRuns, MaxUpdates, MaxCrashes} \subseteq Nat

\* Bars are validated when they are stored; the costs of a sale are a part of its
\* price, so a sale never costs more than it brings.
ASSUME MarketsAssumption ==
    \A bars \in Markets : \A s \in Symbol : bars[s] # NoBar =>
        ValidBar(bars[s]) /\ Slip + Fee + Tax < bars[s].low

VARIABLES market, \* the bars of every session so far
          job,    \* locals of the processes
          runs, updates, crashes \* counters of the bounds

paperVars == <<signals, orders, fills, portfolio, lifecycle, closed, clock,
               market, job, runs, updates, crashes>>

today == Len(market)
Bar(day, s) == market[day][s]

NoJob == [phase |-> "idle", day |-> 0, mem |-> NewPortfolio,
          pin |-> 0,        \* dataset version pinned before prices are read
          todo |-> <<>>,    \* signals this loop still has to visit
          kept |-> <<>>,    \* what the loop hands to the next one
          count |-> 0,      \* submitted_count
          verdict |-> "",   \* status the first signal of todo is completed with
          list |-> NewPortfolio.position, \* positions the manager has listed
          held |-> {},      \* those still to evaluate
          sells |-> {},     \* open SELL orders this broker has loaded
          row |-> NoRow,    \* lifecycle row about to be saved
          sale |-> <<>>]    \* exit about to be executed: intent and order

Idle(p) == job[p].phase = "idle"
At(p, phase) == job[p].phase = phase
Become(p, j) == job' = [job EXCEPT ![p] = j]
First(p) == Head(job[p].todo)
Others == <<market, runs, updates, crashes>>
Local == UNCHANGED <<storeVars, Others>> \* only locals change

-----------------------------------------------------------------------------
(* The world around the runs. *)

\* The market closes another session and the daily update stores its bars.
OpenSession ==
    /\ today < LastDay
    /\ \E bars \in Markets : market' = Append(market, bars)
    /\ runs' = 0
    /\ UNCHANGED <<storeVars, job, updates, crashes>>

\* The scanner queues a signal of the latest session.
QueueSignal ==
    /\ Len(signals) < MaxSignals
    /\ \E s \in Symbol, atr \in Payload : Queue(today, s, atr)
    /\ UNCHANGED <<orders, fills, portfolio, lifecycle, closed, clock, job, Others>>

\* A process dies, or an exception ends it: a drifted dataset version, a failing
\* statement (rolled back), evidence that cannot be written.
Crash(p) ==
    /\ ~Idle(p)
    /\ crashes < MaxCrashes
    /\ crashes' = crashes + 1
    /\ Become(p, NoJob)
    /\ UNCHANGED <<storeVars, market, runs, updates>>

\* An exception no input or fault is needed for.
Abort(p) == Become(p, NoJob)

\* main: the latest session is pinned, the executor's broker reads the portfolio.
StartRun(p) ==
    /\ Idle(p)
    /\ runs < MaxRuns
    /\ runs' = runs + 1
    /\ Become(p, [NoJob EXCEPT !.phase = "queued", !.day = today, !.mem = portfolio])
    /\ UNCHANGED <<storeVars, market, updates, crashes>>

LoadPending(p) ==
    /\ At(p, "queued")
    /\ LET due == PendingBefore(job[p].day) IN
       Become(p, [job[p] EXCEPT !.todo = due, !.pin = today,
                                !.phase = IF due = <<>> THEN "load" ELSE "fresh"])
    /\ Local

-----------------------------------------------------------------------------
(* First loop: which signals may still be executed. *)

Settle(p, status) ==
    Become(p, [job[p] EXCEPT !.phase = "settle", !.verdict = status])
SettlePriced(p, status) ==
    Become(p, [job[p] EXCEPT !.phase = "settlePriced", !.verdict = status])

Executed(p) ==
    /\ Status(Entry(First(p))) = "FILLED"
    /\ LET s == signals[First(p)].symbol IN
       IF lifecycle[s] # NoRow THEN Settle(p, "ALREADY_EXECUTED")
       ELSE Become(p, [job[p] EXCEPT
                !.phase = "restore",
                !.row = EntryRow(First(p), orders[Entry(First(p))])])

Refused(p) ==
    /\ Status(Entry(First(p))) = "REJECTED"
    /\ Settle(p, "REJECTED")

Keep(p, x) ==
    Become(p, [job[p] EXCEPT !.todo = Tail(@), !.kept = Append(@, x)])

\* Mutant: a missed signal is passed over but not completed.
MissedLeftPending(p) ==
    /\ Status(Entry(First(p))) = "NONE"
    /\ job[p].day > signals[First(p)].day + 1
    /\ Become(p, [job[p] EXCEPT !.todo = Tail(@)])

\* Mutant: a signal counts as missed without a look at its order.
MissedUnchecked(p) ==
    /\ job[p].day > signals[First(p)].day + 1
    /\ Settle(p, "MISSED_EXECUTION")

Missed(p) ==
    /\ Status(Entry(First(p))) = "NONE"
    /\ job[p].day > signals[First(p)].day + 1
    /\ Settle(p, "MISSED_EXECUTION")

\* Mutant: a missed signal may be caught up at a later open.
DueLate(p) ==
    /\ Status(Entry(First(p))) = "NONE"
    /\ job[p].day > signals[First(p)].day
    /\ Settle(p, "REJECTED") \/ Keep(p, First(p))

\* Due today, unless too few sessions are stored to know its liquidity.
Due(p) ==
    /\ Status(Entry(First(p))) = "NONE"
    /\ job[p].day = signals[First(p)].day + 1
    /\ Settle(p, "REJECTED") \/ Keep(p, First(p))

CheckFreshness(p) ==
    /\ At(p, "fresh") /\ job[p].todo # <<>>
    /\ Executed(p) \/ Refused(p) \/ Missed(p) \/ Due(p)
    /\ Local

\* The executed intent lost its lifecycle: save it again, then the portfolio.
RestoreLifecycle(p) ==
    /\ At(p, "restore")
    /\ SaveLifecycle(signals[First(p)].symbol, job[p].row)
    /\ Become(p, [job[p] EXCEPT !.phase = "restored", !.row = NoRow])
    /\ UNCHANGED <<signals, orders, fills, portfolio, closed, Others>>

MarkRestored(p) ==
    /\ At(p, "restored")
    /\ SavePortfolio(job[p].mem)
    /\ Settle(p, "ALREADY_EXECUTED")
    /\ UNCHANGED <<signals, orders, fills, lifecycle, closed, clock, Others>>

SettleSignal(p) ==
    /\ job[p].phase \in {"settle", "settlePriced"}
    /\ Complete(First(p), job[p].verdict)
    /\ Become(p, [job[p] EXCEPT
           !.phase = IF @ = "settle" THEN "fresh" ELSE "price",
           !.todo = Tail(@), !.verdict = ""])
    /\ UNCHANGED <<orders, fills, portfolio, lifecycle, closed, clock, Others>>

\* The end of a loop: what it kept is what the next one visits.
NextLoop(p, phase) ==
    /\ job[p].todo = <<>>
    /\ Become(p, [job[p] EXCEPT !.phase = phase, !.todo = job[p].kept, !.kept = <<>>])
    /\ Local

-----------------------------------------------------------------------------
(* Second loop: levels at the open of the session. *)

Open(p) == Bar(job[p].day, signals[First(p)].symbol).open

Stop(p) == Open(p) - StopAtr * signals[First(p)].atr

Priced(p) ==
    /\ Bar(job[p].day, signals[First(p)].symbol) # NoBar
    /\ signals[First(p)].atr # 0

\* A stop that is not positive (calculate_levels) or a dataset that advanced since
\* the pin (bind) raises: the run ends here, with every later signal and every
\* exit of the session undone.
PriceSignal(p) ==
    /\ At(p, "price") /\ job[p].todo # <<>>
    /\ \/ ~Priced(p) /\ SettlePriced(p, "REJECTED")
       \/ Priced(p) /\ (Stop(p) <= 0 \/ job[p].pin # today) /\ Abort(p)
       \/ Priced(p) /\ Stop(p) > 0 /\ job[p].pin = today /\ Keep(p, First(p))
    /\ Local

-----------------------------------------------------------------------------
(* Third loop: execute_signals. What is kept is <<signal, status>>. *)

Result(p, j, status) ==
    Become(p, [j EXCEPT !.phase = "execute", !.verdict = "", !.todo = Tail(@),
                        !.kept = Append(@, <<First(p), status>>)])

BuyOrder(p, qty) ==
    LET sig == signals[First(p)] IN
    [side |-> "BUY", status |-> "NEW", symbol |-> sig.symbol, qty |-> qty,
     price |-> Open(p), day |-> job[p].day, stop |-> Stop(p),
     target |-> Open(p) + TargetAtr * sig.atr]

\* Mutant: a held symbol is bought again.
MayBuyHeld(p) == job[p].count < MaxOrders

\* Room for another order: the limit, and one position per symbol.
MayBuy(p) ==
    /\ job[p].count < MaxOrders
    /\ ~Holds(job[p].mem, signals[First(p)].symbol)

\* Skipped by these two, or by regime, exposure, liquidity, heat or sizing.
SkipSignal(p) ==
    /\ At(p, "execute") /\ job[p].todo # <<>>
    /\ Result(p, job[p], "SKIPPED")
    /\ Local

\* RiskGuard, or the broker for lack of cash, rejects: the order is stored, unless
\* its intent has one; then the INSERT raises and ends the run.
RejectEntry(p) ==
    /\ At(p, "execute") /\ job[p].todo # <<>>
    /\ MayBuy(p)
    /\ \E qty \in Quantity :
        \/ /\ InsertOrder(Entry(First(p)), [BuyOrder(p, qty) EXCEPT !.status = "REJECTED"])
           /\ Result(p, job[p], "REJECTED")
        \/ /\ Status(Entry(First(p))) # "NONE"
           /\ Abort(p)
           /\ UNCHANGED orders
    /\ UNCHANGED <<signals, fills, portfolio, lifecycle, closed, clock, Others>>

\* Mutant: the broker relies on RiskGuard's estimate, which has no slippage.
AffordableEstimate(p, o) == (o.price + Fee) * o.qty <= job[p].mem.cash

Affordable(p, o) == BuyCost(o.qty, o.price) <= job[p].mem.cash

\* The order is filled. A row the lifecycle refuses raises inside the
\* transaction, before anything is stored.
FillEntry(p) ==
    /\ At(p, "execute") /\ job[p].todo # <<>>
    /\ MayBuy(p)
    /\ \E qty \in Quantity :
        LET o == BuyOrder(p, qty) IN
        /\ Affordable(p, o)
        /\ \/ /\ ValidRow(EntryRow(First(p), o))
              /\ SaveEntry(First(p), o, job[p].mem)
              /\ Become(p, [job[p] EXCEPT
                     !.phase = "initialize", !.verdict = "FILLED",
                     !.count = @ + 1,
                     !.row = EntryRow(First(p), o),
                     !.mem = ApplyBuy(@, o.symbol, qty, o.price)])
           \/ /\ ~ValidRow(EntryRow(First(p), o))
              /\ Status(Entry(First(p))) = "NONE"
              /\ Abort(p)
              /\ UNCHANGED storeVars
    /\ UNCHANGED Others

\* Another process has finished the intent: take its result and the stored
\* portfolio (a rejection seen by the first lookup leaves the copy alone).
FindEntry(p) ==
    /\ At(p, "execute") /\ job[p].todo # <<>>
    /\ MayBuy(p)
    /\ LET i == First(p)
           fresh == [job[p] EXCEPT !.mem = portfolio]
           s == signals[i].symbol IN
       /\ \E qty \in Quantity : (Open(p) + Fee) * qty <= job[p].mem.cash
       /\ \/ /\ Status(Entry(i)) = "REJECTED"
             /\ Result(p, fresh, "REJECTED") \/ Result(p, job[p], "REJECTED")
          \/ /\ Status(Entry(i)) = "FILLED" /\ lifecycle[s] # NoRow
             /\ Result(p, [fresh EXCEPT !.count = @ + 1], "ALREADY_EXECUTED")
          \/ /\ Status(Entry(i)) = "FILLED" /\ lifecycle[s] = NoRow
             /\ Become(p, [fresh EXCEPT
                    !.phase = "initialize", !.verdict = "ALREADY_EXECUTED",
                    !.count = @ + 1, !.row = EntryRow(i, orders[Entry(i)])])
    /\ Local

\* _initialize_filled_position: the lifecycle again, then the marked portfolio.
InitializePosition(p) ==
    /\ At(p, "initialize")
    /\ SaveLifecycle(signals[First(p)].symbol, job[p].row)
    /\ Become(p, [job[p] EXCEPT !.phase = "initialized", !.row = NoRow])
    /\ UNCHANGED <<signals, orders, fills, portfolio, closed, Others>>

MarkEntry(p) ==
    /\ At(p, "initialized")
    /\ SavePortfolio(job[p].mem)
    /\ Result(p, job[p], job[p].verdict)
    /\ UNCHANGED <<signals, orders, fills, lifecycle, closed, clock, Others>>

\* Fourth loop: complete every executed signal with its result.
CompleteSignal(p) ==
    /\ At(p, "complete") /\ job[p].todo # <<>>
    /\ Complete(First(p)[1], First(p)[2])
    /\ Become(p, [job[p] EXCEPT !.todo = Tail(@)])
    /\ UNCHANGED <<orders, fills, portfolio, lifecycle, closed, clock, Others>>

EndLoop(p) ==
    \/ At(p, "fresh") /\ NextLoop(p, "price")
    \/ At(p, "price") /\ NextLoop(p, "execute")
    \/ At(p, "execute") /\ NextLoop(p, "complete")
    \/ At(p, "complete") /\ NextLoop(p, "load")

ExecutionStep(p) ==
    \/ LoadPending(p) \/ CheckFreshness(p) \/ RestoreLifecycle(p) \/ MarkRestored(p)
    \/ SettleSignal(p) \/ PriceSignal(p) \/ SkipSignal(p) \/ RejectEntry(p)
    \/ FillEntry(p) \/ FindEntry(p) \/ InitializePosition(p) \/ MarkEntry(p)
    \/ CompleteSignal(p) \/ EndLoop(p)
=============================================================================
