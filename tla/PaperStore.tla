----------------------------- MODULE PaperStore ------------------------------
(***************************************************************************)
(* paper_trading.db: the tables and the transactions of PaperTradingStore. *)
(* Each operator below that primes variables is one SQLite transaction.    *)
(* Money is counted in ticks: slippage, commission and tax are amounts per *)
(* share instead of rates, and every day is a session of the calendar.     *)
(***************************************************************************)
EXTENDS ExitRules, Sequences, FiniteSets

CONSTANTS Symbol,
          InitialCash,
          Slip, Fee, Tax,          \* costs of one share
          StopAtr, TargetAtr,      \* levels of an entry, in units of its ATR
          TrailAtr, MaxHold,       \* policy of a position
          NoBar,                   \* a symbol that was not traded in a session
          LastDay, MaxSignals      \* bounds: sessions, queued signals

ASSUME StoreAssumption ==
    /\ {InitialCash, Slip, Fee, Tax, TrailAtr, MaxHold} \subseteq Nat
    /\ {StopAtr, TargetAtr, LastDay, MaxSignals} \subseteq Nat \ {0}

VARIABLES
    signals,   \* paper_pending_signals; the id of a row is its index
    orders,    \* paper_orders by source_intent_id
    fills,     \* paper_fills
    portfolio, \* cash, realized_pnl and paper_positions
    lifecycle, \* paper_position_lifecycle
    closed,    \* paper_closed_trades by order
    clock      \* what updated_at was last stamped with

storeVars == <<signals, orders, fills, portfolio, lifecycle, closed, clock>>

Day == 1 .. LastDay

-----------------------------------------------------------------------------
(* Rows. *)

Flat == [qty |-> 0, average |-> 0]
NewPortfolio == [cash |-> InitialCash, realized |-> 0,
                 position |-> [s \in Symbol |-> Flat]]
Holds(p, s) == p.position[s].qty > 0

\* A position's lifecycle; since is the session whose bar gave its trailing
\* stop, which the code does not store.
NoRow == [entry |-> 0]

\* source_intent_id: the pending signal of a BUY; of a SELL the identity of the
\* lifecycle it ends (updated_at stands for the levels it had), date and reason.
Entry(i) == [signal |-> i]
ExitOf(row, day, qty, reason) ==
    [signal |-> row.entry, stamp |-> row.stamp, day |-> day, qty |-> qty,
     reason |-> reason]

Status(intent) == IF intent \in DOMAIN orders THEN orders[intent].status ELSE "NONE"

OpenSells == {x \in DOMAIN orders : orders[x].side = "SELL" /\ Status(x) = "ACCEPTED"}

-----------------------------------------------------------------------------
(* Accounting of one fill. *)

BuyPrice(price) == price + Slip
BuyCost(qty, price) == (BuyPrice(price) + Fee) * qty
SellNet(qty, price) == (price - Slip - Fee - Tax) * qty

\* Only symbols that are not held are bought, so the average is that of the fill.
ApplyBuy(p, s, qty, price) ==
    [p EXCEPT !.cash = @ - BuyCost(qty, price),
              !.position[s] = [qty |-> qty, average |-> BuyPrice(price) + Fee]]

ApplySell(p, s, qty, price) ==
    [p EXCEPT !.cash = @ + SellNet(qty, price),
              !.realized = @ + SellNet(qty, price) - p.position[s].average * qty,
              !.position[s] = IF @.qty = qty THEN Flat ELSE [@ EXCEPT !.qty = @ - qty]]

\* The row of a position at its entry, from the frozen terms of its order.
EntryRow(i, o) ==
    [entry |-> i, day |-> o.day, price |-> BuyPrice(o.price), qty |-> o.qty,
     stop |-> o.stop, target |-> o.target, highest |-> BuyPrice(o.price),
     trailing |-> NoPrice, since |-> 0]

\* PositionLifecycleState refuses other rows.
ValidRow(r) == 0 < r.stop /\ r.stop < r.price /\ r.price < r.target

-----------------------------------------------------------------------------
(* Transactions. *)

\* UNIQUE(signal_date, symbol): a signal is queued once (INSERT OR IGNORE).
Queue(day, s, atr) ==
    /\ \A i \in DOMAIN signals : <<signals[i].day, signals[i].symbol>> # <<day, s>>
    /\ signals' = Append(signals, [day |-> day, symbol |-> s, atr |-> atr,
                                   status |-> "PENDING"])

\* The ids of a set of signals in the order of date and id, which is that of
\* queueing.
InOrder(ids) ==
    CHOOSE q \in [1 .. Cardinality(ids) -> ids] :
        \A j, k \in DOMAIN q : j < k => q[j] < q[k]

Outstanding(day) ==
    {i \in DOMAIN signals : signals[i].status = "PENDING" /\ signals[i].day < day}

\* Mutant: only signals of the session before are looked at.
PendingOfLastSession(day) ==
    InOrder({i \in Outstanding(day) : signals[i].day = day - 1})

PendingBefore(day) == InOrder(Outstanding(day))

\* Only a pending signal is completed: what was decided first stays.
Complete(i, status) ==
    signals' = [signals EXCEPT ![i].status = IF @ = "PENDING" THEN status ELSE @]

SaveLifecycle(s, row) ==
    /\ clock' = clock + 1
    /\ lifecycle' = [lifecycle EXCEPT ![s] =
           [entry |-> row.entry, day |-> row.day, price |-> row.price,
            qty |-> row.qty, stop |-> row.stop, target |-> row.target,
            highest |-> row.highest, trailing |-> row.trailing,
            since |-> row.since, stamp |-> clock + 1]]

\* The whole portfolio is replaced by the writer's copy.
SavePortfolio(p) == portfolio' = p

\* uq_paper_orders_source_intent: enabled only if the intent has no order yet.
InsertOrder(intent, o) ==
    /\ intent \notin DOMAIN orders
    /\ orders' = [x \in DOMAIN orders \cup {intent} |-> IF x = intent THEN o ELSE orders[x]]

FillOrder(intent, o, net) ==
    /\ orders' = [x \in DOMAIN orders \cup {intent} |->
                    IF x = intent THEN [o EXCEPT !.status = "FILLED"] ELSE orders[x]]
    /\ fills' = Append(fills, [intent |-> intent, symbol |-> o.symbol,
                               side |-> o.side, qty |-> o.qty, net |-> net])

\* Mutant: the lifecycle is left to a later transaction.
SaveEntryBare(i, o, p) ==
    /\ Status(Entry(i)) = "NONE"
    /\ FillOrder(Entry(i), o, -BuyCost(o.qty, o.price))
    /\ SavePortfolio(ApplyBuy(p, o.symbol, o.qty, o.price))
    /\ UNCHANGED <<signals, closed, lifecycle, clock>>

\* Mutant: the intent is not looked up inside the transaction.
SaveEntryTwice(i, o, p) ==
    /\ FillOrder(Entry(i), o, -BuyCost(o.qty, o.price))
    /\ SavePortfolio(ApplyBuy(p, o.symbol, o.qty, o.price))
    /\ SaveLifecycle(o.symbol, EntryRow(i, o))
    /\ UNCHANGED <<signals, closed>>

\* save_intent_execution of a BUY without a finished order: order, fill, the
\* writer's whole portfolio and the lifecycle, together.
SaveEntry(i, o, p) ==
    /\ Status(Entry(i)) = "NONE"
    /\ FillOrder(Entry(i), o, -BuyCost(o.qty, o.price))
    /\ SavePortfolio(ApplyBuy(p, o.symbol, o.qty, o.price))
    /\ SaveLifecycle(o.symbol, EntryRow(i, o))
    /\ UNCHANGED <<signals, closed>>

\* Mutant: a reservation reopens the intent whatever became of it.
ReserveExitReopened(intent, o) ==
    orders' = [x \in DOMAIN orders \cup {intent} |->
        IF x \in DOMAIN orders
        THEN [orders[x] EXCEPT !.status = IF x = intent THEN "ACCEPTED" ELSE @]
        ELSE o]

\* save_exit_intent: the first one freezes the terms; a refused one is reopened.
ReserveExit(intent, o) ==
    /\ Status(intent) # "FILLED"
    /\ orders' = [x \in DOMAIN orders \cup {intent} |->
           IF x \in DOMAIN orders
           THEN [orders[x] EXCEPT !.status = IF x = intent THEN "ACCEPTED" ELSE @]
           ELSE o]

\* Mutant: the portfolio is left to the end of the run.
SaveExitUnpaid(intent, p) ==
    LET o == orders[intent]
        net == SellNet(o.qty, o.price) IN
    /\ Status(intent) = "ACCEPTED"
    /\ FillOrder(intent, o, net)
    /\ closed' = closed \cup {[intent |-> intent, realized |-> net - o.average * o.qty]}
    /\ lifecycle' = [lifecycle EXCEPT ![o.symbol] = NoRow]
    /\ UNCHANGED <<signals, portfolio, clock>>

\* save_intent_execution of a reserved SELL, with the closed trade and the end
\* of the lifecycle.
SaveExit(intent, p) ==
    LET o == orders[intent]
        net == SellNet(o.qty, o.price) IN
    /\ Status(intent) = "ACCEPTED"
    /\ FillOrder(intent, o, net)
    /\ SavePortfolio(ApplySell(p, o.symbol, o.qty, o.price))
    /\ closed' = closed \cup {[intent |-> intent, realized |-> net - o.average * o.qty]}
    /\ lifecycle' = [lifecycle EXCEPT ![o.symbol] = NoRow]
    /\ UNCHANGED <<signals, clock>>

StoreInit ==
    /\ signals = <<>>
    /\ orders = <<>>
    /\ fills = <<>>
    /\ portfolio = NewPortfolio
    /\ lifecycle = [s \in Symbol |-> NoRow]
    /\ closed = {}
    /\ clock = 0
=============================================================================
