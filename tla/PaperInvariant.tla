--------------------------- MODULE PaperInvariant ----------------------------
(***************************************************************************)
(* The inductive invariant of paper trading when one process runs at a     *)
(* time: what the tables hold, and what the run at each of its steps       *)
(* knows about them.                                                       *)
(***************************************************************************)
EXTENDS PaperProperties

\* Nothing excludes a second process; these facts need that there is none.
OneProcess == \A p, q \in Process : p = q

-----------------------------------------------------------------------------
(* The tables. *)

Bought(i) == Status(Entry(i)) = "FILLED"
IsExit(x) == "stamp" \in DOMAIN x
Costs == Slip + Fee + Tax

SignalStatus == {"PENDING", "FILLED", "ALREADY_EXECUTED", "REJECTED", "SKIPPED",
                 "MISSED_EXECUTION"}

SignalsOK ==
    /\ signals \in Seq([day : Nat, symbol : Symbol, atr : Payload,
                        status : SignalStatus])
    /\ market \in Seq(Markets) /\ market # <<>>
    /\ \A i \in DOMAIN signals : signals[i].day <= today

\* The order of a signal: bought at the open of the session after it, or rejected.
BuyOK(i, o) ==
    /\ o.side = "BUY" /\ o.symbol = signals[i].symbol
    /\ o.day = signals[i].day + 1 /\ o.day <= today
    /\ o.qty \in Nat \ {0} /\ o.price \in Price
    /\ o.stop \in Int /\ o.target \in Int
    /\ o.status \in {"FILLED", "REJECTED"}
    /\ o.status = "FILLED" => ValidRow(EntryRow(i, o))

\* An exit sells what one settled signal bought, at a price that pays for its costs.
SellTerms(x, o) ==
    /\ o.side = "SELL"
    /\ o.qty \in Nat \ {0} /\ o.price \in Price /\ Costs < o.price /\ o.average \in Nat
    /\ x.signal \in DOMAIN signals /\ Bought(x.signal)
    /\ signals[x.signal].status # "PENDING"
    /\ o.symbol = signals[x.signal].symbol
    /\ o.status = "ACCEPTED" \/ o.status = "FILLED"

OrdersOK ==
    \A x \in DOMAIN orders :
        \/ \E i \in DOMAIN signals : x = Entry(i) /\ BuyOK(i, orders[x])
        \/ IsExit(x) /\ SellTerms(x, orders[x])

RowFields(r) ==
    {"entry", "day", "price", "qty", "stop", "target", "highest", "trailing", "since"}
        \subseteq DOMAIN r

\* A row protects what one signal bought and no exit has sold.
RowOK(s, r) ==
    /\ RowFields(r)
    /\ {r.day, r.price, r.stop, r.target, r.highest, r.trailing} \subseteq Nat
    /\ ValidRow(r)
    /\ r.entry \in DOMAIN signals /\ signals[r.entry].symbol = s
    /\ Bought(r.entry) /\ ~Sold(r.entry)
    /\ r.day = signals[r.entry].day + 1

LifecycleOK ==
    /\ lifecycle = [s \in Symbol |-> lifecycle[s]]
    /\ \A s \in Symbol : lifecycle[s] # NoRow => RowOK(s, lifecycle[s])

\* What was bought and not sold is what the row of its symbol protects.
DealsOK ==
    \A i \in DOMAIN signals : Bought(i) /\ ~Sold(i) =>
        /\ lifecycle[signals[i].symbol] # NoRow
        /\ lifecycle[signals[i].symbol].entry = i

\* An order sells the whole of a position, at its cost.
SellsAll(o, held) == o.qty = held.qty /\ o.average = held.average

\* A reserved exit sells the whole position; a symbol has at most one.
OpenSalesOK ==
    /\ \A x \in OpenSells :
        /\ ~Sold(x.signal)
        /\ SellsAll(orders[x], portfolio.position[orders[x].symbol])
    /\ \A x, y \in OpenSells : orders[x].symbol = orders[y].symbol => x = y

\* The books are typed, and only a filled exit has closed a trade.
BooksOK ==
    /\ \E S : fills \in Seq(S)
    /\ \A k \in DOMAIN fills : fills[k].qty \in Nat /\ fills[k].net \in Int
    /\ IsFiniteSet(closed)
    /\ \A t \in closed : t.realized \in Int /\ Status(t.intent) = "FILLED"

AccountInv == BooksOK /\ AccountsBalance

TablesOK ==
    /\ SignalsOK /\ OrdersOK /\ LifecycleOK
    /\ portfolio \in PortfolioType /\ HeldHasLifecycle
    /\ DealsOK /\ OpenSalesOK /\ SettledAgreesWithOrder

-----------------------------------------------------------------------------
(* The run, by where it is. *)

Fields(j) ==
    {"phase", "day", "mem", "pin", "todo", "kept", "count", "verdict", "list", "held",
     "sells", "row", "sale"} \subseteq DOMAIN j

\* The copy of the portfolio is what is stored, and no row is later than the run.
RunOK(j) ==
    /\ j.mem = portfolio
    /\ j.day \in 1 .. today
    /\ \A s \in Symbol : lifecycle[s] # NoRow => lifecycle[s].day <= j.day

Elements(q) == {q[k] : k \in DOMAIN q}
Distinct(q) == \A j, k \in DOMAIN q : q[j] = q[k] => j = k

\* Signals of the session before the run's that nothing was ordered for.
Executable(j) ==
    {i \in Outstanding(j.day) : signals[i].day + 1 = j.day /\ Status(Entry(i)) = "NONE"}

\* Those with a price to be bought at.
Tradable(j) == {i \in Executable(j) : Bar(j.day, signals[i].symbol) # NoBar}

\* The loops over signals visit every due one once, and pass on what they may.
VisitOK(j, may, passed) ==
    /\ \E S : j.todo \in Seq(S) /\ j.kept \in Seq(S)
    /\ Distinct(j.todo) /\ Distinct(j.kept)
    /\ Elements(j.todo) \cap Elements(j.kept) = {}
    /\ Elements(j.todo) \cup Elements(j.kept) = Outstanding(j.day)
    /\ Elements(j.todo) \subseteq may
    /\ Elements(j.kept) \subseteq passed

\* What a signal is about to be completed with agrees with its order.
Agrees(i, status) ==
    /\ status \in SignalStatus \ {"PENDING"}
    /\ status \in {"FILLED", "ALREADY_EXECUTED"} <=> Bought(i)

ResultsOK(q) ==
    /\ \E S : q \in Seq(S)
    /\ \A k \in DOMAIN q : /\ q[k] = <<q[k][1], q[k][2]>>
                           /\ q[k][1] \in DOMAIN signals /\ Agrees(q[k][1], q[k][2])
    /\ \A k, m \in DOMAIN q : q[k][1] = q[m][1] => k = m

Visited(q) == {q[k][1] : k \in DOMAIN q}

\* Of the executed signals each has its result, once; the rest is still tradable,
\* but for the first while its position is initialized.
ExecuteOK(j, bought) ==
    /\ \E S : j.todo \in Seq(S)
    /\ ResultsOK(j.kept)
    /\ Distinct(j.todo)
    /\ Elements(j.todo) \cap Visited(j.kept) = {}
    /\ Elements(j.todo) \cup Visited(j.kept) = Outstanding(j.day)
    /\ Elements(j.todo) \ bought \subseteq Tradable(j)

InitializeOK(j) ==
    LET i == Head(j.todo) IN
    /\ j.todo # <<>>
    /\ ExecuteOK(j, {i})
    /\ i \in Outstanding(j.day) /\ Agrees(i, j.verdict)
    /\ lifecycle[signals[i].symbol] # NoRow
    /\ j.phase = "initialize" => RowOK(signals[i].symbol, j.row)
    /\ j.phase = "initialize" => j.row.day <= j.day

FirstLoops(j) ==
    /\ j.phase \in {"fresh", "settle"} => VisitOK(j, Outstanding(j.day), Executable(j))
    /\ j.phase \in {"price", "settlePriced"} => VisitOK(j, Executable(j), Tradable(j))
    /\ j.phase \in {"settle", "settlePriced"} =>
           j.todo # <<>> /\ Agrees(Head(j.todo), j.verdict)

LastLoops(j) ==
    /\ j.phase = "execute" => ExecuteOK(j, {})
    /\ j.phase \in {"initialize", "initialized"} => InitializeOK(j)
    /\ j.phase = "complete" => ResultsOK(j.todo) /\ Visited(j.todo) = Outstanding(j.day)

\* What the manager knows of the positions it still has to evaluate, a reserved
\* exit of any other has no bar. The exit just reserved is not in its list.
ManageOK(j, reserved) ==
    /\ Outstanding(j.day) = {}
    /\ j.held \subseteq Symbol
    /\ \A s \in j.held : Holds(portfolio, s) /\ j.list[s] = portfolio.position[s]
    /\ j.sells \subseteq DOMAIN orders
    /\ \A x \in DOMAIN orders : orders[x].symbol \in j.held \ reserved =>
           (x \in j.sells <=> x \in OpenSells)
    /\ \A x \in OpenSells :
           orders[x].symbol \in j.held \/ Bar(j.day, orders[x].symbol) = NoBar

\* A row about to be saved for a position that is held, and not being sold.
HoldOK(j) ==
    /\ ManageOK(j, {})
    /\ j.sale[1] \in j.held /\ RowOK(j.sale[1], j.row) /\ j.row.day <= j.day
    /\ \A x \in OpenSells : orders[x].symbol # j.sale[1]

\* An exit about to be reserved: of one reserved before, or new.
ReserveOK(j) ==
    LET x == j.sale[1]  o == j.sale[2] IN
    /\ ManageOK(j, {})
    /\ IsExit(x) /\ o.symbol \in j.held
    /\ SellTerms(x, o) /\ ~Sold(x.signal)
    /\ o = [f \in DOMAIN o |-> o[f]] /\ "status" \in DOMAIN o /\ o.status = "ACCEPTED"
    /\ SellsAll(o, portfolio.position[o.symbol])
    /\ x \in DOMAIN orders => x \in OpenSells /\ orders[x] = o
    /\ \A y \in OpenSells : orders[y].symbol = o.symbol => y = x

SellOK(j) ==
    LET x == j.sale[1]  o == j.sale[2] IN
    /\ o.symbol \in j.held
    /\ ManageOK(j, {o.symbol})
    /\ x \in OpenSells /\ orders[x].symbol = o.symbol

Managing(j) ==
    /\ j.phase = "load" => Outstanding(j.day) = {}
    /\ j.phase = "manage" => ManageOK(j, {})
    /\ j.phase = "hold" => HoldOK(j)
    /\ j.phase = "reserve" => ReserveOK(j)
    /\ j.phase = "sell" => SellOK(j)

Phase == {"idle", "queued", "fresh", "settle", "price", "settlePriced", "execute",
          "initialize", "initialized", "complete", "load", "manage", "hold",
          "reserve", "sell", "update"}

RunInv(j) ==
    /\ Fields(j)
    /\ j.phase \in Phase
    /\ j.phase = "idle" => j.mem = NewPortfolio
    /\ j.phase # "idle" => RunOK(j)
    /\ FirstLoops(j) /\ LastLoops(j) /\ Managing(j)

\* The locals are named, so that they are those of one state.
PaperInv ==
    /\ TablesOK
    /\ job = [p \in Process |-> job[p]]
    /\ \A p \in Process : \A j \in {job[p]} : RunInv(j)
=============================================================================
