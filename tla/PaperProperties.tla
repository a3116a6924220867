--------------------------- MODULE PaperProperties ---------------------------
(***************************************************************************)
(* What paper trading promises whatever its processes do.                  *)
(***************************************************************************)
EXTENDS PaperLifecycle, Functions

PortfolioType ==
    [cash : Nat, realized : Int,
     position : [Symbol -> [qty : Nat, average : Nat]]]

\* Types of the stored tables; cash is never overdrawn, in the store or in the
\* copy of any process.
PaperTypeOK ==
    /\ portfolio \in PortfolioType
    /\ \A p \in Process : job[p].mem \in PortfolioType
    /\ \A i \in DOMAIN signals :
        signals[i].status \in {"PENDING", "FILLED", "ALREADY_EXECUTED", "REJECTED",
                               "SKIPPED", "MISSED_EXECUTION"}
    /\ \A x \in DOMAIN orders :
        /\ orders[x].status \in {"ACCEPTED", "FILLED", "REJECTED"}
        /\ orders[x].qty \in Nat \ {0} /\ orders[x].price \in Price
    /\ \A s \in Symbol : lifecycle[s] # NoRow =>
        lifecycle[s].entry \in DOMAIN signals /\ ValidRow(lifecycle[s])

-----------------------------------------------------------------------------

FillsOf(s, side) == {k \in DOMAIN fills : fills[k].symbol = s /\ fills[k].side = side}
Quantities == [k \in DOMAIN fills |-> fills[k].qty]
Shares(s, side) == SumFunctionOnSet(Quantities, FillsOf(s, side))
CashFlows == [k \in DOMAIN fills |-> fills[k].net]
Profits == [t \in closed |-> t.realized]

\* Cash is the initial cash and the cash flows of all fills, every position is
\* what was bought less what was sold, and realized profit is that of the closed
\* trades: in every state a crash can leave.
AccountsBalance ==
    /\ portfolio.cash = InitialCash + SumFunctionOnSet(CashFlows, DOMAIN fills)
    /\ \A s \in Symbol :
        portfolio.position[s].qty = Shares(s, "BUY") - Shares(s, "SELL")
    /\ portfolio.realized = SumFunctionOnSet(Profits, closed)

\* Exactly the held symbols have a lifecycle, hence a stop that protects them.
HeldHasLifecycle ==
    \A s \in Symbol : Holds(portfolio, s) <=> lifecycle[s] # NoRow

\* A signal is reported executed exactly if its order was filled: no crash or
\* rerun turns an executed signal into a missed, skipped or rejected one.
SettledAgreesWithOrder ==
    \A i \in DOMAIN signals : signals[i].status # "PENDING" =>
        ((signals[i].status \in {"FILLED", "ALREADY_EXECUTED"})
         <=> (Status(Entry(i)) = "FILLED"))

\* Nothing is bought at any other open than that of the session after the signal.
BoughtAtNextOpen ==
    \A i \in DOMAIN signals : Status(Entry(i)) = "FILLED" =>
        orders[Entry(i)].day = signals[i].day + 1

\* A run that has visited every position leaves no signal of an earlier session
\* pending, and no reserved exit open for a position it could evaluate.
RunLeavesNothingDue ==
    \A p \in Process : At(p, "manage") /\ job[p].held = {} =>
        /\ \A i \in DOMAIN signals :
            signals[i].day < job[p].day => signals[i].status # "PENDING"
        /\ \A x \in OpenSells : Bar(job[p].day, orders[x].symbol) = NoBar

\* The deals of the abstract ledger: one for each queued signal.
Sold(i) == \E x \in DOMAIN orders : /\ orders[x].side = "SELL" /\ x.signal = i
                                    /\ Status(x) = "FILLED"
Stage(i) ==
    IF Status(Entry(i)) = "FILLED" THEN IF Sold(i) THEN "closed" ELSE "open"
    ELSE IF Status(Entry(i)) = "REJECTED" \/ signals[i].status # "PENDING"
    THEN "dropped" ELSE "queued"

Deals == [i \in DOMAIN signals |-> [symbol |-> signals[i].symbol,
                                    day |-> signals[i].day, stage |-> Stage(i)]]

Ledger == INSTANCE PaperLedger WITH deals <- Deals, cash <- portfolio.cash

\* Every run, crash and rerun implements the ledger: a signal is dropped or
\* bought once, sold at most once, and cash moves with nothing else.
ImplementsPaperLedger == Ledger!Spec

\* No signal stays pending for ever: even if every run of its session dies (a
\* signal whose levels raise ends each of them), a later one declares it missed.
EverySignalSettles ==
    \A i \in 1 .. MaxSignals :
        (i \in DOMAIN signals /\ signals[i].day + 1 < LastDay)
            ~> (i \in DOMAIN signals /\ signals[i].status # "PENDING")

-----------------------------------------------------------------------------
(* Also with several processes at a time. *)

\* However many processes execute it, an intent has one fill exactly when its
\* order is filled.
OneFillPerIntent ==
    \A x \in DOMAIN orders :
        Cardinality({k \in DOMAIN fills : fills[k].intent = x})
            = (IF Status(x) = "FILLED" THEN 1 ELSE 0)

Terms(o) == [o EXCEPT !.status = ""]

\* Once an order is stored its terms are frozen, whoever resumes it, and a filled
\* order is never reopened.
StoredTermsAreFrozen ==
    [][\A x \in DOMAIN orders :
        /\ x \in DOMAIN orders'
        /\ Terms(orders'[x]) = Terms(orders[x])
        /\ Status(x) = "FILLED" => orders'[x] = orders[x]]_paperVars

-----------------------------------------------------------------------------
(* Stated by the repository and violated by the code. *)

\* A trailing stop triggers only in a session after the one it was computed in.
TrailingComesFromEarlierSession ==
    \A x \in DOMAIN orders :
        (orders[x].side = "SELL" /\ orders[x].reason = "TRAILING_STOP")
            => orders[x].since < orders[x].day

\* When all processes are done, a symbol whose every buy was sold is not held.
SoldPositionIsGone ==
    (\A p \in Process : Idle(p)) =>
        \A s \in Symbol :
            Shares(s, "BUY") = Shares(s, "SELL") => ~Holds(portfolio, s)
=============================================================================
