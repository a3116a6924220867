------------------------------ MODULE ExitCheck ------------------------------
(***************************************************************************)
(* A position through several sessions of the lifecycle manager: evaluate  *)
(* the bar, carry highest price and trailing stop over, until it exits.    *)
(* Checked against a reference definition by paths of the price.           *)
(***************************************************************************)
EXTENDS ExitRules, Sequences

CONSTANTS LastPrice,  \* bound on prices
          Multipliers, Limits, Configs, \* policies tried
          LastHeld \* bound on the sessions of a position

ASSUME PolicyAssumption ==
    /\ Multipliers \subseteq Nat /\ Limits \subseteq Nat
    /\ LastPrice \in Nat /\ LastHeld \in Nat
    /\ Configs \subseteq [stop : BOOLEAN, target : BOOLEAN, trailing : BOOLEAN,
                         time : BOOLEAN,
                         first : {"CONSERVATIVE_STOP", "OPTIMISTIC_TARGET"}]

Prices == 1 .. LastPrice
Bars == {b \in [open : Prices, high : Prices, low : Prices, close : Prices,
                atr : 1 .. 2] : ValidBar(b)}

VARIABLES config,
          position, \* levels the decision reads: those of the session before
          bar, session, signal,
          decision  \* of that position on that bar

exitVars == <<config, position, bar, session, signal, decision>>

\* The first session evaluated is the entry session: no session held yet.
Decide(c, s, n) ==
    /\ bar' \in Bars
    /\ signal' \in BOOLEAN
    /\ position' = s
    /\ session' = n
    /\ decision' = Evaluate(c, s, bar', n, signal')
    /\ config' = c

ExitInit ==
    /\ config \in Configs
    /\ bar \in Bars
    /\ signal \in BOOLEAN
    /\ session = 0
    /\ \E entry \in Prices, stop \in Prices, target \in 0 .. LastPrice + 1,
          multiplier \in Multipliers, limit \in Limits :
        /\ position = [entry |-> entry, stop |-> stop, target |-> target,
                       highest |-> entry, trailing |-> NoPrice,
                       multiplier |-> multiplier, limit |-> limit]
        /\ ValidPosition(position)
    /\ decision = Evaluate(config, position, bar, session, signal)

NextBar ==
    /\ decision = Hold
    /\ session < LastHeld
    /\ Decide(config, Carry(config, position, bar), session + 1)

ExitSpec == ExitInit /\ [][NextBar]_exitVars

-----------------------------------------------------------------------------
\* Reference: the price moves from the open to one extreme, to the other and
\* to the close; a level is met when the price reaches it, and the fill is the
\* level, or the price itself when the session opens beyond it.

Paths(b) == {<<b.open, b.low, b.high, b.close>>, <<b.open, b.high, b.low, b.close>>}

Meets(path, i) == StoppedBy(config, position, path[i])
                  \/ ReachedBy(config, position, path[i])

FirstMet(path) == CHOOSE i \in 1 .. 4 : Meets(path, i)
                                        /\ \A j \in 1 .. i - 1 : ~Meets(path, j)

PathPrice(path) ==
    IF ~\E i \in 1 .. 4 : Meets(path, i) THEN NoPrice
    ELSE IF FirstMet(path) = 1 THEN path[1]
    ELSE IF StoppedBy(config, position, path[FirstMet(path)])
         THEN ActiveStop(config, position) ELSE position.target

\* When stop or target is met in a bar, the position leaves at the worst price
\* any path through the bar allows (the best one under OPTIMISTIC_TARGET).
ExitTakesWorstPath ==
    LET prices == {PathPrice(p) : p \in Paths(bar)} IN
    /\ (decision.reason \in {"STOP_LOSS", "TRAILING_STOP", "TAKE_PROFIT"})
        <=> (prices # {NoPrice})
    /\ (prices # {NoPrice}) =>
        /\ decision.price \in prices
        /\ \A p \in prices : IF config.first = "CONSERVATIVE_STOP"
                             THEN decision.price <= p ELSE decision.price >= p

\* Every exit is booked at a price that was traded in its session: a gap
\* through the stop or the target never fills at the level itself.
ExitPriceWasTraded ==
    decision # Hold => bar.low <= decision.price /\ decision.price <= bar.high

\* The stop that protects a held position never falls from session to session.
StopNeverFalls ==
    [][ActiveStop(config, position') >= ActiveStop(config, position)]_exitVars
=============================================================================
