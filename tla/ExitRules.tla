------------------------------ MODULE ExitRules ------------------------------
(***************************************************************************)
(* The exit decision of one open position on one daily bar (ExitEngine).   *)
(* Prices are positive integers, a multiple of the tick; NoPrice is None.  *)
(***************************************************************************)
EXTENDS Integers

NoPrice == 0
Price == Nat \ {NoPrice}
Level == Nat

Higher(a, b) == IF a >= b THEN a ELSE b
Lower(a, b) == IF a <= b THEN a ELSE b

\* A validated daily bar: open and close inside the low/high range.
ValidBar(b) ==
    /\ {b.open, b.high, b.low, b.close} \subseteq Price
    /\ b.atr \in Level
    /\ b.low <= b.open /\ b.open <= b.high
    /\ b.low <= b.close /\ b.close <= b.high

\* A validated position: its stop below, its target above the entry price.
ValidPosition(s) ==
    /\ {s.entry, s.stop} \subseteq Price
    /\ {s.target, s.highest, s.trailing, s.multiplier, s.limit} \subseteq Level
    /\ s.stop < s.entry
    /\ s.target = NoPrice \/ s.target > s.entry

Reason == {"STOP_LOSS", "TAKE_PROFIT", "TRAILING_STOP", "TIME_EXIT",
           "EXIT_SIGNAL"}
Hold == [reason |-> "HOLD", price |-> NoPrice]
Exit(reason, price) == [reason |-> reason, price |-> price]

-----------------------------------------------------------------------------
\* A configuration c says which exits are enabled and, in c.first, which of
\* stop and target is assumed to come first in a bar that touches both.

\* Only the trailing level carried over from the previous session counts.
ActiveTrailing(c, s) == IF c.trailing THEN s.trailing ELSE NoPrice

\* Without a trailing level, the stop: NoPrice is below every stop.
EffectiveStop(s, trailing) == Higher(s.stop, trailing)

ActiveStop(c, s) == EffectiveStop(s, ActiveTrailing(c, s))

StopExit(c, s, price) ==
    Exit(IF ActiveTrailing(c, s) >= s.stop THEN "TRAILING_STOP" ELSE "STOP_LOSS",
         price)
TargetExit(price) == Exit("TAKE_PROFIT", price)

StoppedBy(c, s, price) == c.stop /\ price <= ActiveStop(c, s)
ReachedBy(c, s, price) == c.target /\ s.target # NoPrice /\ price >= s.target

\* Mutant: an open beyond the stop fills at the stop.
AtOpenAtLevel(c, s, b) ==
    IF StoppedBy(c, s, b.open) THEN StopExit(c, s, ActiveStop(c, s))
    ELSE IF ReachedBy(c, s, b.open) THEN TargetExit(b.open)
    ELSE Hold

\* The open decides before anything that happens during the session.
AtOpen(c, s, b) ==
    IF StoppedBy(c, s, b.open) THEN StopExit(c, s, b.open)
    ELSE IF ReachedBy(c, s, b.open) THEN TargetExit(b.open)
    ELSE Hold

\* Mutant: a bar that touches both levels always takes the target.
TargetAlwaysFirst(c, s, b) == ReachedBy(c, s, b.high)

TargetComesFirst(c, s, b) ==
    /\ ReachedBy(c, s, b.high)
    /\ StoppedBy(c, s, b.low) => c.first = "OPTIMISTIC_TARGET"

DuringSession(c, s, b) ==
    IF TargetComesFirst(c, s, b) THEN TargetExit(s.target)
    ELSE IF StoppedBy(c, s, b.low) THEN StopExit(c, s, ActiveStop(c, s))
    ELSE Hold

AtClose(c, s, b, sessions, signal) ==
    IF c.time /\ s.limit # 0 /\ sessions >= s.limit THEN Exit("TIME_EXIT", b.close)
    ELSE IF signal THEN Exit("EXIT_SIGNAL", b.close)
    ELSE Hold

\* Evaluate: the first of open, session and close that asks for an exit.
Evaluate(c, s, b, sessions, signal) ==
    IF AtOpen(c, s, b) # Hold THEN AtOpen(c, s, b)
    ELSE IF DuringSession(c, s, b) # Hold THEN DuringSession(c, s, b)
    ELSE AtClose(c, s, b, sessions, signal)

-----------------------------------------------------------------------------
\* What a held position carries into the next session.

HighestPrice(s, b) == Higher(Higher(s.entry, s.highest), b.high)

\* Mutant: the new level replaces the trailing stop even when it is lower.
NextTrailingFollows(c, s, b) ==
    IF ~c.trailing \/ s.multiplier = 0 \/ b.atr = 0 THEN s.trailing
    ELSE Higher(HighestPrice(s, b) - s.multiplier * b.atr, s.stop)

NextTrailing(c, s, b) ==
    IF ~c.trailing \/ s.multiplier = 0 \/ b.atr = 0 THEN s.trailing
    ELSE Higher(s.trailing,
                Higher(HighestPrice(s, b) - s.multiplier * b.atr, s.stop))

Carry(c, s, b) ==
    [s EXCEPT !.highest = HighestPrice(s, b), !.trailing = NextTrailing(c, s, b)]
=============================================================================
