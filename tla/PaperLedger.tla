----------------------------- MODULE PaperLedger -----------------------------
(***************************************************************************)
(* What the paper account promises: a queued signal is dropped or bought,  *)
(* once and in the session after its own; a bought one is sold at most     *)
(* once; a symbol has one open deal; cash moves with these deals only and  *)
(* is never overdrawn.                                                     *)
(***************************************************************************)
EXTENDS Integers, Sequences

CONSTANT InitialCash

VARIABLES deals, cash

ledgerVars == <<deals, cash>>

Open(s) == {i \in DOMAIN deals : deals[i].stage = "open" /\ deals[i].symbol = s}

Init == deals = <<>> /\ cash = InitialCash

Enqueue ==
    /\ Len(deals') = Len(deals) + 1
    /\ \A i \in DOMAIN deals : deals'[i] = deals[i]
    /\ \A i \in DOMAIN deals : \/ deals[i].symbol # deals'[Len(deals')].symbol
                               \/ deals[i].day < deals'[Len(deals')].day
    /\ deals'[Len(deals')].stage = "queued"
    /\ UNCHANGED cash

Move(i, from, to) ==
    /\ deals[i].stage = from
    /\ deals' = [deals EXCEPT ![i].stage = to]

Drop(i) == Move(i, "queued", "dropped") /\ UNCHANGED cash

Buy(i) ==
    /\ Move(i, "queued", "open")
    /\ Open(deals[i].symbol) = {}
    /\ cash' < cash /\ 0 <= cash'

Sell(i) ==
    /\ Move(i, "open", "closed")
    /\ cash' > cash

Next == Enqueue \/ \E i \in DOMAIN deals : Drop(i) \/ Buy(i) \/ Sell(i)

Spec == Init /\ [][Next]_ledgerVars
=============================================================================
