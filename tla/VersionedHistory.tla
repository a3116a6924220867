-------------------------- MODULE VersionedHistory --------------------------
(***************************************************************************)
(* What market admission and reviewed rebase promise together, without     *)
(* processes, locks, intents or recovery: the stored history of a symbol   *)
(* moves from one attributed version to the next.                          *)
(*                                                                         *)
(* A change starts only from a history that is exactly the latest version, *)
(* it is either an append behind every stored session or a rewrite of      *)
(* values that keeps the set of sessions, and it is attributed, whole, by  *)
(* exactly one new version before the next change can start.               *)
(***************************************************************************)
EXTENDS OverlapRules

CONSTANT Initial  \* histories the log may be registered on

VARIABLES history,    \* stored rows of the symbol
          attributed, \* the history the latest version carries
          version     \* number of the latest version

vhVars == <<history, attributed, version>>

Init ==
    /\ history \in Initial
    /\ attributed = history
    /\ version = 0

Settled == history = attributed

Append ==
    /\ Settled
    /\ \E h \in History :
        /\ h # history
        /\ \A s \in Session :
            h[s] # history[s] => history[s] = NoRow /\ After(history, s)
        /\ history' = h
    /\ UNCHANGED <<attributed, version>>

Rewrite ==
    /\ Settled
    /\ \E h \in History :
        /\ h # history
        /\ Stored(h) = Stored(history)
        /\ history' = h
    /\ UNCHANGED <<attributed, version>>

Attribute ==
    /\ ~Settled
    /\ attributed' = history
    /\ version' = version + 1
    /\ UNCHANGED history

Next == Append \/ Rewrite \/ Attribute

Spec == Init /\ [][Next]_vhVars
=============================================================================
