------------------------------- MODULE MCRules -------------------------------
(***************************************************************************)
(* The sequential parts for TLC.  classify_overlap, ExitEngine and the     *)
(* transactional market-data path share no state, so a behaviour compares  *)
(* batches, holds a position or ingests, and the other parts rest.         *)
(***************************************************************************)
EXTENDS OverlapCheck, ExitCheck, ShadowProperties

CONSTANTS a, b, gap, raw, adjusted, op

VARIABLE subject  \* the rule a behaviour is about

rulesVars == <<overlapVars, exitVars, shadowVars, subject>>

\* Policies tried: trailing on or off, time exit on or off, and either order of
\* stop and target within a bar.
Policies == [stop : {TRUE}, target : {TRUE}, trailing : BOOLEAN, time : {TRUE},
             first : {"CONSERVATIVE_STOP", "OPTIMISTIC_TARGET"}]
            \cup {[stop |-> s, target |-> ~s, trailing |-> TRUE, time |-> FALSE,
                   first |-> "CONSERVATIVE_STOP"] : s \in BOOLEAN}

\* A clone holds nothing or two legacy sessions; a provider reports windows.
LegacyRows == {[d \in Day |-> IF d <= k THEN a ELSE Absent] : k \in {0, 2}}

Reported(from, to) == [d \in Day |-> IF d \in from..to THEN a ELSE Absent]

Daily(rows, target, basis) ==
    [rows |-> rows, target |-> target, completed |-> "ADMITTED",
     intent |-> "INCREMENTAL_UPDATE", basis |-> basis, source |-> TRUE, identity |-> TRUE,
     coverage |-> TRUE, claims |-> TRUE, explained |-> FALSE]

Submitted ==
    {Daily(Reported(1, 3), 3, raw), Daily(Reported(1, 3), 3, Unknown),
     Daily([Reported(1, 3) EXCEPT ![3] = b], 3, raw),         \* a revised observation
     Daily([Reported(1, 3) EXCEPT ![3] = gap], 3, raw),       \* a price gap
     Daily(Reported(2, 4), 4, raw), Daily(Reported(3, 4), 4, raw),
     Daily([Reported(1, 4) EXCEPT ![3] = Absent], 4, raw),    \* leaves a hole
     Daily(Reported(3, 5), 5, raw), Daily(Reported(2, 5), 5, adjusted),
     Daily([Reported(3, 5) EXCEPT ![4] = b], 5, raw),         \* an attributed revision
     [Daily([Reported(3, 5) EXCEPT ![5] = gap], 5, raw) EXCEPT !.completed = "UNRESOLVED"],
     [Daily(Reported(1, 3), 3, adjusted)
        EXCEPT !.intent = "BACKFILL", !.completed = "MISSING"]}

Jumps == {<<a, gap>>}

OverlapRests ==
    /\ stored = [s \in Session |-> NoRow]
    /\ batch = [rows |-> stored, lo |-> 1, hi |-> 1]
    /\ verdict = "NONE"

ExitRests ==
    /\ config = [stop |-> TRUE, target |-> FALSE, trailing |-> TRUE, time |-> FALSE,
                 first |-> "CONSERVATIVE_STOP"]
    /\ bar = [open |-> 2, high |-> 2, low |-> 2, close |-> 2, atr |-> 1]
    /\ position = [entry |-> 2, stop |-> 1, target |-> 0, highest |-> 2,
                   trailing |-> NoPrice, multiplier |-> 0, limit |-> 0]
    /\ session = 0 /\ signal = FALSE
    /\ decision = Evaluate(config, position, bar, session, signal)

ShadowRests ==
    /\ db = [rows |-> [d \in Day |-> Absent], link |-> [d \in Day |-> NoOp], receipts |-> {},
             manifests |-> {}, staged |-> {}, observations |-> {}]
    /\ draft = db
    /\ txn = Idle

Init ==
    \/ subject = "overlap" /\ OverlapInit /\ ExitRests /\ ShadowRests
    \/ subject = "exit" /\ ExitInit /\ OverlapRests /\ ShadowRests
    \/ subject = "shadow" /\ ShadowInit /\ OverlapRests /\ ExitRests

Next ==
    /\ \/ subject = "overlap" /\ Compare /\ UNCHANGED <<exitVars, shadowVars>>
       \/ subject = "exit" /\ NextBar /\ UNCHANGED <<overlapVars, shadowVars>>
       \/ subject = "shadow" /\ ShadowNext /\ UNCHANGED <<overlapVars, exitVars>>
    /\ UNCHANGED subject

Spec == Init /\ [][Next]_rulesVars
=============================================================================
