------------------------- MODULE MCPaperObservation --------------------------
(***************************************************************************)
(* A small instance of two processes with the capture of their runs.       *)
(* Rising opens at 10 and closes at its high of 14; Falling touches every  *)
(* stop above 5.                                                           *)
(***************************************************************************)
EXTENDS PaperObservation, TLC

CONSTANTS a, p1, p2,
          LastSharedDay   \* bound: processes overlap up to this session

Rising == [open |-> 10, high |-> 14, low |-> 10, close |-> 14, atr |-> 1]
Falling == [open |-> 10, high |-> 10, low |-> 5, close |-> 6, atr |-> 1]

OneSymbol == {[s \in {a} |-> Rising], [s \in {a} |-> Falling]}

MCNext ==
    /\ ObservedNext
    /\ overlapped' => Len(market') <= LastSharedDay

MCSpec == ObservedInit /\ [][MCNext]_observedVars

Processes == Permutations(Process)
=============================================================================
