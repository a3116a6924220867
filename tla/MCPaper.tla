------------------------------ MODULE MCPaper --------------------------------
(***************************************************************************)
(* Small instances of paper trading. Rising opens at 10 and closes at its  *)
(* high of 14; Falling touches every stop above 5; Gapped does so from an  *)
(* open that what one purchase leaves of the cash does not pay for.        *)
(***************************************************************************)
EXTENDS PaperProperties, TLC

CONSTANTS a, b, p1, p2

Rising == [open |-> 10, high |-> 14, low |-> 10, close |-> 14, atr |-> 1]
Falling == [open |-> 10, high |-> 10, low |-> 5, close |-> 6, atr |-> 1]
Gapped == [Falling EXCEPT !.open = 11, !.high = 11]

OneSymbol == {[s \in {a} |-> Rising], [s \in {a} |-> Falling]}

\* In one session both are traded, in the other only the second.
TwoSymbols == {[s \in {a, b} |-> IF s = a THEN Rising ELSE Falling],
               [s \in {a, b} |-> IF s = a THEN NoBar ELSE Gapped]}

Processes == Permutations(Process)
=============================================================================
