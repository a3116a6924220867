------------------------------- MODULE MCDaily -------------------------------
(***************************************************************************)
(* Instance of the daily operation for TLC.  Runs start in the order of    *)
(* their numbers, which only names them; the odd ones record themselves    *)
(* and the even ones are recorded by quantctl; the second run starts on    *)
(* the last day, while the first may still be anywhere in its own, and     *)
(* skips at most the update.                                               *)
(***************************************************************************)
EXTENDS DailyProperties

CONSTANTS a, VNINDEX

MCNext ==
  /\ Next
  /\ \A r, q \in Run : (r < q /\ pc[r] = "start") => pc'[q] = "start"
  /\ \A r \in Run : launch'[r] = "quantctl" => r % 2 = 0
  /\ skips'[2] \subseteq {"update"}
  /\ today' # today => \A r \in Run : r > 1 => pc[r] = "start"

MCSpec == Init /\ [][MCNext]_vars
=============================================================================
