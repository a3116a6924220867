----------------------------- MODULE RunHistory ------------------------------
(***************************************************************************)
(* The operation history (operation_runs, operation_steps) and the two     *)
(* ways a run is recorded: "direct", where the process of the operation    *)
(* records itself (run_tracked_entrypoint), and "quantctl", where a parent *)
(* starts the operation and records the exit it observes                   *)
(* (execute_operation).                                                    *)
(***************************************************************************)
EXTENDS ForwardDaily

VARIABLES
  status,    \* recorded status of a run; "none" before begin_run
  steps,     \* the recorded stages of a run: the last one and its result
  launch,    \* who records the run
  recorder,  \* the recording process: "none", "waits" or "gone"
  exit       \* how the operation's process left

historyVars == <<status, steps, launch, recorder, exit>>

Launcher == {"direct", "quantctl"}
Terminal == {"SUCCESS", "FAILED", "CANCELLED"}
NoExit == "none"
Exit == {"ok", "error", "interrupted", "killed"}
NoSteps == [last |-> "none", ok |-> FALSE]

HistoryInit ==
  /\ status = [r \in Run |-> "none"]
  /\ steps = [r \in Run |-> NoSteps]
  /\ launch = [r \in Run |-> "direct"]
  /\ recorder = [r \in Run |-> "none"]
  /\ exit = [r \in Run |-> NoExit]

BeginRun(r, how) ==
  /\ status' = [status EXCEPT ![r] = "RUNNING"]
  /\ launch' = [launch EXCEPT ![r] = how]
  /\ recorder' = [recorder EXCEPT ![r] = "waits"]
  /\ UNCHANGED <<steps, exit>>

\* record_daily_pipeline_steps: the stages replace what the run had recorded.
RecordSteps(r, last, ok) ==
  /\ steps' = [steps EXCEPT ![r] = [last |-> last, ok |-> ok]]
  /\ UNCHANGED <<status, launch, recorder, exit>>

\* The process of the operation leaves.  The process of a direct run is also
\* the one that records it, and a killed one records nothing.
Leave(r, how) ==
  /\ exit' = [exit EXCEPT ![r] = how]
  /\ recorder' = IF launch[r] = "direct" /\ how = "killed"
                   THEN [recorder EXCEPT ![r] = "gone"] ELSE recorder
  /\ UNCHANGED <<status, steps, launch>>

\* Mutant: the way the process left is stored as the status.
StatusAsLeft(how) == how

\* Exit code 0 is a success, 130 a cancellation, any other a failure.
StatusOf(how) ==
  CASE how = "ok" -> "SUCCESS"
    [] how = "interrupted" -> "CANCELLED"
    [] OTHER -> "FAILED"

FinishRun(r) ==
  /\ recorder[r] = "waits" /\ exit[r] # NoExit
  /\ status' = [status EXCEPT ![r] = StatusOf(exit[r])]
  /\ recorder' = [recorder EXCEPT ![r] = "gone"]
  /\ UNCHANGED <<steps, launch, exit>>

\* The recorder dies: a parent whose child goes on, or either one after the
\* operation has left and before its status is written.
LoseRecorder(r) ==
  /\ recorder[r] = "waits"
  /\ launch[r] = "quantctl" \/ exit[r] # NoExit
  /\ recorder' = [recorder EXCEPT ![r] = "gone"]
  /\ UNCHANGED <<status, steps, launch, exit>>
=============================================================================
