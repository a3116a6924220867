-------------------------- MODULE PaperObservation ---------------------------
(***************************************************************************)
(* What a lifecycle run leaves as prospective evidence: after the account  *)
(* is committed, run_paper_lifecycle.main captures one observation of it   *)
(* per session and configuration in a ledger of its own                    *)
(* (capture_prospective_portfolio_evidence).  The account's fills since    *)
(* the previous observation are told by it.  The event cursor is kept as   *)
(* the id of the last fill: a closed trade is stored with its SELL fill    *)
(* and read in the same snapshot.                                          *)
(***************************************************************************)
EXTENDS PaperProperties, FiniteSetsExt

CONSTANT Configuration   \* runtime configurations a run may be started with

ASSUME ConfigurationAssumption == Configuration # {}

VARIABLES
    baselines,    \* paper_metadata: last fill before the first run of a session
    observations, \* the append-only ledger
    capture,      \* what a process does after its run has committed
    overlapped    \* history variable: two processes have been at work at once

evidenceVars == <<baselines, observations, capture, overlapped>>
observedVars == <<paperVars, evidenceVars>>

NoCapture == [phase |-> "none", day |-> 0, config |-> "", since |-> 0, pin |-> 0,
              draft |-> <<>>]

Capturing(p, phase) == capture[p].phase = phase
Advance(p, c) == capture' = [capture EXCEPT ![p] = c]
CapturesOnly == UNCHANGED <<paperVars, baselines, overlapped>>

Working(p) == ~Idle(p) \/ ~Capturing(p, "none")
Overlap(p) == overlapped' = (overlapped \/ \E q \in Process \ {p} : Working(q))

-----------------------------------------------------------------------------
(* Around a run. *)

\* get_or_create_prospective_evidence_baseline: the first run of a session.
SaveBaseline(day) ==
    baselines' = [d \in DOMAIN baselines \cup {day} |->
        IF d \in DOMAIN baselines THEN baselines[d] ELSE Len(fills)]

StartObservedRun(p) ==
    /\ Capturing(p, "none")
    /\ StartRun(p)
    /\ SaveBaseline(today)
    /\ Overlap(p)
    /\ UNCHANGED <<observations, capture>>

StartPriceUpdate(p) ==
    /\ Capturing(p, "none")
    /\ StartUpdate(p)
    /\ Overlap(p)
    /\ UNCHANGED <<baselines, observations, capture>>

\* A run that returns goes on to its capture; one that raises does not.
Returning(p) == At(p, "manage") /\ job[p].held = {}

ObservedRunStep(p) ==
    /\ RunStep(p)
    /\ IF Returning(p)
         THEN \E config \in Configuration :
                Advance(p, [NoCapture EXCEPT !.phase = "find", !.day = job[p].day,
                                             !.config = config])
         ELSE UNCHANGED capture
    /\ UNCHANGED <<baselines, observations, overlapped>>

-----------------------------------------------------------------------------
(* The capture. *)

Key(o) == <<o.day, o.config>>
Existing(p) == {o \in observations : Key(o) = Key(capture[p])}

FindObservation(p) ==
    /\ Capturing(p, "find")
    /\ \/ \E o \in Existing(p) :
            Advance(p, [capture[p] EXCEPT !.phase = "replay", !.draft = o])
       \/ Existing(p) = {} /\ Advance(p, [capture[p] EXCEPT !.phase = "prior"])
    /\ UNCHANGED observations /\ CapturesOnly

\* The snapshot of the source account an observation tells.
Account(day, config, since) ==
    [day |-> day, config |-> config, cursor |-> Len(fills),
     told |-> since + 1 .. Len(fills), portfolio |-> portfolio]

\* _source_state_matches_record.
SameState(o) == o.cursor = Len(fills) /\ o.portfolio = portfolio

Succeed(p) == Advance(p, [capture[p] EXCEPT !.phase = "captured", !.draft = <<>>])
Fail(p) == Advance(p, NoCapture)

\* Mutant: an observation that exists is returned as it is.
ReplayUnchecked(p) ==
    /\ Capturing(p, "replay")
    /\ Succeed(p)
    /\ UNCHANGED observations /\ CapturesOnly

\* A session that has its observation may be replayed, not changed.
ReplayObservation(p) ==
    /\ Capturing(p, "replay")
    /\ IF SameState(capture[p].draft) THEN Succeed(p) ELSE Fail(p)
    /\ UNCHANGED observations /\ CapturesOnly

\* Mutant: of several configurations any one is resumed from.
ResumeFromLeast(day) ==
    LET prior == {o \in observations : o.day < day}
        latest == {o \in prior : \A q \in prior : q.day <= o.day}
    IN  IF prior = {} THEN baselines[day] ELSE Min({o.cursor : o \in latest})

\* latest_before: of the latest earlier session the greatest cursor, whichever
\* configuration has it; without any, the baseline of the session.
ResumeFrom(day) ==
    LET prior == {o \in observations : o.day < day}
        latest == {o \in prior : \A q \in prior : q.day <= o.day}
    IN  IF prior = {} THEN baselines[day] ELSE Max({o.cursor : o \in latest})

\* The dataset version is pinned before the account is read.
FindPrior(p) ==
    /\ Capturing(p, "prior")
    /\ Advance(p, [capture[p] EXCEPT !.phase = "account", !.pin = today,
                                     !.since = ResumeFrom(capture[p].day)])
    /\ UNCHANGED observations /\ CapturesOnly

ReadAccount(p) ==
    /\ Capturing(p, "account")
    /\ LET c == capture[p] IN
       Advance(p, [c EXCEPT !.phase = "append",
                            !.draft = Account(c.day, c.config, c.since)])
    /\ UNCHANGED observations /\ CapturesOnly

\* bind refuses a dataset that has advanced; append returns the identical
\* observation of another process and refuses a different one.
AppendObservation(p) ==
    /\ Capturing(p, "append")
    /\ LET draft == capture[p].draft IN
       \/ /\ capture[p].pin = today
          /\ Existing(p) \subseteq {draft}
          /\ observations' = observations \cup {draft}
          /\ Succeed(p)
       \/ /\ capture[p].pin # today \/ ~(Existing(p) \subseteq {draft})
          /\ Fail(p)
          /\ UNCHANGED observations
    /\ CapturesOnly

\* main prints the observation and returns.
ReportRun(p) ==
    /\ Capturing(p, "captured")
    /\ Advance(p, NoCapture)
    /\ UNCHANGED observations /\ CapturesOnly

CaptureStep(p) ==
    \/ FindObservation(p) \/ ReplayObservation(p) \/ FindPrior(p)
    \/ ReadAccount(p) \/ AppendObservation(p) \/ ReportRun(p)

\* The process dies, or the evidence ledger cannot be read or written.
CaptureCrash(p) ==
    /\ ~Capturing(p, "none")
    /\ crashes < MaxCrashes
    /\ crashes' = crashes + 1
    /\ Advance(p, NoCapture)
    /\ UNCHANGED <<storeVars, market, job, runs, updates>>
    /\ UNCHANGED <<baselines, observations, overlapped>>

-----------------------------------------------------------------------------

ObservedInit ==
    /\ Init
    /\ baselines = <<>>
    /\ observations = {}
    /\ capture = [p \in Process |-> NoCapture]
    /\ overlapped = FALSE

ObservedNext ==
    \/ (OpenSession \/ QueueSignal) /\ UNCHANGED evidenceVars
    \/ \E p \in Process :
        \/ StartObservedRun(p) \/ StartPriceUpdate(p) \/ ObservedRunStep(p)
        \/ CaptureStep(p) \/ CaptureCrash(p)
        \/ Crash(p) /\ UNCHANGED evidenceVars

ObservedSpec == ObservedInit /\ [][ObservedNext]_observedVars

-----------------------------------------------------------------------------

\* Events are told once: as long as one run follows another, two sessions never
\* tell the same fill, and no fill of the first observed session or a later one
\* is passed over, whatever runs died between their fills and their capture or
\* were refused a second observation (capture_prospective_portfolio_evidence,
\* latest_before, get_or_create_prospective_evidence_baseline).
EventsToldOnce ==
    ~overlapped =>
        /\ \A o, q \in observations : o.day # q.day => o.told \cap q.told = {}
        /\ \A o \in observations : \A k \in 1 .. o.cursor :
            \/ \E q \in observations : k \in q.told
            \/ \A q \in observations : orders[fills[k].intent].day < q.day

\* A run that reports its evidence, new or existing, has an observation of its
\* session that describes the account as it left it: a rerun that traded again
\* is refused and never passed off as the observation of the first.
CapturedRunIsObserved ==
    ~overlapped =>
        \A p \in Process : Capturing(p, "captured") =>
            \E o \in Existing(p) : SameState(o)
=============================================================================
