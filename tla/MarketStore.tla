---------------------------- MODULE MarketStore -----------------------------
(***************************************************************************)
(* market.db for one symbol, its write lock (BEGIN IMMEDIATE), and the     *)
(* processes that hold it: what admission, reviewed rebase and recovery    *)
(* share.  market.db and the observation log are two SQLite files; no      *)
(* transaction spans both, and a process may die between any two steps.    *)
(***************************************************************************)
EXTENDS ObservationLog

CONSTANTS Proc,         \* processes writing market data
          NoProc,       \* the market write lock is free
          InitialHistory, \* histories the log may be registered on
          MaxJobs,      \* bound on calls started
          WriteMayFail, \* may a market INSERT/UPDATE raise (disk, constraint)?
          OutOfBandEdit \* may something else than this code rewrite market.db?

ASSUME ProcAssumption == NoProc \notin Proc
ASSUME InitialHistoryAssumption == InitialHistory \subseteq History
ASSUME BoundAssumption == MaxJobs \in Nat
ASSUME FaultAssumption == WriteMayFail \in BOOLEAN /\ OutOfBandEdit \in BOOLEAN

VARIABLES
    market, \* committed rows of the symbol
    lock,   \* holder of the market write lock
    job,    \* what each process is doing: locals of its current call
    jobs,   \* calls started so far
    edited  \* an out-of-band edit has happened

storeVars == <<market, lock, job, jobs, edited>>
vars == <<logVars, storeVars>>

Phase == {"idle",
          "observed", "readmitting", "readmitted", "waiting", "locked",
          "comparing", "decided", "claimed", "failed", "committed",
          "rebase_waiting", "rebase_locked", "rebase_planned",
          "rebase_claimed", "rebase_committed",
          "recover_waiting", "recover_locked"}

\* Phases of a process inside its BEGIN IMMEDIATE section.
LockedPhase == {"locked", "comparing", "decided", "claimed",
                "rebase_locked", "rebase_planned", "rebase_claimed",
                "recover_locked"}

Job == [phase : Phase, id : Id \cup {NoOwner}, ticket : Nat,
        final : Finalization, block : Nat, claim : Claim]
IdleJob == [phase |-> "idle", id |-> NoOwner, ticket |-> 0,
            final |-> Reconciled({}, EmptyHistory), block |-> 0,
            claim |-> NoClaim]

StoreTypeOK ==
    /\ market \in History
    /\ lock \in Proc \cup {NoProc}
    /\ job \in [Proc -> Job]
    /\ jobs \in 0 .. MaxJobs
    /\ edited \in BOOLEAN

TypeOK == LogTypeOK /\ StoreTypeOK

Init ==
    /\ \E h \in InitialHistory : LogInit(h) /\ market = h
    /\ lock = NoProc
    /\ job = [p \in Proc |-> IdleJob]
    /\ jobs = 0
    /\ edited = FALSE

-----------------------------------------------------------------------------
(* Process control *)

At(p, phase) == job[p].phase = phase

Start(p, j) ==
    /\ At(p, "idle")
    /\ jobs < MaxJobs
    /\ jobs' = jobs + 1
    /\ job' = [job EXCEPT ![p] = j]

Goto(p, phase) == job' = [job EXCEPT ![p].phase = phase]
Finish(p) == job' = [job EXCEPT ![p] = IdleJob]

\* COMMIT, ROLLBACK or process death: the market lock is released.
Release(p) == lock' = IF lock = p THEN NoProc ELSE lock

\* Mutant: an early return leaves the transaction, hence the lock, open.
FinishStillLocked(p) == Finish(p) /\ UNCHANGED <<market, lock, jobs, edited>>

\* ROLLBACK and leave the locked section for good.
FinishLocked(p) == Finish(p) /\ Release(p) /\ UNCHANGED <<market, jobs, edited>>

\* Mutant: a deferred transaction, which takes no write lock.
AcquireNoLock(p, from, to) ==
    /\ At(p, from)
    /\ lock' = p
    /\ Goto(p, to)
    /\ UNCHANGED <<logVars, market, jobs, edited>>

AcquireLock(p, from, to) ==
    /\ At(p, from)
    /\ lock = NoProc
    /\ lock' = p
    /\ Goto(p, to)
    /\ UNCHANGED <<logVars, market, jobs, edited>>

\* The process dies: an uncommitted market transaction is rolled back by
\* SQLite, the lock is gone, the log keeps whatever was committed to it.
Crash(p) ==
    /\ ~At(p, "idle")
    /\ Finish(p)
    /\ Release(p)
    /\ UNCHANGED <<logVars, market, jobs, edited>>

\* A legacy writer, a restored backup or a manual edit of market.db.
EditOutOfBand(h) ==
    /\ OutOfBandEdit
    /\ ~edited
    /\ lock = NoProc
    /\ h # market
    /\ market' = h
    /\ edited' = TRUE
    /\ UNCHANGED <<logVars, lock, job, jobs>>

-----------------------------------------------------------------------------
(***************************************************************************)
(* reconcile_open_intents: settle an intent an earlier process left open.  *)
(* Its owner is the intent's observation; recovery only looks whether the  *)
(* claimed rows reached the market.                                        *)
(***************************************************************************)
RowsPresent(i) ==
    LET S == lastEvent[i].claim.sessions
    IN  S # {} /\ \A s \in S : market[s] = i.batch.rows[s]
RowsAbsent(i) == \A s \in lastEvent[i].claim.sessions : market[s] = NoRow

\* Mutant: recovery abandons every intent an earlier process left.
AbandonAlways(p, i) ==
    /\ lastEvent[i].kind = "INTENT"
    /\ AbandonIntent(i)
    /\ UNCHANGED storeVars

SettleAppend(p, i) ==
    LET f == Reconciled(lastEvent[i].claim.sessions, market)
    IN  /\ lastEvent[i].kind = "INTENT"
        /\ \/ /\ RowsPresent(i)
              /\ RecordApplication(i, f)
              /\ IF Finalizes(i, f)
                 THEN UNCHANGED storeVars
                 ELSE FinishLocked(p)
           \/ /\ ~RowsPresent(i) /\ RowsAbsent(i)
              /\ AbandonIntent(i)
              /\ UNCHANGED storeVars

\* reconcile_rebase_intent: FINALIZED, ABANDONED, or (neither) AMBIGUOUS.
SettleRebase(p, i) ==
    LET e == lastEvent[i]
    IN  /\ e.kind = "REBASE_INTENT"
        /\ \/ /\ market = e.claim.post
              /\ RecordRebase(i, e.claim, e.ticket)
              /\ IF Rebases(i, e.claim, e.ticket)
                 THEN UNCHANGED storeVars
                 ELSE FinishLocked(p)
           \/ /\ market # e.claim.post /\ market = e.claim.pre
              /\ AbandonIntent(i)
              /\ UNCHANGED storeVars

Ambiguous(i) ==
    LET e == lastEvent[i]
    IN  \/ e.kind = "INTENT" /\ ~RowsPresent(i) /\ ~RowsAbsent(i)
        \/ e.kind = "REBASE_INTENT" /\ market \notin {e.claim.pre, e.claim.post}

\* A failed statement: ROLLBACK first, then the abandonment is logged.
AbandonAfterRollback(p) ==
    /\ At(p, "failed")
    /\ AbandonIntent(job[p].id)
    /\ Finish(p)
    /\ UNCHANGED <<market, lock, jobs, edited>>
=============================================================================
