----------------------------- MODULE DailyMarket -----------------------------
(***************************************************************************)
(* The market database as the daily operation uses it: the calendar, what  *)
(* the provider serves, the stored rows of every security, what the        *)
(* observation log finalised and which securities are blocked.  The        *)
(* admission of one batch is modelled in full by MarketAdmission; here it  *)
(* keeps the steps another process can see: an open intent is settled, the *)
(* batch is decided, its rows are committed, its application is recorded.  *)
(*                                                                         *)
(* The provider restates a whole history (a corporate action), so a        *)
(* security's stored history is a prefix of the sessions at one price      *)
(* scale, and a reviewed rebase rewrites all of it.                        *)
(***************************************************************************)
EXTENDS Integers, FiniteSets

CONSTANTS
  Stock,            \* securities that can be selected
  Benchmark,        \* VNINDEX
  LastSession,      \* bound: the last session of the calendar
  FirstToday,       \* the first day of the model; earlier sessions are stored
  Overlap,          \* stored sessions a request goes back (REFRESH_OVERLAP_DAYS)
  Restated,         \* securities the provider may restate
  MaxRestatements   \* bound: how often it may, and a history may be rebased

Security == Stock \cup {Benchmark}
Session == 1..LastSession
Scale == 0..MaxRestatements

ASSUME MarketAssumption ==
  /\ Benchmark \notin Stock
  /\ LastSession \in Nat /\ FirstToday \in 2..LastSession
  /\ Overlap \in Nat
  /\ Restated \subseteq Security
  /\ MaxRestatements \in Nat

VARIABLES
  today,      \* the calendar day; every day is a trading session
  published,  \* the provider serves the completed sessions 1..published
  restated,   \* the price scale at which the provider serves a security
  rows,       \* market.db: sessions 1..upto of a security at one scale;
              \* rebase numbers the observation that wrote the history
  logged,     \* the rows the observation log has finalised
  blocks      \* the unresolved blocks of a security

marketVars == <<today, published, restated, rows, logged, blocks>>

History == [upto : Session, scale : Scale, rebase : Scale]
Block == [scale : Scale, sessions : SUBSET Session]

\* An application that has committed its rows and is not finalised holds an
\* open intent on the sessions it writes.
Open(sec) == rows[sec] # logged[sec]
Rebasing(sec) == rows[sec].rebase # logged[sec].rebase

\* The open intent on sec claims a session of 1..session.
Claims(sec, session) ==
  /\ Open(sec)
  /\ Rebasing(sec) \/ logged[sec].upto < session

\* An unresolved block on sec affects a session of first..last.
BlockHits(sec, first, last) ==
  \E b \in blocks[sec] : b.sessions \cap (first..last) # {}

\* The dataset version: every finalised application makes a new one.
DatasetVersion == logged

MarketInit ==
  /\ today = FirstToday
  /\ published = FirstToday - 1
  /\ restated = [sec \in Security |-> 0]
  /\ rows = [sec \in Security |-> [upto |-> FirstToday - 1, scale |-> 0, rebase |-> 0]]
  /\ logged = rows
  /\ blocks = [sec \in Security |-> {}]

-----------------------------------------------------------------------------
(* The environment. *)

\* The close of today's session: from 15:00 on a batch may hold its bar.
Publish ==
  /\ published < today
  /\ published' = today
  /\ UNCHANGED <<today, restated, rows, logged, blocks>>

NextDay ==
  /\ today < LastSession
  /\ published = today
  /\ today' = today + 1
  /\ UNCHANGED <<published, restated, rows, logged, blocks>>

\* The provider restates the whole history of a security.
Restate(sec) ==
  /\ sec \in Restated
  /\ restated[sec] < MaxRestatements
  /\ restated' = [restated EXCEPT ![sec] = @ + 1]
  /\ UNCHANGED <<today, published, rows, logged, blocks>>

-----------------------------------------------------------------------------
(* Reviewed rebase of a blocked security onto the scale of the block. *)

CommitRebase(sec) ==
  /\ ~Open(sec)
  /\ rows[sec].rebase < MaxRestatements
  /\ \E b \in blocks[sec] :
       /\ b.scale # rows[sec].scale
       /\ rows' = [rows EXCEPT ![sec].scale = b.scale, ![sec].rebase = @ + 1]
  /\ UNCHANGED <<today, published, restated, logged, blocks>>

\* The rebase resolves the reviewed block and the blocks its rows agree with;
\* an append leaves the blocks to the process that decided it.
Settle(sec) ==
  /\ Open(sec)
  /\ logged' = [logged EXCEPT ![sec] = rows[sec]]
  /\ blocks' = IF Rebasing(sec)
                 THEN [blocks EXCEPT ![sec] = {b \in @ : b.scale # rows[sec].scale}]
                 ELSE blocks
  /\ UNCHANGED <<today, published, restated, rows>>

-----------------------------------------------------------------------------
(* Admission of a batch that a process has fetched. *)

Batch == [sec : Security, from : Session, upto : Session, until : Session,
          scale : Scale, committed : BOOLEAN]
NoBatch == [sec |-> "none"]

\* What the provider answers for the window from Overlap sessions before the
\* last stored one until today.
Answer(sec) ==
  [sec |-> sec,
   from |-> IF rows[sec].upto > Overlap THEN rows[sec].upto - Overlap ELSE 1,
   upto |-> published, until |-> today, scale |-> restated[sec], committed |-> FALSE]

\* Stored sessions of the request window the batch changes or does not hold.
Disputed(b) ==
  {s \in b.from..b.until :
     s <= rows[b.sec].upto /\ (s > b.upto \/ b.scale # rows[b.sec].scale)}
Appends(b) == b.upto > rows[b.sec].upto

\* Blocks an accepting batch revalidates: it holds all they affect, unchanged.
Covered(b) ==
  {k \in blocks[b.sec] : k.sessions \subseteq b.from..b.upto}

\* The overlap disagrees: the observation is kept, the rows are not touched.
BlockRevision(b) ==
  /\ ~Open(b.sec) /\ Disputed(b) # {}
  /\ blocks' = [blocks EXCEPT ![b.sec] =
                  @ \cup {[scale |-> b.scale, sessions |-> Disputed(b)]}]
  /\ UNCHANGED <<today, published, restated, rows, logged>>

\* The overlap agrees and nothing is new.
ConfirmBatch(b) ==
  /\ ~Open(b.sec) /\ Disputed(b) = {} /\ ~Appends(b)
  /\ blocks' = [blocks EXCEPT ![b.sec] = @ \ Covered(b)]
  /\ UNCHANGED <<today, published, restated, rows, logged>>

CommitAppend(b) ==
  /\ ~Open(b.sec) /\ Disputed(b) = {} /\ Appends(b)
  /\ rows' = [rows EXCEPT ![b.sec].upto = b.upto]
  /\ UNCHANGED <<today, published, restated, logged, blocks>>

\* The application of a committed batch; another process may have settled it.
FinishAppend(b) ==
  /\ IF logged[b.sec].upto < b.upto
       THEN /\ logged' = [logged EXCEPT ![b.sec] = rows[b.sec]]
            /\ blocks' = [blocks EXCEPT ![b.sec] = @ \ Covered(b)]
       ELSE UNCHANGED <<logged, blocks>>
  /\ UNCHANGED <<today, published, restated, rows>>
=============================================================================
