--------------------------- MODULE ShadowIngestion ---------------------------
(***************************************************************************)
(* quantlab/transactional_market_data.py: one transaction decides, records *)
(* and stores a prepared batch.  commit_price_batch_shadow appends what    *)
(* the operational admission approves, commit_price_batch upserts what the *)
(* guard passes.  Both replay a receipt of the same operation.  Operations *)
(* are named by the caller, or allocated within the same transaction       *)
(* (quantlab/market_data_operation_identity.py).  BEGIN IMMEDIATE admits   *)
(* one writer at a time; any stage may fail, and the process may die.      *)
(***************************************************************************)
EXTENDS ShadowRules, FiniteSets

CONSTANTS Batches,      \* prepared batches that callers submit
          Name,         \* operation ids that callers choose
          NoOp,         \* no operation
          Legacy,       \* histories a clone starts from, without provenance
          MaxReceipts   \* bound on operations of a behaviour

ASSUME BatchesArePrepared == Batches \subseteq PreparedPriceBatch /\ Legacy \subseteq Rows

VARIABLES db,     \* the committed database
          draft,  \* the database as the open transaction sees it
          txn     \* the open transaction

shadowVars == <<db, draft, txn>>

\* Requests differ in their target session; a payload is the normalized rows.
\* The hash of request, payload and generation is the tuple.
Operation == Name \cup (Day \X Rows \X Nat)

ASSUME NoOpIsNone == NoOp \notin Operation

Outcome == [status : {"APPROVED", "REJECTED"}, decision : {"PASS", "BLOCK", "INSUFFICIENT_EVIDENCE"}]

Receipt == [op : Operation, batch : Batches, outcome : Outcome]

Observation == [op : Operation, request : Day, payload : Rows, generation : Nat,
                revisionOf : Operation \cup {NoOp}]

Database ==
    [rows : Rows,
     link : [Day -> Operation \cup {NoOp}],        \* market_price_provenance
     receipts : SUBSET Receipt,
     manifests : SUBSET [op : Operation, basis : Basis \cup {Unknown}],
     staged : SUBSET Operation,
     observations : SUBSET Observation]

Idle == [stage |-> "IDLE"]

ShadowInit ==
    /\ \E rows \in Legacy :
        db = [rows |-> rows, link |-> [d \in Day |-> NoOp], receipts |-> {},
              manifests |-> {}, staged |-> {}, observations |-> {}]
    /\ draft = db
    /\ txn = Idle

\* The verified basis of the manifest a day is linked to.
Known(base, d) ==
    IF \E m \in base.manifests : m.op = base.link[d]
    THEN (CHOOSE m \in base.manifests : m.op = base.link[d]).basis
    ELSE Unknown

KnownBasis(base) == [d \in Day |-> Known(base, d)]

\* An id of the caller, or a request for one: only the shadow writer takes one.
Begin(writer, b, id) ==
    /\ txn = Idle
    /\ Cardinality(db.receipts) < MaxReceipts
    /\ id = NoOp => writer = "SHADOW" /\ b.completed # "MISSING"
    /\ txn' = [stage |-> "BEGUN", writer |-> writer, batch |-> b, op |-> id]
    /\ UNCHANGED <<db, draft>>

Identified(op) == txn' = [txn EXCEPT !.stage = "IDENTIFIED", !.op = op]

Of(request) == {o \in draft.observations : o.request = request}

ReuseOperation ==
    \E o \in Of(txn.batch.target) :
        /\ o.payload = txn.batch.rows
        /\ Identified(o.op)
        /\ UNCHANGED <<db, draft>>

\* The generation after the highest, as a revision of it.
NextObservation(request, payload) ==
    LET first == [op |-> <<request, payload, 0>>, request |-> request,
                  payload |-> payload, generation |-> 0, revisionOf |-> NoOp]
    IN  {o \in {first} : Of(request) = {}}
        \cup {[op |-> <<request, payload, last.generation + 1>>, request |-> request,
               payload |-> payload, generation |-> last.generation + 1,
               revisionOf |-> last.op] :
              last \in {p \in Of(request) :
                            \A q \in Of(request) : q.generation <= p.generation}}

\* Mutant: the allocation commits on its own, before the batch is decided.
AllocatedAhead(o) ==
    /\ draft' = [draft EXCEPT !.observations = @ \cup {o}]
    /\ db' = draft'

Allocated(o) ==
    /\ draft' = [draft EXCEPT !.observations = @ \cup {o}]
    /\ UNCHANGED db

AllocateOperation ==
    /\ \A o \in Of(txn.batch.target) : o.payload # txn.batch.rows
    /\ \E o \in NextObservation(txn.batch.target, txn.batch.rows) :
        Identified(o.op) /\ Allocated(o)

Identify ==
    /\ txn.stage = "BEGUN"
    /\ \/ txn.op # NoOp /\ Identified(txn.op) /\ UNCHANGED <<db, draft>>
       \/ txn.op = NoOp /\ (ReuseOperation \/ AllocateOperation)

ReceiptsOf(op) == {r \in draft.receipts : r.op = op}

\* The operation was decided before: its receipt is the answer, whatever the
\* guard would say now.  Another batch under its id is a conflict: see Fail.
Replay ==
    /\ txn.stage = "IDENTIFIED"
    /\ \E r \in ReceiptsOf(txn.op) : r.batch = txn.batch
    /\ db' = draft
    /\ txn' = Idle
    /\ UNCHANGED draft

Rejected(decision, stages) ==
    draft' = [draft EXCEPT
        !.receipts = @ \cup {[op |-> txn.op, batch |-> txn.batch,
                              outcome |-> [status |-> "REJECTED", decision |-> decision]]},
        !.staged = IF stages THEN @ \cup {txn.op} ELSE @]

\* Mutant: rows that were only confirmed are linked to the operation as well.
ApprovedRelinking(decision, days) ==
    draft' = [draft EXCEPT
        !.receipts = @ \cup {[op |-> txn.op, batch |-> txn.batch,
                              outcome |-> [status |-> "APPROVED", decision |-> decision]]},
        !.manifests = @ \cup {[op |-> txn.op, basis |-> txn.batch.basis]},
        !.rows = [d \in Day |-> IF d \in days THEN txn.batch.rows[d] ELSE @[d]],
        !.link = [d \in Day |-> IF d \in Has(txn.batch.rows) THEN txn.op ELSE @[d]]]

\* Rows of "days" are stored and linked to the operation.
Approved(decision, days) ==
    draft' = [draft EXCEPT
        !.receipts = @ \cup {[op |-> txn.op, batch |-> txn.batch,
                              outcome |-> [status |-> "APPROVED", decision |-> decision]]},
        !.manifests = @ \cup {[op |-> txn.op, basis |-> txn.batch.basis]},
        !.rows = [d \in Day |-> IF d \in days THEN txn.batch.rows[d] ELSE @[d]],
        !.link = [d \in Day |-> IF d \in days THEN txn.op ELSE @[d]]]

\* commit_price_batch_shadow: genuinely new days only.
DecideShadow ==
    LET known == KnownBasis(draft)
        decision == GuardDecision(draft.rows, known, txn.batch)
        admission == OperationalAdmission(draft.rows, known, txn.batch)
    IN  \/ /\ admission \in WriteApproved
           /\ Approved(decision, GenuinelyNew(draft.rows, txn.batch))
        \/ /\ admission \notin WriteApproved
           /\ Rejected(decision, admission \in RequiresStaging)

\* Mutant: the guard alone decides, an attributed revision is written.
DecideByGuardAlone ==
    LET decision == GuardDecision(draft.rows, KnownBasis(draft), txn.batch)
    IN  \/ decision # "PASS" /\ Rejected(decision, FALSE)
        \/ decision = "PASS" /\ Approved(decision, Has(txn.batch.rows))

\* commit_price_batch: a detected revision rejects the batch even when its
\* attribution lets the guard pass; what passes is upserted and linked whole.
DecideGuarded ==
    LET decision == GuardDecision(draft.rows, KnownBasis(draft), txn.batch)
    IN  \/ /\ Revised(draft.rows, txn.batch) # {}
           /\ Rejected(decision, TRUE)
        \/ /\ Revised(draft.rows, txn.batch) = {} /\ decision # "PASS"
           /\ Rejected(decision, FALSE)
        \/ /\ Revised(draft.rows, txn.batch) = {} /\ decision = "PASS"
           /\ Approved(decision, Has(txn.batch.rows))

DecideBatch ==
    /\ txn.stage = "IDENTIFIED"
    /\ ReceiptsOf(txn.op) = {}
    /\ \/ txn.writer = "SHADOW" /\ DecideShadow
       \/ txn.writer = "GUARDED" /\ DecideGuarded
    /\ txn' = [txn EXCEPT !.stage = "DECIDED"]
    /\ UNCHANGED db

Commit ==
    /\ txn.stage = "DECIDED"
    /\ db' = draft
    /\ txn' = Idle
    /\ UNCHANGED draft

\* An exception at any stage, a conflicting fingerprint or a crash rolls back.
Fail ==
    /\ txn # Idle
    /\ draft' = db
    /\ txn' = Idle
    /\ UNCHANGED db

ShadowNext ==
    \/ \E writer \in {"SHADOW", "GUARDED"}, b \in Batches, id \in Name \cup {NoOp} :
            Begin(writer, b, id)
    \/ Identify \/ Replay \/ DecideBatch \/ Commit \/ Fail

ShadowSpec == ShadowInit /\ [][ShadowNext]_shadowVars
=============================================================================
