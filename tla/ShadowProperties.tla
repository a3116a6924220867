-------------------------- MODULE ShadowProperties --------------------------
(***************************************************************************)
(* What the transactional market-data path promises of its database.       *)
(***************************************************************************)
EXTENDS ShadowIngestion

\* The committed history only grows at its end: no call of any kind, order or
\* failure rewrites or removes a stored row, or fills a hole.
HistoryGrowsAtEnd ==
    [][\A d \in Day : db'.rows[d] # db.rows[d] =>
            db.rows[d] = Absent /\ \A e \in Has(db.rows) : e < d]_shadowVars

\* Receipts and history agree: an approved batch is stored row for row, also
\* the rows it only confirmed, and the provenance of a day names an approved
\* operation with a manifest whose batch holds that day.
ReceiptsDescribeHistory ==
    /\ \A r \in db.receipts : r.outcome.status = "APPROVED" =>
            \A d \in Has(r.batch.rows) : db.rows[d] = r.batch.rows[d]
    /\ \A d \in Day : db.link[d] # NoOp =>
            \E r \in db.receipts :
                /\ r.op = db.link[d] /\ r.outcome.status = "APPROVED"
                /\ d \in Has(r.batch.rows)
                /\ [op |-> r.op, basis |-> r.batch.basis] \in db.manifests

\* Wherever the guard passed, its batch and every day it anchors on or adds
\* keep one verified basis: later appends and relinks do not undo it.
PassKeepsOneBasis ==
    \A r \in db.receipts :
        r.outcome.status = "APPROVED" /\ r.outcome.decision = "PASS" =>
            \A d \in Has(r.batch.rows) : Known(db, d) = r.batch.basis

\* The observations of a request form one chain without gaps or forks, each
\* with the receipt of the transaction that allocated it: a rollback leaves no
\* phantom generation.
GenerationsFormOneChain ==
    \A o \in db.observations :
        /\ \E r \in db.receipts : r.op = o.op /\ r.batch.rows = o.payload
        /\ o.generation = 0 <=> o.revisionOf = NoOp
        /\ o.generation > 0 =>
            \E p \in db.observations :
                /\ p.request = o.request /\ p.op = o.revisionOf
                /\ p.generation = o.generation - 1
        /\ \A p \in db.observations :
            p.request = o.request /\ (p.generation = o.generation \/ p.payload = o.payload)
                => p = o
=============================================================================
