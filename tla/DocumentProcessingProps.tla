---------------------- MODULE DocumentProcessingProps ----------------------
(***************************************************************************)
(* What is asked of DocumentProcessing.                                    *)
(***************************************************************************)
EXTENDS DocumentProcessing

\* The task, or the section of the loop, that will settle document d.
Attempt(d) == {t \in Tasks : task[t].doc = d}
Handler(d) == loop.at \in {"guard", "release"} /\ loop.doc = d

\* A document is processed by at most one attempt at a time, and an attempt
\* suspended at an await still finds its row in "processing" (or no row at
\* all): neither a second click, nor the pending window of an upload, nor a
\* late commit of the server lets a second attempt in (guard S0-5,
\* try_acquire_processing).
OneAttempt ==
  \A d \in Docs :
    /\ Cardinality(Attempt(d)) <= 1
    /\ \A t \in Attempt(d) : task[t].pc # "onloop" => status[d] \in {"processing", "gone"}
    /\ Attempt(d) # {} => ~(loop.at = "release" /\ loop.doc = d)

\* The promise of DocumentLifecycle: every commit, in whatever order the loop,
\* the threads, the server and the restart take their steps, is one of its
\* steps.  In particular an attempt replaces all invoices or none, never one
\* that was confirmed, a document that became "parsed" in an in-doubt commit
\* is not turned into an error by the error write, and a call that was paid
\* for is charged at most once.
Life == INSTANCE DocumentLifecycle WITH
  status <- status, invs <- invs, verified <- verified, charged <- charged, owed <- owed
ImplementsLifecycle == Life!Spec

\* Whatever carries an attempt to its settlement carries exactly the calls it
\* paid for: "all error exits CARRY the cost accounting of outcome"
\* (processing.py:126).
ErrorCarriesCost ==
  loop.at \in {"lock", "swap", "errWrite"} => loop.carry = task[loop.task].paid

\* An attempt is never charged for more calls than it paid for: not by a swap
\* and an error write of the same attempt, not by two tries of the error write,
\* not by the server's late commit of either (the WHERE status = 'processing'
\* of write_processing_error, processing.py:272-279).
NeverOvercharged == \A d \in Docs : owed[d] >= 0

\* With a working database and no crash every paid call is on its row as soon
\* as no attempt is under way: exactly once (design 2.3).
ChargedExactlyOnce ==
  crashes = 0 /\ faults = 0 =>
    \A d \in Docs : Attempt(d) = {} /\ status[d] # "gone" => owed[d] = 0

\* As long as the database has answered since the last start, every document
\* that is not at rest has somebody who will bring it there: no row is
\* forgotten in "pending" or "processing".
NoZombie ==
  up /\ faults = 0 =>
    \A d \in Docs : status[d] \in Busy =>
      Attempt(d) # {} \/ Handler(d) \/ doubt[d].to # "none"

\* The loop waits, directly or behind other requests, for the lock of a request
\* that only the loop can release: nothing will ever run again in this process.
Wedged ==
  /\ up
  /\ \E S \in SUBSET (Requests \cup {LoopTx}) :
       /\ LoopTx \in S
       /\ \A a \in S :
            \/ a # LoopTx /\ req[a].pc = "refused"
            \/ ~Deadlocked(a) /\ \E b \in S : WaitsFor(a, b)

\* "A common order for all transactions excludes deadlock"
\* (routers/invoices.py:501-502): the loop never waits for a request that can
\* only go on once the loop does.
NoWedge == ~Wedged

\* Two requests never wait for each other's rows, unless one of them deletes the
\* project and the other does not: the document rows are locked by ascending id
\* in every transaction, deletions of projects included, and nobody but a
\* deletion of a project holds an invoice row while it waits (_load_document_locked
\* before every write, routers/invoices.py:500-507).  The new name of a supplier,
\* which goes to invoices of other documents, is left to SupplierRegistry.
NoLockCycle ==
  \A r, q \in Requests :
    WaitsFor(r, q) /\ WaitsFor(q, r) =>
      (req[r].kind = "drop_project" <=> req[q].kind # "drop_project")

\* Every document taken into processing comes to rest or disappears; the only
\* other ends are a wedged loop and a row that lost its attempt in a database
\* failure and waits for the next restart.
Forgotten(d) == faults > 0 /\ Attempt(d) = {} /\ ~Handler(d)
EveryAttemptEnds ==
  \A d \in Docs :
    status[d] \in Busy ~> status[d] \notin Busy \/ Wedged \/ (up /\ Forgotten(d))
=============================================================================
