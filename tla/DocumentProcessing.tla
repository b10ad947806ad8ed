------------------------- MODULE DocumentProcessing -------------------------
(***************************************************************************)
(* Background processing of uploaded documents: processing.py, the routes  *)
(* of routers/invoices.py that start it or wait for it, and the sweep of   *)
(* main.py, against one PostgreSQL server.                                 *)
(*                                                                         *)
(* Three kinds of actors touch a row of table documents:                   *)
(*                                                                         *)
(*  - the event loop.  Asynchronous handlers and background tasks run on   *)
(*    it one at a time, and every database call they make is synchronous:  *)
(*    from one await to the next nothing else runs on the loop.  Variable  *)
(*    loop is the section being executed; tasks are suspended at an await; *)
(*  - worker threads, which run the synchronous handlers ("requests").     *)
(*    They lock the row of the document and end their transaction          *)
(*    themselves when they commit.  When they refuse (409, 404, 422) the   *)
(*    session stays open with its lock until the event loop has resumed    *)
(*    the request and closed it (get_db);                                  *)
(*  - the server, finishing a COMMIT whose client lost its connection.     *)
(*                                                                         *)
(* Money is counted in paid model calls (documents.parse_count); costs in  *)
(* dollars are charged by the same statements.                             *)
(***************************************************************************)
EXTENDS Integers, FiniteSets

CONSTANTS
  Docs,          \* the documents of one project, numbered by their id
  Invoices,      \* identities of invoice rows, never reused
  Tasks,         \* background tasks that may exist at a time
  Requests,      \* worker threads
  Kinds,         \* what the requests of this instance may ask for
  Mishaps,       \* what may go wrong in this instance
  Concurrency,   \* PROCESSING_CONCURRENCY
  Retries,       \* attempts of the error write
  MaxAttempts,   \* bound: processing attempts in a behaviour
  MaxFaults,     \* bound: database failures between two restarts
  MaxCrashes,    \* bound: crashes in a behaviour
  None           \* no document, no task, nobody

AllKinds ==
  {"edit", "verify", "unverify", "delete", "bulk", "delete_doc", "drop_project"}

\* A database call fails; the process dies; a task is cancelled, while the
\* rasterizer is at work or elsewhere; the model reports a malformed usage; the
\* server finishes a commit only after the next process has started.
AllMishaps ==
  {"db", "crash", "cancel", "cancel_raster", "odd_usage", "late_commit"}

\* Nobody holds the row; a transaction of the loop holds it; the server does,
\* finishing a commit whose client is gone.
Free     == "free"
LoopTx   == "loop"
ServerTx == "server"

ASSUME ConstantsAssumption ==
  /\ Docs \subseteq Nat
  /\ None \notin Docs \cup Tasks \cup Requests
  /\ {Free, LoopTx, ServerTx} \cap Requests = {}
  /\ Kinds \subseteq AllKinds
  /\ Mishaps \subseteq AllMishaps
  /\ Concurrency \in Nat \ {0}
  /\ Retries \in Nat \ {0}
  /\ MaxAttempts \in Nat
  /\ MaxFaults \in Nat
  /\ MaxCrashes \in Nat

VARIABLES
  up,            \* the application accepts traffic
  status,        \* documents.status; "absent" or "gone" without a row
  invs,          \* the invoices of each document
  verified,      \* the invoices with verified = TRUE
  fresh,         \* invoice identities not used yet
  charged,       \* documents.parse_count
  owed,          \* history: calls paid by the latest attempt, not charged yet
  lock,          \* who holds the row of a document
  doubt,         \* the commit whose outcome its client does not know
  loop,          \* the section the event loop is executing
  task,          \* background tasks
  req,           \* requests on worker threads
  attempts, faults, crashes   \* counters for the bounds

rows   == <<status, invs, verified, fresh, charged, owed>>
locks  == <<lock, doubt>>
counts == <<attempts, faults, crashes>>
vars   == <<up, rows, locks, loop, task, req, counts>>

-----------------------------------------------------------------------------
(* Types. *)

Statuses == {"absent", "pending", "processing", "parsed", "error", "gone"}
Busy     == {"pending", "processing"}
AtRest   == {"parsed", "error"}
Modes    == {"parse", "deskew"}

Row(d) == status[d] \notin {"absent", "gone"}

\* Where a task is suspended: waiting for a slot, for S3, for the paid detect
\* call, for the rasterizer, for S3 again, for the paid parse call; "onloop"
\* while the loop executes it.
Awaiting == {"queued", "fetch", "detect", "raster", "store", "llm"}
InSlot   == {"fetch", "detect", "raster", "store", "llm", "onloop"}

\* paid: model calls of the attempt that answered HTTP 200;
\* seen: those recorded in the accounting dictionary of process_document.
NoTask == [pc |-> "none", doc |-> None, mode |-> "parse", paid |-> 0, seen |-> 0]
TaskT  == [pc : {"none", "onloop"} \cup Awaiting, doc : Docs \cup {None},
           mode : Modes, paid : 0..2, seen : 0..1]

\* carry: paid calls travelling to the database with the result or the error.
LoopSteps == {"idle", "guard", "release", "lock", "swap", "errWrite"}
Idle  == [at |-> "idle", doc |-> None, task |-> None, mode |-> "parse",
          carry |-> 0, try |-> 0]
LoopT == [at : LoopSteps, doc : Docs \cup {None}, task : Tasks \cup {None},
          mode : Modes, carry : 0..2, try : 0..Retries]

NoDoubt == [to |-> "none", new |-> {}, charge |-> 0]
DoubtT  == [to : {"none", "processing", "parsed", "error"},
            new : SUBSET Invoices, charge : 0..2]

NoReq == [pc |-> "none", kind |-> "edit", ids |-> {}, todo |-> {}]
ReqT  == [pc : {"none", "locking", "deleting", "refused"}, kind : AllKinds,
          ids : SUBSET Invoices, todo : SUBSET Docs]

TypeOK ==
  /\ up \in BOOLEAN
  /\ status \in [Docs -> Statuses]
  /\ invs \in [Docs -> SUBSET Invoices]
  /\ verified \in SUBSET Invoices
  /\ fresh \in SUBSET Invoices
  /\ charged \in [Docs -> Nat]
  /\ owed \in [Docs -> Int]
  /\ lock \in [Docs -> Requests \cup {Free, LoopTx, ServerTx}]
  /\ doubt \in [Docs -> DoubtT]
  /\ loop \in LoopT
  /\ task \in [Tasks -> TaskT]
  /\ req \in [Requests -> ReqT]
  /\ attempts \in Nat /\ faults \in Nat /\ crashes \in Nat

Init ==
  /\ up = TRUE
  /\ status = [d \in Docs |-> "absent"]
  /\ invs = [d \in Docs |-> {}]
  /\ verified = {}
  /\ fresh = Invoices
  /\ charged = [d \in Docs |-> 0]
  /\ owed = [d \in Docs |-> 0]
  /\ lock = [d \in Docs |-> Free]
  /\ doubt = [d \in Docs |-> NoDoubt]
  /\ loop = Idle
  /\ task = [t \in Tasks |-> NoTask]
  /\ req = [r \in Requests |-> NoReq]
  /\ attempts = 0 /\ faults = 0 /\ crashes = 0

-----------------------------------------------------------------------------
(* Building blocks. *)

LoopIdle == up /\ loop.at = "idle"

\* A statement on the row of d waits for whoever has locked it; without a row
\* there is nothing to wait for.
Unblocked(d) == Row(d) => lock[d] = Free

\* Nobody has deleted one of these invoices in a transaction that is still open.
\* Only the deletion of a project keeps invoice rows locked and goes on to wait.
Unclaimed(S) == \A q \in Requests : req[q].pc = "deleting" => S \cap req[q].ids = {}

DbFails ==
  /\ "db" \in Mishaps
  /\ faults < MaxFaults
  /\ faults' = faults + 1
  /\ UNCHANGED <<attempts, crashes>>

\* A COMMIT of tx is lost on the way: either it never reached the server, or
\* the server is still working on it and keeps the row locked until it is done.
CommitLost(d, tx) ==
  \/ /\ lock' = [lock EXCEPT ![d] = IF @ = LoopTx THEN Free ELSE @]
     /\ UNCHANGED doubt
  \/ /\ Row(d) /\ lock[d] \in {Free, LoopTx}
     /\ lock' = [lock EXCEPT ![d] = ServerTx]
     /\ doubt' = [doubt EXCEPT ![d] = tx]

\* Task t goes to pc, with p paid calls of which s are recorded.
Move(t, pc, p, s) ==
  task' = [task EXCEPT ![t] = [pc |-> pc, doc |-> @.doc, mode |-> @.mode, paid |-> p, seen |-> s]]

\* The exception of task t reaches process_document, which at once starts the
\* conditional error write with the c calls it knows of.
ToErrWrite(t, c) ==
  loop' = [at |-> "errWrite", doc |-> task[t].doc, task |-> t,
           mode |-> task[t].mode, carry |-> c, try |-> 1]

\* Task t resumes on the idle loop and fails there.
FailOnLoop(t, c) ==
  /\ task' = [task EXCEPT ![t].pc = "onloop"]
  /\ ToErrWrite(t, c)
  /\ UNCHANGED <<up, rows, locks, req, counts>>

\* Task t moves on to its next await.
Suspend(t, at) ==
  /\ task' = [task EXCEPT ![t].pc = at]
  /\ UNCHANGED <<up, rows, locks, loop, req, counts>>

\* A model call answered HTTP 200.
Pay(d) ==
  /\ owed' = [owed EXCEPT ![d] = @ + 1]
  /\ UNCHANGED <<status, invs, verified, fresh, charged>>

\* The row is charged for c calls.
Charge(d, c) ==
  /\ charged' = [charged EXCEPT ![d] = @ + c]
  /\ owed' = [owed EXCEPT ![d] = @ - c]

\* The task of the section on the loop is over.
EndTask ==
  /\ loop' = Idle
  /\ task' = [task EXCEPT ![loop.task] = NoTask]

-----------------------------------------------------------------------------
(* Who waits for whom: LoopTx stands for the transaction of the loop.       *)

Lowest(S) == CHOOSE d \in S : \A e \in S : d <= e

\* Bug: rows are locked in the order in which a request names its invoices,
\* and people name them in different orders.
NextToLock_AsAsked(r) ==
  IF r = CHOOSE q \in Requests : TRUE
    THEN Lowest(req[r].todo)
    ELSE CHOOSE d \in req[r].todo : \A e \in req[r].todo : e <= d

\* Rows are locked in ascending order of id, each checked once it is locked.
NextToLock(r) == Lowest(req[r].todo)

\* The rows of req[r].ids that are still there under the lock.
Found(r) == req[r].ids \cap UNION {invs[d] : d \in Docs}

\* The next statement of a has to lock the row of document d.  An UPDATE whose
\* predicate does not match the committed row does not wait for it.
NeedsDoc(a, d) ==
  IF a = LoopTx
    THEN /\ d = loop.doc /\ Row(d)
         /\ \/ loop.at = "lock"
            \/ loop.at = "guard" /\ status[d] # "processing"
            \/ loop.at = "errWrite" /\ status[d] = "processing"
    ELSE /\ req[a].todo # {} /\ d = NextToLock(a) /\ Row(d)
         /\ \/ req[a].pc = "locking" /\ req[a].kind # "drop_project"
            \/ req[a].pc = "deleting"

\* The invoices the next statements of a write, with every document row that
\* guards them already locked; the deletion of a project starts with them.
Writes(a) ==
  IF a = LoopTx THEN IF loop.at = "swap" THEN invs[loop.doc] ELSE {}
  ELSE IF req[a].pc # "locking" THEN {}
  ELSE IF req[a].kind = "drop_project" THEN Found(a)
  ELSE IF req[a].todo # {} THEN {}
  ELSE CASE req[a].kind = "verify"     -> Found(a)
         [] req[a].kind = "unverify"   -> Found(a) \cap verified
         [] req[a].kind = "delete_doc" ->
              UNION {invs[d] : d \in {e \in Docs : lock[e] = a /\ invs[e] \cap verified = {}}}
         [] OTHER                      -> Found(a) \ verified

WaitsFor(a, b) ==
  \/ \E d \in Docs : NeedsDoc(a, d) /\ lock[d] = b
  \/ /\ b # a /\ b \in Requests
     /\ req[b].pc = "deleting" /\ Writes(a) \cap req[b].ids # {}

\* a is in a circle of transactions; PostgreSQL aborts one of them.
Deadlocked(a) ==
  \E S \in SUBSET (Requests \cup {LoopTx}) :
    /\ a \in S
    /\ \A x \in S : (\E y \in S : WaitsFor(x, y)) /\ (\E y \in S : WaitsFor(y, x))

-----------------------------------------------------------------------------
(* Asynchronous handlers: upload, reparse, deskew-reparse.  From its last   *)
(* await to the response each of them is one section of the loop.           *)

HasSpareTask == \E t \in Tasks : task[t].pc = "none"

EnterGuard(d, m) ==
  /\ LoopIdle
  /\ HasSpareTask /\ attempts < MaxAttempts
  /\ loop' = [at |-> "guard", doc |-> d, task |-> None, mode |-> m, carry |-> 0, try |-> 0]
  /\ attempts' = attempts + 1
  /\ UNCHANGED <<faults, crashes>>

\* create_document commits the row before the guard takes it.
UploadCreate(d) ==
  /\ status[d] = "absent"
  /\ EnterGuard(d, "parse")
  /\ status' = [status EXCEPT ![d] = "pending"]
  /\ UNCHANGED <<up, invs, verified, fresh, charged, owed, locks, task, req>>

\* The row is committed, the handler sees a failure and answers 500.
UploadCreateFails(d) ==
  /\ LoopIdle /\ status[d] = "absent"
  /\ DbFails
  /\ status' = [status EXCEPT ![d] = "pending"]
  /\ UNCHANGED <<up, invs, verified, fresh, charged, owed, locks, loop, task, req>>

\* The check for confirmed invoices is a plain read.
Reparse(d, m) ==
  /\ Row(d)
  /\ invs[d] \cap verified = {}
  /\ EnterGuard(d, m)
  /\ UNCHANGED <<up, rows, locks, task, req>>

\* Bug: the UPDATE of the guard without its predicate on the status.
GuardTakes_AnyStatus ==
  /\ up /\ loop.at = "guard"
  /\ Row(loop.doc) /\ lock[loop.doc] = Free
  /\ status' = [status EXCEPT ![loop.doc] = "processing"]
  /\ owed' = [owed EXCEPT ![loop.doc] = 0]
  /\ loop' = [loop EXCEPT !.at = "release"]
  /\ UNCHANGED <<up, invs, verified, fresh, charged, locks, task, req, counts>>

\* try_acquire_processing: UPDATE ... WHERE status != 'processing', commit.
GuardTakes ==
  /\ up /\ loop.at = "guard"
  /\ Row(loop.doc) /\ lock[loop.doc] = Free
  /\ status[loop.doc] # "processing"
  /\ status' = [status EXCEPT ![loop.doc] = "processing"]
  /\ owed' = [owed EXCEPT ![loop.doc] = 0]
  /\ loop' = [loop EXCEPT !.at = "release"]
  /\ UNCHANGED <<up, invs, verified, fresh, charged, locks, task, req, counts>>

\* A row the predicate does not match is not waited for.
GuardRefuses ==
  /\ up /\ loop.at = "guard"
  /\ ~Row(loop.doc) \/ status[loop.doc] = "processing"
  /\ loop' = Idle
  /\ UNCHANGED <<up, rows, locks, task, req, counts>>

GuardFails ==
  /\ up /\ loop.at = "guard"
  /\ DbFails
  /\ IF status[loop.doc] # "processing"
       THEN CommitLost(loop.doc, [to |-> "processing", new |-> invs[loop.doc], charge |-> 0])
       ELSE UNCHANGED locks
  /\ loop' = Idle
  /\ UNCHANGED <<up, rows, task, req>>

\* add_task, then the response is serialized from the committed row; the task
\* is started once the response has been sent.
ReleaseToTask ==
  /\ up /\ loop.at = "release"
  /\ Row(loop.doc)
  /\ \E t \in Tasks :
       /\ task[t].pc = "none"
       /\ task' = [task EXCEPT ![t] = [pc |-> "queued", doc |-> loop.doc, mode |-> loop.mode,
                                       paid |-> 0, seen |-> 0]]
  /\ loop' = Idle
  /\ UNCHANGED <<up, rows, locks, req, counts>>

\* The handler fails while it serializes: no response, hence no task.
ReleaseFails ==
  /\ up /\ loop.at = "release"
  /\ IF Row(loop.doc) THEN DbFails ELSE UNCHANGED counts
  /\ loop' = Idle
  /\ UNCHANGED <<up, rows, locks, task, req>>

-----------------------------------------------------------------------------
(* Phase A: a background task on its way from await to await.               *)

At(t, pc) == LoopIdle /\ task[t].pc = pc

\* The semaphore; then the row is read for its s3_key.
TakeSlot(t) ==
  /\ At(t, "queued")
  /\ Cardinality({u \in Tasks : task[u].pc \in InSlot}) < Concurrency
  /\ IF Row(task[t].doc) THEN Suspend(t, "fetch") ELSE FailOnLoop(t, 0)

\* Nothing has been paid when the download (or the read of the row) fails.
Fetch(t) ==
  /\ At(t, "fetch")
  /\ \/ Suspend(t, IF task[t].mode = "deskew" THEN "detect" ELSE "llm")
     \/ FailOnLoop(t, 0)

\* Detect answers with rotations, with zeros (nothing to rasterize, the
\* accounting is written at once), or with a broken envelope that was paid for.
DetectPaid(t) ==
  /\ At(t, "detect")
  /\ Pay(task[t].doc)
  /\ \/ /\ Move(t, "raster", 1, 0)
        /\ UNCHANGED loop
     \/ /\ Move(t, "store", 1, 1) \/ Move(t, "llm", 1, 1)
        /\ UNCHANGED loop
     \/ /\ Move(t, "onloop", 1, 0)
        /\ ToErrWrite(t, 1)
  /\ UNCHANGED <<up, locks, req, counts>>

DetectFails(t) == At(t, "detect") /\ FailOnLoop(t, 0)

\* The pages are turned in a thread; only then is the accounting written.
Raster(t) ==
  /\ At(t, "raster")
  /\ \/ /\ Move(t, "store", 1, 1)
        /\ UNCHANGED <<up, rows, locks, loop, req, counts>>
     \/ FailOnLoop(t, 1)

\* Backup of the original and overwrite, or download of the corrected file.
Store(t) ==
  /\ At(t, "store")
  /\ Suspend(t, "llm") \/ FailOnLoop(t, 1)

\* The parse call answers and the answer is good: the loop goes straight on
\* to phase B with the calls of the whole attempt.
LlmParsed(t) ==
  /\ At(t, "llm")
  /\ Pay(task[t].doc)
  /\ Move(t, "onloop", task[t].paid + 1, task[t].seen)
  /\ loop' = [at |-> "lock", doc |-> task[t].doc, task |-> t, mode |-> task[t].mode,
              carry |-> task[t].paid + 1, try |-> 0]
  /\ UNCHANGED <<up, locks, req, counts>>

\* Bug: the parse error carries its own call and not the detect call before it.
LlmRejected_OwnCallOnly(t) ==
  /\ At(t, "llm")
  /\ Pay(task[t].doc)
  /\ Move(t, "onloop", task[t].paid + 1, task[t].seen)
  /\ ToErrWrite(t, 1)
  /\ UNCHANGED <<up, locks, req, counts>>

\* The answer is paid for and useless: truncated, not JSON, totals differ, ...
LlmRejected(t) ==
  /\ At(t, "llm")
  /\ Pay(task[t].doc)
  /\ Move(t, "onloop", task[t].paid + 1, task[t].seen)
  /\ ToErrWrite(t, task[t].paid + 1)
  /\ UNCHANGED <<up, locks, req, counts>>

\* Bug: an attempt that got no answer is taken for an attempt that was free.
LlmFails_Free(t) == At(t, "llm") /\ FailOnLoop(t, 0)

\* No answer, or the file could not be prepared: only detect was paid.
LlmFails(t) == At(t, "llm") /\ FailOnLoop(t, task[t].paid)

\* usage.completion_tokens is compared with a number outside of every try:
\* anything but a number there leaves parse_pdf as an unclassified exception.
LlmOddUsage(t) ==
  /\ "odd_usage" \in Mishaps
  /\ At(t, "llm")
  /\ Pay(task[t].doc)
  /\ Move(t, "onloop", task[t].paid + 1, task[t].seen)
  /\ ToErrWrite(t, task[t].seen)
  /\ UNCHANGED <<up, locks, req, counts>>

\* Bug: "except Exception" lets a cancelled task go without the error write.
Cancel_LeavesRow(t) ==
  /\ \/ "cancel" \in Mishaps /\ task[t].pc \in Awaiting \ {"raster"}
     \/ "cancel_raster" \in Mishaps /\ task[t].pc = "raster"
  /\ LoopIdle
  /\ task' = [task EXCEPT ![t] = NoTask]
  /\ UNCHANGED <<up, rows, locks, loop, req, counts>>

\* CancelledError at an await: the accounting dictionary is all that is known.
Cancel(t) ==
  /\ \/ "cancel" \in Mishaps /\ task[t].pc \in Awaiting \ {"raster"}
     \/ "cancel_raster" \in Mishaps /\ task[t].pc = "raster"
  /\ LoopIdle
  /\ FailOnLoop(t, task[t].seen)

-----------------------------------------------------------------------------
(* Phase B: persist_parse_result, and the conditional error write.          *)

OnLoop(at) == up /\ loop.at = at

\* An error leaves phase B with c calls; whatever was written is rolled back.
ToErrWriteFromB(c) ==
  /\ ToErrWrite(loop.task, c)
  /\ UNCHANGED <<up, rows, task, req>>

\* Bug: phase B trusts the check the handler made before phase A.
LockRow_Unchecked ==
  /\ OnLoop("lock")
  /\ Row(loop.doc) /\ lock[loop.doc] = Free
  /\ lock' = [lock EXCEPT ![loop.doc] = LoopTx]
  /\ loop' = [loop EXCEPT !.at = "swap"]
  /\ UNCHANGED <<up, rows, doubt, task, req, counts>>

\* SELECT ... FOR UPDATE, then the second look at the confirmed invoices.
LockRow ==
  /\ OnLoop("lock")
  /\ Row(loop.doc) /\ lock[loop.doc] = Free
  /\ invs[loop.doc] \cap verified = {}
  /\ lock' = [lock EXCEPT ![loop.doc] = LoopTx]
  /\ loop' = [loop EXCEPT !.at = "swap"]
  /\ UNCHANGED <<up, rows, doubt, task, req, counts>>

\* The document is gone, or somebody confirmed an invoice during phase A.
LockRowRefuses ==
  /\ OnLoop("lock")
  /\ Unblocked(loop.doc)
  /\ ~Row(loop.doc) \/ invs[loop.doc] \cap verified # {}
  /\ ToErrWriteFromB(loop.carry)
  /\ UNCHANGED <<locks, counts>>

\* A database error in these two statements is outside of the try block that
\* attaches the cost: process_document knows of the accounting only.
LockRowFails ==
  /\ OnLoop("lock")
  /\ DbFails
  /\ ToErrWriteFromB(task[loop.task].seen)
  /\ UNCHANGED locks

Replacements == {S \in SUBSET fresh : S # {}}

\* One commit: old invoices out, new invoices in, status, money.
SwapCommits ==
  /\ OnLoop("swap") /\ Unclaimed(invs[loop.doc])
  /\ \E new \in Replacements :
       /\ invs' = [invs EXCEPT ![loop.doc] = new]
       /\ fresh' = fresh \ new
  /\ status' = [status EXCEPT ![loop.doc] = "parsed"]
  /\ Charge(loop.doc, loop.carry)
  /\ lock' = [lock EXCEPT ![loop.doc] = Free]
  /\ EndTask
  /\ UNCHANGED <<up, verified, doubt, req, counts>>

\* A statement before the commit fails; one that waits for the deletion of the
\* project fails as the victim of a deadlock, or with its connection.
SwapFails ==
  /\ OnLoop("swap")
  /\ IF Unclaimed(invs[loop.doc]) \/ Deadlocked(LoopTx) THEN UNCHANGED counts ELSE DbFails
  /\ lock' = [lock EXCEPT ![loop.doc] = Free]
  /\ ToErrWriteFromB(loop.carry)
  /\ UNCHANGED doubt

\* The connection is lost in the commit.
SwapInDoubt ==
  /\ OnLoop("swap") /\ Unclaimed(invs[loop.doc])
  /\ DbFails
  /\ \E new \in Replacements :
       /\ CommitLost(loop.doc, [to |-> "parsed", new |-> new, charge |-> loop.carry])
       /\ fresh' = fresh \ new
  /\ ToErrWrite(loop.task, loop.carry)
  /\ UNCHANGED <<up, status, invs, verified, charged, owed, task, req>>

\* Bug: the error write without its predicate on the status.
ErrWriteLands_AnyStatus ==
  /\ OnLoop("errWrite")
  /\ Row(loop.doc) /\ lock[loop.doc] = Free
  /\ status' = [status EXCEPT ![loop.doc] = "error"]
  /\ Charge(loop.doc, loop.carry)
  /\ EndTask
  /\ UNCHANGED <<up, invs, verified, fresh, locks, req, counts>>

\* UPDATE ... WHERE status = 'processing': once the row is free the predicate
\* is evaluated on its newest version.
ErrWriteLands ==
  /\ OnLoop("errWrite")
  /\ Row(loop.doc) /\ lock[loop.doc] = Free
  /\ status[loop.doc] = "processing"
  /\ status' = [status EXCEPT ![loop.doc] = "error"]
  /\ Charge(loop.doc, loop.carry)
  /\ EndTask
  /\ UNCHANGED <<up, invs, verified, fresh, locks, req, counts>>

\* rowcount 0: the swap has landed after all, an earlier try has, or the row
\* is gone.  Nothing is waited for.
ErrWriteSkips ==
  /\ OnLoop("errWrite")
  /\ status[loop.doc] # "processing"
  /\ EndTask
  /\ UNCHANGED <<up, rows, locks, req, counts>>

\* Bug: one try too many.
ErrWriteLost_OneMore ==
  /\ OnLoop("errWrite")
  /\ DbFails
  /\ IF status[loop.doc] = "processing"
       THEN CommitLost(loop.doc, [to |-> "error", new |-> invs[loop.doc], charge |-> loop.carry])
       ELSE UNCHANGED locks
  /\ IF loop.try <= Retries
       THEN loop' = [loop EXCEPT !.try = @ + 1] /\ UNCHANGED task
       ELSE EndTask
  /\ UNCHANGED <<up, rows, req>>

\* A lost connection is tried again, up to the limit; then the row is left
\* as it is.
ErrWriteLost ==
  /\ OnLoop("errWrite")
  /\ DbFails
  /\ IF status[loop.doc] = "processing"
       THEN CommitLost(loop.doc, [to |-> "error", new |-> invs[loop.doc], charge |-> loop.carry])
       ELSE UNCHANGED locks
  /\ IF loop.try < Retries
       THEN loop' = [loop EXCEPT !.try = @ + 1] /\ UNCHANGED task
       ELSE EndTask
  /\ UNCHANGED <<up, rows, req>>

\* Any other database error is raised out of the task.
ErrWriteRaises ==
  /\ OnLoop("errWrite")
  /\ DbFails
  /\ EndTask
  /\ UNCHANGED <<up, rows, locks, req>>

-----------------------------------------------------------------------------
(* The server finishes a commit whose client is gone.                       *)

ServerCommits(d) ==
  /\ doubt[d].to # "none"
  /\ status' = [status EXCEPT ![d] = doubt[d].to]
  /\ invs' = [invs EXCEPT ![d] = doubt[d].new]
  /\ IF doubt[d].to = "processing"
       THEN owed' = [owed EXCEPT ![d] = 0] /\ UNCHANGED charged
       ELSE Charge(d, doubt[d].charge)
  /\ doubt' = [doubt EXCEPT ![d] = NoDoubt]
  /\ lock' = [lock EXCEPT ![d] = Free]
  /\ UNCHANGED <<up, verified, fresh, loop, task, req, counts>>

ServerRollsBack(d) ==
  /\ doubt[d].to # "none"
  /\ doubt' = [doubt EXCEPT ![d] = NoDoubt]
  /\ lock' = [lock EXCEPT ![d] = Free]
  /\ UNCHANGED <<up, rows, loop, task, req, counts>>

-----------------------------------------------------------------------------
(* Requests on worker threads.                                              *)

Ask(r, kind, ids, docs) ==
  /\ up /\ req[r].pc = "none"
  /\ kind \in Kinds
  /\ req' = [req EXCEPT ![r] = [pc |-> "locking", kind |-> kind, ids |-> ids, todo |-> docs]]
  /\ UNCHANGED <<up, rows, locks, loop, task, counts>>

\* The document of an invoice is looked up without a lock.
AskInvoice(r, d, i) ==
  /\ i \in invs[d]
  /\ \E kind \in {"edit", "verify", "unverify", "delete"} : Ask(r, kind, {i}, {d})

AskBulk(r, ids) ==
  /\ ids # {} /\ ids \subseteq UNION {invs[d] : d \in Docs}
  /\ Ask(r, "bulk", ids, {d \in Docs : ids \cap invs[d] # {}})

AskDeleteDoc(r, d) == Row(d) /\ Ask(r, "delete_doc", {}, {d})

\* The object mapper loads the documents and invoices of the project first.
AskDropProject(r) ==
  Ask(r, "drop_project", UNION {invs[d] : d \in Docs}, {d \in Docs : Row(d)})

LockDoc(r) ==
  /\ up /\ req[r].pc = "locking" /\ req[r].kind # "drop_project"
  /\ req[r].todo # {}
  /\ LET d == NextToLock(r) IN
       IF Row(d)
         THEN /\ lock[d] = Free
              /\ lock' = [lock EXCEPT ![d] = r]
              /\ req' = [req EXCEPT ![r].todo = @ \ {d},
                                    ![r].pc = IF status[d] \in Busy THEN "refused" ELSE @]
         ELSE /\ req' = [req EXCEPT ![r].todo = @ \ {d}]
              /\ UNCHANGED lock
  /\ UNCHANGED <<up, rows, doubt, loop, task, counts>>

Locked(r, kind) ==
  up /\ req[r].pc = "locking" /\ req[r].kind = kind /\ req[r].todo = {}

Unlock(r) == lock' = [d \in Docs |-> IF lock[d] = r THEN Free ELSE lock[d]]

\* The end of a request that commits: its locks go with its transaction.
Done(r) ==
  /\ Unlock(r)
  /\ req' = [req EXCEPT ![r] = NoReq]
  /\ UNCHANGED <<up, fresh, charged, owed, doubt, loop, task, counts>>

CommitEdit(r) ==
  /\ Locked(r, "edit") /\ Unclaimed(Writes(r))
  /\ Found(r) # {} /\ Found(r) \cap verified = {}
  /\ Done(r)
  /\ UNCHANGED <<status, invs, verified>>

CommitVerify(r) ==
  /\ Locked(r, "verify") /\ Unclaimed(Writes(r)) /\ Found(r) # {}
  /\ verified' = verified \cup Found(r)
  /\ Done(r)
  /\ UNCHANGED <<status, invs>>

CommitUnverify(r) ==
  /\ Locked(r, "unverify") /\ Unclaimed(Writes(r)) /\ Found(r) # {}
  /\ verified' = verified \ Found(r)
  /\ Done(r)
  /\ UNCHANGED <<status, invs>>

CommitDelete(r) ==
  /\ Locked(r, "delete") /\ Unclaimed(Writes(r))
  /\ Found(r) # {} /\ Found(r) \cap verified = {}
  /\ invs' = [d \in Docs |-> invs[d] \ Found(r)]
  /\ Done(r)
  /\ UNCHANGED <<status, verified>>

\* Confirmed invoices are skipped.
CommitBulk(r) ==
  /\ Locked(r, "bulk") /\ Unclaimed(Writes(r))
  /\ invs' = [d \in Docs |-> invs[d] \ (Found(r) \ verified)]
  /\ Done(r)
  /\ UNCHANGED <<status, verified>>

CommitDeleteDoc(r) ==
  /\ Locked(r, "delete_doc") /\ Unclaimed(Writes(r))
  /\ \E d \in Docs :
       /\ lock[d] = r
       /\ invs[d] \cap verified = {}
       /\ status' = [status EXCEPT ![d] = "gone"]
       /\ invs' = [invs EXCEPT ![d] = {}]
  /\ Done(r)
  /\ UNCHANGED verified

\* HTTPException with the row still locked (404, 409, 422).
Refuse(r) ==
  /\ \/ Locked(r, "edit")
     \/ (Locked(r, "verify") \/ Locked(r, "unverify")) /\ Found(r) = {}
     \/ Locked(r, "delete") /\ (Found(r) = {} \/ Found(r) \cap verified # {})
     \/ /\ Locked(r, "delete_doc")
        /\ \A d \in Docs : lock[d] = r => invs[d] \cap verified # {}
  /\ req' = [req EXCEPT ![r].pc = "refused"]
  /\ UNCHANGED <<up, rows, locks, loop, task, counts>>

\* The exit of get_db is scheduled by the event loop.
CloseSession(r) ==
  /\ LoopIdle /\ req[r].pc = "refused"
  /\ Done(r)
  /\ UNCHANGED <<status, invs, verified>>

\* The deletion of a project writes the loaded rows in the order of the unit of
\* work: items and invoices, then the documents by id, then the project.  The
\* invoices are taken before their documents, against the order of everybody
\* else.  A row that has vanished since is passed over with a warning.
DropInvoices(r) ==
  /\ up /\ req[r].pc = "locking" /\ req[r].kind = "drop_project"
  /\ Unclaimed(Found(r))
  /\ \A d \in Docs : doubt[d].to = "parsed" => Found(r) \cap invs[d] = {}
  /\ req' = [req EXCEPT ![r].pc = "deleting", ![r].ids = Found(r)]
  /\ UNCHANGED <<up, rows, locks, loop, task, counts>>

\* One document; an invoice that was not loaded still refers to it and makes
\* the statement fail.
DropDoc(r) ==
  /\ up /\ req[r].pc = "deleting" /\ req[r].todo # {}
  /\ LET d == NextToLock(r) IN
       /\ Unblocked(d)
       /\ invs[d] \subseteq req[r].ids
       /\ lock' = IF Row(d) THEN [lock EXCEPT ![d] = r] ELSE lock
       /\ req' = [req EXCEPT ![r].todo = @ \ {d}]
  /\ UNCHANGED <<up, rows, doubt, loop, task, counts>>

\* The project row, unless a document that was not loaded refers to it.
CommitDrop(r) ==
  /\ up /\ req[r].pc = "deleting" /\ req[r].todo = {}
  /\ \A d \in Docs : Row(d) => lock[d] = r
  /\ status' = [d \in Docs |-> "gone"]
  /\ invs' = [d \in Docs |-> {}]
  /\ verified' = {}
  /\ Done(r)

\* A row that was not loaded (a document, an invoice; an item, a base price, a
\* member organisation) refers to one that is deleted: IntegrityError.
DropFails(r) ==
  /\ up /\ req[r].pc = "deleting"
  /\ req[r].todo # {} => Unblocked(NextToLock(r))
  /\ Done(r)
  /\ UNCHANGED <<status, invs, verified>>

\* PostgreSQL breaks a circle of waiting transactions: this one answers 500.
DeadlockVictim(r) ==
  /\ up /\ Deadlocked(r)
  /\ Done(r)
  /\ UNCHANGED <<status, invs, verified>>

-----------------------------------------------------------------------------
(* The process dies; the next one sweeps before it accepts traffic.         *)

\* What the loop was committing may have reached the server.
InFlight ==
  LET d == loop.doc IN
  IF loop.at = "guard" /\ status[d] # "processing"
    THEN {[to |-> "processing", new |-> invs[d], charge |-> 0]}
  ELSE IF loop.at = "swap" /\ Unclaimed(invs[d])
    THEN {[to |-> "parsed", new |-> S, charge |-> loop.carry] : S \in Replacements}
  ELSE IF loop.at = "errWrite" /\ status[d] = "processing"
    THEN {[to |-> "error", new |-> invs[d], charge |-> loop.carry]}
  ELSE {}

Crash ==
  /\ "crash" \in Mishaps
  /\ up /\ crashes < MaxCrashes
  /\ crashes' = crashes + 1
  /\ up' = FALSE
  /\ loop' = Idle
  /\ task' = [t \in Tasks |-> NoTask]
  /\ req' = [r \in Requests |-> NoReq]
  /\ LET kept == [d \in Docs |-> IF lock[d] = ServerTx THEN ServerTx ELSE Free] IN
     \/ /\ lock' = kept
        /\ UNCHANGED <<doubt, fresh>>
     \/ /\ loop.doc # None /\ Row(loop.doc)
        /\ lock[loop.doc] \in {Free, LoopTx}
        /\ \E tx \in InFlight :
             /\ lock' = [kept EXCEPT ![loop.doc] = ServerTx]
             /\ doubt' = [doubt EXCEPT ![loop.doc] = tx]
             /\ fresh' = fresh \ tx.new
  /\ UNCHANGED <<status, invs, verified, charged, owed, attempts, faults>>

\* Bug: the sweep forgets documents whose upload died before the guard.
Restart_PendingLeft ==
  /\ ~up
  /\ \A d \in Docs : status[d] \in Busy \/ "late_commit" \notin Mishaps => lock[d] = Free
  /\ status' = [d \in Docs |-> IF status[d] = "processing" THEN "error" ELSE status[d]]
  /\ up' = TRUE
  /\ faults' = 0
  /\ UNCHANGED <<invs, verified, fresh, charged, owed, locks, loop, task, req, attempts, crashes>>

\* _sweep_stuck_documents: one UPDATE, waiting for the rows it would change
\* when the server has them locked; traffic only afterwards.  A row at rest is
\* not waited for, even when a commit to "processing" is in doubt for it.
Restart ==
  /\ ~up
  /\ \A d \in Docs : status[d] \in Busy \/ "late_commit" \notin Mishaps => lock[d] = Free
  /\ status' = [d \in Docs |-> IF status[d] \in Busy THEN "error" ELSE status[d]]
  /\ up' = TRUE
  /\ faults' = 0
  /\ UNCHANGED <<invs, verified, fresh, charged, owed, locks, loop, task, req, attempts, crashes>>

-----------------------------------------------------------------------------
Section ==
  \/ GuardTakes \/ GuardRefuses \/ GuardFails \/ ReleaseToTask \/ ReleaseFails
  \/ LockRow \/ LockRowRefuses \/ LockRowFails
  \/ SwapCommits \/ SwapFails \/ SwapInDoubt
  \/ ErrWriteLands \/ ErrWriteSkips \/ ErrWriteLost \/ ErrWriteRaises

TaskStep(t) ==
  \/ TakeSlot(t) \/ Fetch(t) \/ DetectPaid(t) \/ DetectFails(t) \/ Raster(t) \/ Store(t)
  \/ LlmParsed(t) \/ LlmRejected(t) \/ LlmFails(t) \/ LlmOddUsage(t) \/ Cancel(t)

Arrival ==
  \/ \E d \in Docs : UploadCreate(d) \/ UploadCreateFails(d)
  \/ \E d \in Docs, m \in Modes : Reparse(d, m)
  \/ \E r \in Requests, d \in Docs : AskDeleteDoc(r, d) \/ \E i \in invs[d] : AskInvoice(r, d, i)
  \/ \E r \in Requests : AskDropProject(r) \/ \E ids \in SUBSET Invoices : AskBulk(r, ids)

RequestStep(r) ==
  \/ LockDoc(r) \/ Refuse(r) \/ CloseSession(r)
  \/ CommitEdit(r) \/ CommitVerify(r) \/ CommitUnverify(r) \/ CommitDelete(r)
  \/ CommitBulk(r) \/ CommitDeleteDoc(r)
  \/ DropInvoices(r) \/ DropDoc(r) \/ CommitDrop(r) \/ DropFails(r) \/ DeadlockVictim(r)

Next ==
  \/ Section
  \/ \E t \in Tasks : TaskStep(t)
  \/ Arrival
  \/ \E r \in Requests : RequestStep(r)
  \/ \E d \in Docs : ServerCommits(d) \/ ServerRollsBack(d)
  \/ Crash \/ Restart

Spec == Init /\ [][Next]_vars

(***************************************************************************)
(* The section on the loop goes on by itself.  Suspended tasks resume: S3, *)
(* the rasterizer and the model calls return or time out, the ready queue  *)
(* of asyncio and its semaphore are first-in first-out, so a step that is  *)
(* possible again and again is taken.  The same holds for whoever waits    *)
(* for a row lock, which PostgreSQL grants in the order of arrival: the    *)
(* section on the loop and the requests.  The server settles an in-doubt   *)
(* commit and a supervisor restarts a crashed process.  Nobody has to      *)
(* upload or to click.                                                     *)
(***************************************************************************)
Fairness ==
  /\ SF_vars(Section)
  /\ \A t \in Tasks : SF_vars(TaskStep(t))
  /\ \A r \in Requests : SF_vars(RequestStep(r))
  /\ \A d \in Docs : WF_vars(ServerCommits(d) \/ ServerRollsBack(d))
  /\ WF_vars(Restart)

FairSpec == Spec /\ Fairness
=============================================================================
