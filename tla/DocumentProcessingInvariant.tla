-------------------- MODULE DocumentProcessingInvariant --------------------
(***************************************************************************)
(* The inductive invariant of DocumentProcessing, in named parts.          *)
(***************************************************************************)
EXTENDS DocumentProcessingProps

WithTask == {"lock", "swap", "errWrite"}

\* The section on the loop and the tasks agree: a task is "onloop" exactly
\* while a section runs on its behalf, and both work on the same document.
LoopInv ==
  /\ loop.at # "idle" => up /\ loop.doc \in Docs
  /\ loop.at \in WithTask =>
       /\ loop.task \in Tasks
       /\ task[loop.task].pc = "onloop"
       /\ task[loop.task].doc = loop.doc
  /\ \A t \in Tasks : task[t].pc = "onloop" => loop.at \in WithTask /\ loop.task = t

TaskInv ==
  \A t \in Tasks :
    /\ task[t].pc = "none" <=> task[t].doc = None
    /\ task[t].pc # "none" => up

\* The server owns a row exactly while one of its commits is in doubt.
LockInv ==
  \A d \in Docs :
    /\ lock[d] = ServerTx <=> doubt[d].to # "none"
    /\ doubt[d].to = "none" => doubt[d].charge = 0

\* A document has one attempt.  While the attempt waits at an await its row is
\* in "processing" and nothing is in doubt; that still holds until phase B
\* has sent its commit.
Settling(d) == d = loop.doc /\ loop.at \in {"release", "lock", "swap"}
AttemptInv ==
  /\ \A t, u \in Tasks : task[t].pc # "none" /\ task[t].doc = task[u].doc => t = u
  /\ \A t \in Tasks : task[t].pc \in Awaiting =>
       /\ status[task[t].doc] \in {"processing", "gone"}
       /\ doubt[task[t].doc].to = "none"
  /\ \A d \in Docs : Settling(d) =>
       /\ status[d] \in {"processing", "gone"}
       /\ doubt[d].to = "none"
  /\ \A t \in Tasks : loop.at = "release" => task[t].doc # loop.doc
  /\ \A t \in Tasks : task[t].pc # "none" =>
       /\ status[task[t].doc] \notin {"absent", "pending"}
       /\ doubt[task[t].doc].to # "processing"

\* What an attempt can still charge is covered by what it has paid.
PaidInv ==
  \A t \in Tasks : task[t].pc \in Awaiting =>
    /\ task[t].paid <= 1
    /\ task[t].seen <= task[t].paid
    /\ task[t].paid <= owed[task[t].doc]
    /\ task[t].pc \in {"raster", "store"} => task[t].paid = 1
CarryInv ==
  /\ loop.at \in {"lock", "swap"} =>
       loop.carry <= owed[loop.doc] /\ task[loop.task].seen <= loop.carry
  /\ loop.at = "errWrite" /\ status[loop.doc] = "processing" =>
       loop.carry <= owed[loop.doc]
  /\ \A d \in Docs : doubt[d].charge <= owed[d]

Inv ==
  /\ TypeOK /\ LoopInv /\ TaskInv /\ LockInv /\ AttemptInv /\ PaidInv /\ CarryInv
  /\ NeverOvercharged

-----------------------------------------------------------------------------
(* Why every commit is a step of DocumentLifecycle.                         *)

\* An invoice belongs to one document, or is still to be drawn.
InvoiceInv ==
  /\ \A d, e \in Docs : d # e => invs[d] \cap invs[e] = {}
  /\ \A d \in Docs : fresh \cap invs[d] = {}
  /\ \A d \in Docs : ~Row(d) => invs[d] = {} /\ doubt[d].to = "none"

\* Whatever the server may still commit fits the row it has locked.
DoubtInv ==
  \A d \in Docs :
    /\ doubt[d].to = "processing" =>
         status[d] \in {"pending"} \cup AtRest /\ doubt[d].new = invs[d]
    /\ doubt[d].to = "error" => status[d] = "processing" /\ doubt[d].new = invs[d]
    /\ doubt[d].to = "parsed" =>
         /\ status[d] = "processing" /\ invs[d] \cap verified = {}
         /\ doubt[d].new # {} /\ doubt[d].new \cap fresh = {}
         /\ \A e \in Docs :
              /\ doubt[d].new \cap invs[e] = {}
              /\ e # d /\ doubt[e].to = "parsed" => doubt[d].new \cap doubt[e].new = {}

\* Between its lock and its commit phase B owns the row, and nobody confirms.
SwapInv ==
  loop.at = "swap" =>
    /\ lock[loop.doc] = LoopTx /\ status[loop.doc] = "processing"
    /\ invs[loop.doc] \cap verified = {}

\* A request has locked, or has still to lock, every document that holds one of
\* the invoices it was asked about; those it has locked are at rest.
RequestInv ==
  \A r \in Requests :
    /\ \A d \in Docs : lock[d] = r =>
         req[r].pc # "none" /\ (req[r].pc = "locking" => status[d] \in AtRest)
    /\ req[r].pc = "locking" /\ req[r].kind # "drop_project" =>
         /\ req[r].ids \cap fresh = {}
         /\ req[r].kind \in {"edit", "verify", "unverify", "delete"} => \E i \in Invoices : req[r].ids = {i}
         /\ \A d \in Docs :
              /\ doubt[d].to = "parsed" => req[r].ids \cap doubt[d].new = {}
              /\ req[r].ids \cap invs[d] # {} => d \in req[r].todo \/ lock[d] = r

OwnerInv == InvoiceInv /\ DoubtInv /\ SwapInv /\ RequestInv

-----------------------------------------------------------------------------
(* Who will settle a row, with which money, and who waits for whom.         *)

\* While the database has answered since the start, a busy document has the
\* section or the task that will settle it, and nothing is in doubt.
SettlerInv ==
  up /\ faults = 0 =>
    \A d \in Docs :
      /\ doubt[d].to = "none"
      /\ status[d] = "processing" => Attempt(d) # {} \/ (loop.at = "release" /\ loop.doc = d)
      /\ status[d] = "pending" => loop.at = "guard" /\ loop.doc = d

\* While the database has answered, the accounting dictionary has what was paid,
\* except while the pages are turned.
AccountingInv ==
  faults = 0 =>
    \A t \in Tasks :
      /\ task[t].pc \in {"queued", "fetch", "detect"} => task[t].paid = 0
      /\ task[t].pc \in Awaiting \ {"raster"} => task[t].seen = task[t].paid
      /\ task[t].pc = "onloop" => loop.carry = task[t].paid

\* Before any failure the attempt of a document owes what it has paid, and a
\* document without one owes nothing.
BalanceInv ==
  /\ ~up => crashes > 0
  /\ crashes = 0 /\ faults = 0 =>
       /\ \A t \in Tasks : task[t].pc # "none" =>
            /\ owed[task[t].doc] = task[t].paid
            /\ status[task[t].doc] \in {"processing", "gone"}
       /\ \A d \in Docs :
            /\ doubt[d].to = "none"
            /\ Attempt(d) = {} /\ status[d] # "gone" => owed[d] = 0

\* A request holds only rows below those it has still to lock.
OrderInv ==
  \A r \in Requests, d \in Docs :
    lock[d] = r => req[r].pc # "none" /\ \A e \in req[r].todo : d < e

\* A deletion of a project locks documents only after its invoices, and nothing
\* else deletes rows while it waits.
DropInv ==
  \A r \in Requests :
    /\ req[r].pc = "deleting" => req[r].kind = "drop_project"
    /\ \A d \in Docs : lock[d] = r /\ req[r].kind = "drop_project" => req[r].pc = "deleting"
=============================================================================
