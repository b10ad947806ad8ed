------------------------- MODULE DocumentLifecycle -------------------------
(***************************************************************************)
(* What document processing promises to a project, without the event loop, *)
(* the row locks, the sessions and the retries that keep the promise.      *)
(*                                                                         *)
(* A document is uploaded, processed any number of times and edited by     *)
(* people in between.  An attempt ends in one step that moves the status,  *)
(* replaces the invoices (or leaves every one of them alone) and settles   *)
(* the money: the paid model calls of the attempt are added to the row at  *)
(* most once.                                                              *)
(***************************************************************************)
EXTENDS Integers

CONSTANTS Docs,       \* the documents of one project
          Invoices    \* identities of invoice rows (never reused)

VARIABLES status,     \* documents.status, or "absent" / "gone" without a row
          invs,       \* the invoice rows of each document
          verified,   \* the invoices a person has confirmed
          charged,    \* documents.parse_count
          owed        \* paid model calls of the latest attempt, not charged yet

vars == <<status, invs, verified, charged, owed>>

Statuses == {"absent", "pending", "processing", "parsed", "error", "gone"}
Busy     == {"pending", "processing"}
AtRest   == {"parsed", "error"}

TypeOK ==
  /\ status \in [Docs -> Statuses]
  /\ invs \in [Docs -> SUBSET Invoices]
  /\ verified \in SUBSET Invoices
  /\ charged \in [Docs -> Nat]
  /\ owed \in [Docs -> Int]

Init ==
  /\ status = [d \in Docs |-> "absent"]
  /\ invs = [d \in Docs |-> {}]
  /\ verified = {}
  /\ charged = [d \in Docs |-> 0]
  /\ owed = [d \in Docs |-> 0]

-----------------------------------------------------------------------------
Create(d) ==
  /\ status[d] = "absent"
  /\ status' = [status EXCEPT ![d] = "pending"]
  /\ UNCHANGED <<invs, verified, charged, owed>>

\* Nobody can acquire a document twice; what the attempt before left unpaid is
\* forgotten.
Acquire(d) ==
  /\ status[d] \in {"pending"} \cup AtRest
  /\ status' = [status EXCEPT ![d] = "processing"]
  /\ owed' = [owed EXCEPT ![d] = 0]
  /\ UNCHANGED <<invs, verified, charged>>

\* A document that was dropped with its project may still be paid for.
Pay(d) ==
  /\ status[d] \in {"processing", "gone"}
  /\ owed' = [owed EXCEPT ![d] = @ + 1]
  /\ UNCHANGED <<status, invs, verified, charged>>

\* c of the calls owed are charged.
Settle(d, c) ==
  /\ charged' = [charged EXCEPT ![d] = @ + c]
  /\ owed' = [owed EXCEPT ![d] = @ - c]

\* All new invoices replace all old ones, none of which anybody had confirmed.
Parse(d, new, c) ==
  /\ status[d] = "processing"
  /\ invs[d] \cap verified = {}
  /\ new # {}
  /\ \A e \in Docs : new \cap invs[e] = {}
  /\ status' = [status EXCEPT ![d] = "parsed"]
  /\ invs' = [invs EXCEPT ![d] = new]
  /\ Settle(d, c)
  /\ UNCHANGED verified

Fail(d, c) ==
  /\ status[d] = "processing"
  /\ status' = [status EXCEPT ![d] = "error"]
  /\ Settle(d, c)
  /\ UNCHANGED <<invs, verified>>

\* A restart fails everything that was under way and charges nothing.
Sweep ==
  /\ status' = [d \in Docs |-> IF status[d] \in Busy THEN "error" ELSE status[d]]
  /\ UNCHANGED <<invs, verified, charged, owed>>

-----------------------------------------------------------------------------
\* People confirm, release and delete invoices of documents at rest only.
Confirm(d, i) ==
  /\ status[d] \in AtRest
  /\ i \in invs[d]
  /\ verified' = verified \cup {i}
  /\ UNCHANGED <<status, invs, charged, owed>>

Release(d, i) ==
  /\ status[d] \in AtRest
  /\ i \in invs[d]
  /\ verified' = verified \ {i}
  /\ UNCHANGED <<status, invs, charged, owed>>

Remove(S) ==
  /\ S \cap verified = {}
  /\ \A d \in Docs : S \cap invs[d] # {} => status[d] \in AtRest
  /\ invs' = [d \in Docs |-> invs[d] \ S]
  /\ UNCHANGED <<status, verified, charged, owed>>

Delete(d) ==
  /\ status[d] \in AtRest
  /\ invs[d] \cap verified = {}
  /\ status' = [status EXCEPT ![d] = "gone"]
  /\ invs' = [invs EXCEPT ![d] = {}]
  /\ UNCHANGED <<verified, charged, owed>>

\* The whole project goes, whatever its documents are doing.
DropProject ==
  /\ status' = [d \in Docs |-> "gone"]
  /\ invs' = [d \in Docs |-> {}]
  /\ verified' = {}
  /\ UNCHANGED <<charged, owed>>

-----------------------------------------------------------------------------
Next ==
  \/ \E d \in Docs : Create(d) \/ Acquire(d) \/ Pay(d) \/ Delete(d)
  \/ \E d \in Docs : \E c \in 0..owed[d] :
       Fail(d, c) \/ \E S \in SUBSET Invoices : Parse(d, S, c)
  \/ \E d \in Docs, i \in Invoices : Confirm(d, i) \/ Release(d, i)
  \/ \E S \in SUBSET Invoices : Remove(S)
  \/ Sweep
  \/ DropProject

Spec == Init /\ [][Next]_vars

-----------------------------------------------------------------------------
\* A confirmed invoice is removed only after somebody has taken the
\* confirmation back, or with its whole project (the check of phase B under the
\* row lock, the 409 of the deletions).
ConfirmedSurvives ==
  [][\A d \in Docs :
       (invs[d] \cap verified) \ invs'[d] # {} => \A e \in Docs : status'[e] = "gone"]_vars

\* A document that is under way keeps its invoices and its row until its own
\* settlement, a restart or the deletion of its project.
BusyKept ==
  [][\A d \in Docs :
       status[d] \in Busy /\ (status'[d] = "gone" \/ invs'[d] # invs[d])
         => status'[d] = "parsed" \/ \A e \in Docs : status'[e] = "gone"]_vars
=============================================================================
