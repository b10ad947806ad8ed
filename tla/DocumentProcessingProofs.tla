---------------------- MODULE DocumentProcessingProofs ----------------------
(***************************************************************************)
(* The proofs about DocumentProcessing.  First the machine itself: the     *)
(* types, then, one lemma per group of actions, that every step preserves  *)
(* Inv, and what follows from it.  The frame lemmas say what a group of    *)
(* actions leaves alone, so that the lemma about the group has to look     *)
(* only at what it changes.                                                *)
(*                                                                         *)
(* Then what comes out of it for a user, each part with an invariant that  *)
(* stands on Inv: no two requests wait for each other, no document is      *)
(* forgotten, every paid call is charged, and the promise of               *)
(* DocumentLifecycle is kept.                                              *)
(***************************************************************************)
EXTENDS DocumentProcessingInvariant, FiniteSetTheorems, WellFoundedInduction, TLAPS

\* An empty database and an idle application are well typed.
LEMMA TypeInit == Init => TypeOK
BY ConstantsAssumption
   DEF Init, TypeOK, Statuses, DoubtT, NoDoubt, LoopT, Idle, LoopSteps, TaskT, NoTask,
       Modes, Awaiting, ReqT, NoReq, AllKinds

\* No step of a worker thread breaks a type.
LEMMA TypeRequest ==
  ASSUME TypeOK, NEW r \in Requests, RequestStep(r)
  PROVE  TypeOK'
<1>1. CASE LockDoc(r)
  BY <1>1 DEF LockDoc, TypeOK, rows, counts, ReqT
<1>2. CASE Refuse(r)
  BY <1>2 DEF Refuse, TypeOK, rows, locks, counts, ReqT
<1>3. CASE CloseSession(r)
  BY <1>3 DEF CloseSession, Done, Unlock, NoReq, TypeOK, counts, ReqT, AllKinds
<1>4. CASE CommitEdit(r)
  BY <1>4 DEF CommitEdit, Done, Unlock, NoReq, TypeOK, counts, ReqT, AllKinds
<1>5. CASE CommitVerify(r)
  BY <1>5 DEF CommitVerify, Done, Unlock, NoReq, TypeOK, counts, ReqT, AllKinds, Found
<1>6. CASE CommitUnverify(r)
  BY <1>6 DEF CommitUnverify, Done, Unlock, NoReq, TypeOK, counts, ReqT, AllKinds, Found
<1>7. CASE CommitDelete(r)
  BY <1>7 DEF CommitDelete, Done, Unlock, NoReq, TypeOK, counts, ReqT, AllKinds, Found
<1>8. CASE CommitBulk(r)
  BY <1>8 DEF CommitBulk, Done, Unlock, NoReq, TypeOK, counts, ReqT, AllKinds, Found
<1>9. CASE CommitDeleteDoc(r)
  BY <1>9 DEF CommitDeleteDoc, Done, Unlock, NoReq, TypeOK, counts, ReqT, AllKinds, Statuses
<1>10. CASE DropInvoices(r)
  BY <1>10 DEF DropInvoices, TypeOK, rows, locks, counts, ReqT, Found
<1>11. CASE DropDoc(r)
  BY <1>11 DEF DropDoc, TypeOK, rows, counts, ReqT
<1>12. CASE CommitDrop(r)
  BY <1>12 DEF CommitDrop, Done, Unlock, NoReq, TypeOK, counts, ReqT, AllKinds, Statuses
<1>13. CASE DropFails(r) \/ DeadlockVictim(r)
  BY <1>13 DEF DropFails, DeadlockVictim, Done, Unlock, NoReq, TypeOK, counts, ReqT, AllKinds
<1> QED
  BY <1>1, <1>2, <1>3, <1>4, <1>5, <1>6, <1>7, <1>8, <1>9, <1>10, <1>11, <1>12, <1>13
     DEF RequestStep

\* No step of a suspended background task breaks a type.
LEMMA TypeTask ==
  ASSUME Inv, NEW t \in Tasks, TaskStep(t)
  PROVE  TypeOK'
<1>t. /\ TypeOK
      /\ task[t] \in TaskT
      /\ Retries \in Nat \ {0}
      /\ task[t].pc = "llm" => task[t].paid \in 0..1
  BY ConstantsAssumption DEF Inv, TypeOK, PaidInv, TaskT, Awaiting
<1>a. ASSUME NEW at \in Awaiting, Suspend(t, at)
      PROVE  TypeOK'
  BY <1>t, <1>a DEF Suspend, TypeOK, TaskT, rows, locks, counts
<1>b. ASSUME NEW c \in 0..2, ToErrWrite(t, c)
      PROVE  loop' \in LoopT
  BY <1>t, <1>b DEF ToErrWrite, LoopT, LoopSteps, TaskT
<1>c. ASSUME NEW c \in 0..2, FailOnLoop(t, c)
      PROVE  TypeOK'
  BY <1>t, <1>b, <1>c DEF FailOnLoop, TypeOK, TaskT, rows, locks, counts
<1>d. ASSUME NEW d \in Docs, Pay(d)
      PROVE  owed' \in [Docs -> Int]
  BY <1>t, <1>d DEF Pay, TypeOK
<1>e. ASSUME NEW pc \in {"onloop"} \cup Awaiting, NEW p \in 0..2, NEW s \in 0..1, Move(t, pc, p, s)
      PROVE  task' \in [Tasks -> TaskT]
  BY <1>t, <1>e DEF Move, TypeOK, TaskT
<1>f. /\ "queued" \in Awaiting /\ "fetch" \in Awaiting /\ "detect" \in Awaiting
      /\ "raster" \in Awaiting /\ "store" \in Awaiting /\ "llm" \in Awaiting
      /\ task[t].pc \in Awaiting => task[t].doc \in Docs
      /\ task[t].paid \in 0..2 /\ task[t].seen \in 0..1
  BY <1>t DEF Inv, TaskInv, TaskT, Awaiting
<1>1. CASE TakeSlot(t)
  BY <1>1, <1>a, <1>c, <1>f DEF TakeSlot
<1>2. CASE Fetch(t)
  BY <1>2, <1>a, <1>c, <1>f DEF Fetch
<1>3. CASE DetectPaid(t)
  <2>1. owed' \in [Docs -> Int]
    BY <1>3, <1>d, <1>f DEF DetectPaid, At
  <2>2. task' \in [Tasks -> TaskT]
    BY <1>3, <1>e, <1>f DEF DetectPaid
  <2>3. loop' \in LoopT
    BY <1>3, <1>b, <1>t DEF DetectPaid, TypeOK
  <2> QED
    BY <1>3, <1>t, <2>1, <2>2, <2>3 DEF DetectPaid, Pay, TypeOK, locks, counts
<1>4. CASE DetectFails(t)
  BY <1>4, <1>c DEF DetectFails
<1>5. CASE Raster(t)
  <2>1. CASE FailOnLoop(t, 1)
    BY <2>1, <1>c
  <2>2. CASE Move(t, "store", 1, 1) /\ UNCHANGED <<up, rows, locks, loop, req, counts>>
    BY <2>2, <1>e, <1>f, <1>t DEF TypeOK, rows, locks, counts
  <2> QED
    BY <1>5, <2>1, <2>2 DEF Raster
<1>6. CASE Store(t)
  BY <1>6, <1>a, <1>c, <1>f DEF Store
<1>7. CASE LlmParsed(t) \/ LlmRejected(t) \/ LlmOddUsage(t)
  <2>1. owed' \in [Docs -> Int]
    BY <1>7, <1>d, <1>f DEF LlmParsed, LlmRejected, LlmOddUsage, At
  <2>2. task' \in [Tasks -> TaskT]
    BY <1>7, <1>e, <1>f, <1>t DEF LlmParsed, LlmRejected, LlmOddUsage, At
  <2>3. loop' \in LoopT
    <3>1. CASE LlmParsed(t)
      BY <3>1, <1>t DEF LlmParsed, At, LoopT, LoopSteps, TaskT
    <3>2. CASE LlmRejected(t) \/ LlmOddUsage(t)
      BY <3>2, <1>b, <1>t, <1>f DEF LlmRejected, LlmOddUsage, At
    <3> QED
      BY <1>7, <3>1, <3>2
  <2> QED
    BY <1>7, <1>t, <2>1, <2>2, <2>3
       DEF LlmParsed, LlmRejected, LlmOddUsage, Pay, TypeOK, locks, counts
<1>8. CASE LlmFails(t)
  BY <1>8, <1>c, <1>f DEF LlmFails
<1>9. CASE Cancel(t)
  BY <1>9, <1>c, <1>f DEF Cancel
<1> QED
  BY <1>1, <1>2, <1>3, <1>4, <1>5, <1>6, <1>7, <1>8, <1>9 DEF TaskStep

\* A commit lost on its way leaves well-typed locks and doubts.
LEMMA TypeCommitLost ==
  ASSUME TypeOK, NEW d, NEW tx \in DoubtT, CommitLost(d, tx)
  PROVE  /\ lock' \in [Docs -> Requests \cup {Free, LoopTx, ServerTx}]
         /\ doubt' \in [Docs -> DoubtT]
BY DEF CommitLost, TypeOK

\* No step of the section on the event loop breaks a type.
LEMMA TypeSection ==
  ASSUME Inv, Section
  PROVE  TypeOK'
<1> USE DEF Inv, TypeOK, LoopT, LoopSteps, OnLoop, rows, locks, counts
<1>a. /\ Retries \in Nat \ {0}
      /\ loop \in LoopT
      /\ Idle \in LoopT
      /\ NoTask \in TaskT
  BY ConstantsAssumption DEF Idle, NoTask, TaskT, Modes
<1>b. ASSUME EndTask
      PROVE  loop' \in LoopT /\ task' \in [Tasks -> TaskT]
  BY <1>a, <1>b DEF EndTask
<1>c. ASSUME DbFails
      PROVE  attempts' \in Nat /\ faults' \in Nat /\ crashes' \in Nat
  BY <1>c DEF DbFails
<1>d. ASSUME NEW d \in Docs, NEW c \in 0..2, Charge(d, c)
      PROVE  charged' \in [Docs -> Nat] /\ owed' \in [Docs -> Int]
  BY <1>d DEF Charge
<1>e. ASSUME NEW c \in 0..2, loop.task \in Tasks, ToErrWrite(loop.task, c)
      PROVE  loop' \in LoopT
  BY <1>a, <1>e DEF ToErrWrite, TaskT
<1>f. /\ loop.at # "idle" => loop.doc \in Docs
      /\ loop.at \in WithTask => loop.task \in Tasks
  BY DEF LoopInv
<1>1. CASE GuardTakes
  <2>1. loop' \in LoopT
    BY <1>1, <1>a DEF GuardTakes
  <2>2. status' \in [Docs -> Statuses] /\ owed' \in [Docs -> Int]
    BY <1>1, <1>f DEF GuardTakes, Statuses
  <2> QED
    BY <1>1, <2>1, <2>2 DEF GuardTakes
<1>2. CASE GuardRefuses
  BY <1>2, <1>a DEF GuardRefuses
<1>3. CASE GuardFails
  <2>1. [to |-> "processing", new |-> invs[loop.doc], charge |-> 0] \in DoubtT
    BY <1>3, <1>f DEF GuardFails, DoubtT
  <2> QED
    BY <1>3, <1>a, <1>c, <2>1, TypeCommitLost DEF GuardFails
<1>4. CASE ReleaseToTask
  BY <1>4, <1>a DEF ReleaseToTask, TaskT, NoTask, Awaiting
<1>5. CASE ReleaseFails
  BY <1>5, <1>a, <1>c DEF ReleaseFails
<1>6. CASE LockRow
  BY <1>6, <1>a DEF LockRow
<1>7. CASE LockRowRefuses
  BY <1>7, <1>a, <1>e, <1>f DEF LockRowRefuses, ToErrWriteFromB, WithTask
<1>8. CASE LockRowFails
  <2>1. task[loop.task].seen \in 0..2
    BY <1>8 DEF LockRowFails, LoopInv, WithTask, TaskT
  <2> QED
    BY <1>8, <2>1, <1>c, <1>e, <1>f DEF LockRowFails, ToErrWriteFromB, WithTask
<1>9. CASE SwapCommits
  BY <1>9, <1>a, <1>b, <1>d, <1>f DEF SwapCommits, Statuses, Replacements
<1>10. CASE SwapFails
  BY <1>10, <1>a, <1>e, <1>f DEF SwapFails, ToErrWriteFromB, WithTask, DbFails
<1>11. CASE SwapInDoubt
  <2>1. PICK new \in Replacements :
          /\ CommitLost(loop.doc, [to |-> "parsed", new |-> new, charge |-> loop.carry])
          /\ fresh' = fresh \ new
    BY <1>11 DEF SwapInDoubt
  <2>2. [to |-> "parsed", new |-> new, charge |-> loop.carry] \in DoubtT
    BY <1>a DEF DoubtT, Replacements
  <2> QED
    BY <1>11, <1>a, <1>c, <1>e, <1>f, <2>1, <2>2, TypeCommitLost DEF SwapInDoubt, WithTask
<1>12. CASE ErrWriteLands
  BY <1>12, <1>a, <1>b, <1>d, <1>f DEF ErrWriteLands, Statuses
<1>13. CASE ErrWriteSkips
  BY <1>13, <1>b DEF ErrWriteSkips
<1>14. CASE ErrWriteLost
  <2>1. [to |-> "error", new |-> invs[loop.doc], charge |-> loop.carry] \in DoubtT
    BY <1>14, <1>a, <1>f DEF ErrWriteLost, DoubtT
  <2>2. loop' \in LoopT /\ task' \in [Tasks -> TaskT]
    BY <1>14, <1>a, <1>b DEF ErrWriteLost
  <2> QED
    BY <1>14, <1>c, <2>1, <2>2, TypeCommitLost DEF ErrWriteLost
<1>15. CASE ErrWriteRaises
  BY <1>15, <1>b, <1>c DEF ErrWriteRaises
<1> QED
  BY <1>1, <1>2, <1>3, <1>4, <1>5, <1>6, <1>7, <1>8, <1>9, <1>10, <1>11, <1>12, <1>13,
     <1>14, <1>15 DEF Section

\* No upload, click or incoming request breaks a type.
LEMMA TypeArrival ==
  ASSUME Inv, Arrival
  PROVE  TypeOK'
<1> USE DEF Inv, TypeOK, rows, locks, counts
<1>a. ASSUME NEW d \in Docs, NEW m \in Modes, EnterGuard(d, m)
      PROVE  loop' \in LoopT /\ attempts' \in Nat /\ faults' \in Nat /\ crashes' \in Nat
  BY <1>a, ConstantsAssumption DEF EnterGuard, LoopT, LoopSteps
<1>b. ASSUME NEW r \in Requests, NEW kind, NEW ids \in SUBSET Invoices, NEW docs \in SUBSET Docs,
             Ask(r, kind, ids, docs)
      PROVE  TypeOK'
  BY <1>b, ConstantsAssumption DEF Ask, ReqT
<1>c. invs \in [Docs -> SUBSET Invoices]
  OBVIOUS
<1>1. CASE \E d \in Docs : UploadCreate(d) \/ UploadCreateFails(d)
  <2>1. PICK d \in Docs : UploadCreate(d) \/ UploadCreateFails(d)
    BY <1>1
  <2>2. CASE UploadCreate(d)
    BY <2>2, <1>a DEF UploadCreate, Statuses, Modes
  <2>3. CASE UploadCreateFails(d)
    BY <2>3 DEF UploadCreateFails, DbFails, Statuses
  <2> QED
    BY <2>1, <2>2, <2>3
<1>2. CASE \E d \in Docs, m \in Modes : Reparse(d, m)
  BY <1>2, <1>a DEF Reparse
<1>3. CASE \E r \in Requests, d \in Docs :
             AskDeleteDoc(r, d) \/ \E i \in invs[d] : AskInvoice(r, d, i)
  <2>1. PICK r \in Requests, d \in Docs :
               AskDeleteDoc(r, d) \/ \E i \in invs[d] : AskInvoice(r, d, i)
    BY <1>3
  <2>2. CASE AskDeleteDoc(r, d)
    BY ONLY <2>2, <1>b DEF AskDeleteDoc
  <2>3. ASSUME NEW i \in invs[d], AskInvoice(r, d, i)
        PROVE  TypeOK'
    <3>1. {i} \in SUBSET Invoices /\ {d} \in SUBSET Docs
      BY <1>c
    <3>2. PICK kind : Ask(r, kind, {i}, {d})
      BY <2>3 DEF AskInvoice
    <3> HIDE DEF Inv, TypeOK
    <3> QED
      BY <3>1, <3>2, <1>b
  <2> QED
    BY <2>1, <2>2, <2>3
<1>4. CASE \E r \in Requests : AskDropProject(r) \/ \E ids \in SUBSET Invoices : AskBulk(r, ids)
  <2>1. PICK r \in Requests : AskDropProject(r) \/ \E ids \in SUBSET Invoices : AskBulk(r, ids)
    BY <1>4
  <2>2. CASE AskDropProject(r)
    <3> DEFINE ids == UNION {invs[d] : d \in Docs}
               docs == {d \in Docs : Row(d)}
    <3>1. ids \in SUBSET Invoices /\ docs \in SUBSET Docs
      BY <1>c
    <3>2. Ask(r, "drop_project", ids, docs)
      BY <2>2 DEF AskDropProject
    <3> HIDE DEF ids, docs, Inv, TypeOK
    <3> QED
      BY <3>1, <3>2, <1>b
  <2>3. ASSUME NEW ids \in SUBSET Invoices, AskBulk(r, ids)
        PROVE  TypeOK'
    BY ONLY <2>3, <1>b DEF AskBulk
  <2> QED
    BY <2>1, <2>2, <2>3
<1> QED
  BY <1>1, <1>2, <1>3, <1>4 DEF Arrival

\* The server settling an in-doubt commit breaks no type.
LEMMA TypeServer ==
  ASSUME TypeOK, NEW d \in Docs, ServerCommits(d) \/ ServerRollsBack(d)
  PROVE  TypeOK'
<1> USE DEF TypeOK, rows, locks, counts
<1>1. /\ doubt[d] \in DoubtT
      /\ NoDoubt \in DoubtT
      /\ doubt[d].to # "none" => doubt[d].to \in Statuses
  BY DEF DoubtT, NoDoubt, Statuses
<1>2. CASE ServerRollsBack(d)
  BY <1>1, <1>2 DEF ServerRollsBack
<1>3. CASE ServerCommits(d)
  <2>1. charged' \in [Docs -> Nat] /\ owed' \in [Docs -> Int]
    BY <1>1, <1>3 DEF ServerCommits, Charge, DoubtT
  <2>2. status' \in [Docs -> Statuses] /\ invs' \in [Docs -> SUBSET Invoices]
    BY <1>1, <1>3 DEF ServerCommits, DoubtT
  <2> QED
    BY <1>1, <1>3, <2>1, <2>2 DEF ServerCommits
<1> QED
  BY <1>2, <1>3

\* What a dying process may have sent is a well-typed commit.
LEMMA TypeInFlight ==
  ASSUME TypeOK, loop.doc \in Docs
  PROVE  InFlight \subseteq DoubtT
BY DEF InFlight, TypeOK, DoubtT, LoopT, Replacements

\* Neither a crash nor the restart after it breaks a type.
LEMMA TypeCrash ==
  ASSUME Inv, Crash \/ Restart
  PROVE  TypeOK'
<1> USE DEF Inv, TypeOK, rows, locks, counts
<1>1. CASE Restart
  BY <1>1 DEF Restart, Statuses
<1>2. CASE Crash
  <2>1. loop' \in LoopT /\ task' \in [Tasks -> TaskT] /\ req' \in [Requests -> ReqT]
    BY <1>2, ConstantsAssumption
       DEF Crash, Idle, LoopT, LoopSteps, Modes, NoTask, TaskT, NoReq, ReqT, AllKinds
  <2>2. /\ lock' \in [Docs -> Requests \cup {Free, LoopTx, ServerTx}]
        /\ doubt' \in [Docs -> DoubtT]
        /\ fresh' \in SUBSET Invoices
    <3>1. CASE UNCHANGED <<doubt, fresh>>
      BY <1>2, <3>1 DEF Crash
    <3>2. CASE ~UNCHANGED <<doubt, fresh>>
      <4>1. PICK tx \in InFlight :
              /\ doubt' = [doubt EXCEPT ![loop.doc] = tx]
              /\ fresh' = fresh \ tx.new
        BY <1>2, <3>2 DEF Crash
      <4>2. loop.doc \in Docs
        BY <1>2, <3>2 DEF Crash, LoopT
      <4>3. tx \in DoubtT
        BY <4>1, <4>2, TypeInFlight
      <4>4. lock' \in [Docs -> Requests \cup {Free, LoopTx, ServerTx}]
        BY <1>2 DEF Crash
      <4> QED
        BY <4>1, <4>3, <4>4
    <3> QED
      BY <3>1, <3>2
  <2> QED
    <3>1. /\ up' = FALSE /\ crashes' = crashes + 1
          /\ UNCHANGED <<status, invs, verified, charged, owed, attempts, faults>>
      BY ONLY <1>2 DEF Crash
    <3>2. up' \in BOOLEAN
      BY <3>1
    <3>3. /\ status' \in [Docs -> Statuses]
          /\ invs' \in [Docs -> SUBSET Invoices]
          /\ verified' \in SUBSET Invoices
          /\ charged' \in [Docs -> Nat]
          /\ owed' \in [Docs -> Int]
          /\ attempts' \in Nat /\ faults' \in Nat /\ crashes' \in Nat
      BY <3>1
    <3> QED
      BY <2>1, <2>2, <3>2, <3>3
<1> QED
  BY <1>1, <1>2

-----------------------------------------------------------------------------
(* The other parts of the invariant. *)

\* What no worker thread touches: it leaves a status alone or removes the
\* row, and takes no row from the server.
LEMMA RequestFrame ==
  ASSUME Inv, NEW r \in Requests, RequestStep(r)
  PROVE  /\ UNCHANGED <<up, loop, task, doubt, owed>>
         /\ \A d \in Docs : status'[d] \in {status[d], "gone"}
         /\ \A d \in Docs : lock'[d] = ServerTx <=> lock[d] = ServerTx
<1>1. r \notin {Free, ServerTx} /\ Free # ServerTx
  BY ConstantsAssumption DEF Free, ServerTx
<1>2. status \in [Docs -> Statuses] /\ lock \in [Docs -> Requests \cup {Free, LoopTx, ServerTx}]
  BY DEF Inv, TypeOK
<1>3. CASE LockDoc(r)
  BY <1>1, <1>2, <1>3 DEF LockDoc, rows
<1>4. CASE Refuse(r)
  BY <1>2, <1>4 DEF Refuse, rows, locks
<1>5. ASSUME Done(r)
      PROVE  /\ UNCHANGED <<up, loop, task, doubt, owed>>
             /\ \A d \in Docs : lock'[d] = ServerTx <=> lock[d] = ServerTx
  BY <1>1, <1>2, <1>5 DEF Done, Unlock
<1>6. CASE CloseSession(r) \/ CommitEdit(r) \/ CommitVerify(r) \/ CommitUnverify(r)
           \/ CommitDelete(r) \/ CommitBulk(r) \/ DropFails(r) \/ DeadlockVictim(r)
  <2>1. Done(r) /\ UNCHANGED status
    BY <1>6 DEF CloseSession, CommitEdit, CommitVerify, CommitUnverify, CommitDelete, CommitBulk,
                DropFails, DeadlockVictim
  <2> QED
    BY <1>5, <2>1
<1>7. CASE CommitDeleteDoc(r)
  BY <1>2, <1>5, <1>7 DEF CommitDeleteDoc
<1>8. CASE CommitDrop(r)
  BY <1>2, <1>5, <1>8 DEF CommitDrop
<1>9. CASE DropInvoices(r)
  BY <1>2, <1>9 DEF DropInvoices, rows, locks
<1>10. CASE DropDoc(r)
  BY <1>1, <1>2, <1>10 DEF DropDoc, Unblocked, rows
<1> QED
  BY <1>3, <1>4, <1>6, <1>7, <1>8, <1>9, <1>10 DEF RequestStep

\* Requests of people preserve the invariant.
LEMMA InvRequest ==
  ASSUME Inv, NEW r \in Requests, RequestStep(r)
  PROVE  Inv'
<1>1. /\ UNCHANGED <<up, loop, task, doubt, owed>>
      /\ \A d \in Docs : status'[d] \in {status[d], "gone"}
      /\ \A d \in Docs : lock'[d] = ServerTx <=> lock[d] = ServerTx
  BY RequestFrame
<1>2. TypeOK'
  BY TypeRequest DEF Inv
<1>3. \A t \in Tasks : task[t].doc \in Docs \cup {None}
  BY DEF Inv, TypeOK, TaskT
<1>4. LoopInv' /\ TaskInv'
  BY <1>1 DEF Inv, LoopInv, TaskInv
<1>5. LockInv'
  BY <1>1 DEF Inv, LockInv
<1>6. AttemptInv'
  BY <1>1, <1>3 DEF Inv, AttemptInv, TaskInv, Settling, Awaiting
<1>7. PaidInv' /\ NeverOvercharged'
  BY <1>1 DEF Inv, PaidInv, NeverOvercharged
<1>8. CarryInv'
  BY <1>1 DEF Inv, CarryInv, LoopInv
<1> QED
  BY <1>2, <1>4, <1>5, <1>6, <1>7, <1>8 DEF Inv

\* Task t waits again, or the loop runs a section on its behalf.
Waits(t) ==
  /\ task'[t].pc \in Awaiting
  /\ loop' = loop
  /\ task'[t].paid <= 1
  /\ task'[t].seen <= task'[t].paid
  /\ task'[t].paid <= owed'[task[t].doc]
  /\ task'[t].pc \in {"raster", "store"} => task'[t].paid = 1
Runs(t) ==
  /\ task'[t].pc = "onloop"
  /\ loop'.at \in {"lock", "errWrite"} /\ loop'.task = t /\ loop'.doc = task[t].doc
  /\ loop'.carry <= owed'[task[t].doc]
  /\ task'[t].seen <= loop'.carry \/ loop'.at = "errWrite"

\* A task that resumes either waits again or has the event loop to itself;
\* it touches its own record and the calls it owes, nothing else.
LEMMA TaskFrame ==
  ASSUME Inv, NEW t \in Tasks, TaskStep(t)
  PROVE  /\ up /\ loop.at = "idle" /\ task[t].pc \in Awaiting
         /\ task[t].doc \in Docs
         /\ UNCHANGED <<up, status, lock, doubt>>
         /\ \A u \in Tasks \ {t} : task'[u] = task[u]
         /\ task'[t].doc = task[t].doc
         /\ \A d \in Docs : owed'[d] >= owed[d]
         /\ Waits(t) \/ Runs(t)
<1> DEFINE Frame ==
             /\ UNCHANGED <<up, status, lock, doubt>>
             /\ \A u \in Tasks \ {t} : task'[u] = task[u]
             /\ task'[t].doc = task[t].doc
             /\ \A d \in Docs : owed'[d] >= owed[d]
             /\ Waits(t) \/ Runs(t)
<1>1. up /\ loop.at = "idle" /\ task[t].pc \in Awaiting
  BY DEF TaskStep, TakeSlot, Fetch, DetectPaid, DetectFails, Raster, Store, LlmParsed,
         LlmRejected, LlmFails, LlmOddUsage, Cancel, At, LoopIdle, Awaiting
<1>2. /\ task \in [Tasks -> TaskT] /\ task[t] \in TaskT
      /\ owed \in [Docs -> Int] /\ task[t].doc \in Docs
      /\ owed[task[t].doc] \in Int
  BY <1>1 DEF Inv, TypeOK, TaskT, TaskInv, Awaiting
<1>3. /\ task[t].paid \in 0..1 /\ task[t].seen \in 0..1
      /\ task[t].seen <= task[t].paid /\ task[t].paid <= owed[task[t].doc]
      /\ task[t].pc \in {"raster", "store"} => task[t].paid = 1
  BY <1>1, <1>2 DEF Inv, PaidInv, TaskT
<1> SUFFICES Frame
  BY <1>1, <1>2
<1>a. ASSUME NEW at \in Awaiting, Suspend(t, at), at \in {"raster", "store"} => task[t].paid = 1
      PROVE  Frame
  BY <1>a, <1>2, <1>3 DEF Suspend, rows, locks, Waits, TaskT
<1>b. ASSUME NEW c \in 0..1, FailOnLoop(t, c), c <= task[t].paid
      PROVE  Frame
  BY <1>b, <1>2, <1>3 DEF FailOnLoop, ToErrWrite, rows, locks, Runs, TaskT
<1>c. ASSUME NEW d \in Docs, Pay(d)
      PROVE  /\ \A e \in Docs : owed'[e] >= owed[e]
             /\ owed'[d] = owed[d] + 1
             /\ UNCHANGED status
  BY <1>c, <1>2 DEF Pay
<1>d. ASSUME NEW pc, NEW p, NEW s, Move(t, pc, p, s)
      PROVE  /\ \A u \in Tasks \ {t} : task'[u] = task[u]
             /\ task'[t].doc = task[t].doc
             /\ task'[t].pc = pc /\ task'[t].paid = p /\ task'[t].seen = s
  BY <1>d, <1>2 DEF Move
<1>4. CASE TakeSlot(t)
  BY <1>4, <1>a, <1>b, <1>3 DEF TakeSlot, Awaiting
<1>5. CASE Fetch(t)
  BY <1>5, <1>a, <1>b, <1>3 DEF Fetch, Awaiting
<1>6. CASE DetectPaid(t)
  <2>1. /\ \A e \in Docs : owed'[e] >= owed[e]
        /\ owed'[task[t].doc] = owed[task[t].doc] + 1
        /\ UNCHANGED <<up, status, lock, doubt>>
    BY <1>6, <1>c, <1>2 DEF DetectPaid, locks
  <2>2. CASE /\ Move(t, "raster", 1, 0) \/ Move(t, "store", 1, 1) \/ Move(t, "llm", 1, 1)
             /\ UNCHANGED loop
    BY <2>1, <2>2, <1>2, <1>3, <1>d DEF Waits, Awaiting
  <2>3. CASE Move(t, "onloop", 1, 0) /\ ToErrWrite(t, 1)
    BY <2>1, <2>3, <1>2, <1>3, <1>d DEF Runs, ToErrWrite
  <2> QED
    BY <1>6, <2>2, <2>3 DEF DetectPaid
<1>7. CASE DetectFails(t)
  BY <1>7, <1>b, <1>3 DEF DetectFails
<1>8. CASE Raster(t)
  <2>1. CASE Move(t, "store", 1, 1) /\ UNCHANGED <<up, rows, locks, loop>>
    BY <1>8, <2>1, <1>2, <1>3, <1>d DEF Raster, At, Waits, Awaiting, rows, locks
  <2>2. CASE FailOnLoop(t, 1)
    BY <1>8, <2>2, <1>b, <1>3 DEF Raster, At
  <2> QED
    BY <1>8, <2>1, <2>2 DEF Raster
<1>9. CASE Store(t)
  BY <1>9, <1>a, <1>b, <1>3 DEF Store, At, Awaiting
<1>10. CASE LlmParsed(t) \/ LlmRejected(t) \/ LlmOddUsage(t)
  <2>1. /\ \A e \in Docs : owed'[e] >= owed[e]
        /\ owed'[task[t].doc] = owed[task[t].doc] + 1
        /\ UNCHANGED <<up, status, lock, doubt>>
        /\ Move(t, "onloop", task[t].paid + 1, task[t].seen)
    BY <1>10, <1>c, <1>2 DEF LlmParsed, LlmRejected, LlmOddUsage, locks
  <2>2. /\ loop'.at \in {"lock", "errWrite"} /\ loop'.task = t /\ loop'.doc = task[t].doc
        /\ loop'.carry \in {task[t].paid + 1, task[t].seen}
    BY <1>10 DEF LlmParsed, LlmRejected, LlmOddUsage, ToErrWrite
  <2>3. /\ loop'.carry <= owed'[task[t].doc]
        /\ task[t].seen <= loop'.carry
    BY <2>1, <2>2, <1>2, <1>3
  <2> QED
    BY <2>1, <2>2, <2>3, <1>d DEF Runs
<1>11. CASE LlmFails(t)
  BY <1>11, <1>b, <1>3 DEF LlmFails
<1>12. CASE Cancel(t)
  BY <1>12, <1>b, <1>3 DEF Cancel
<1> QED
  BY <1>4, <1>5, <1>6, <1>7, <1>8, <1>9, <1>10, <1>11, <1>12 DEF TaskStep

\* Background tasks preserve the invariant.
LEMMA InvTask ==
  ASSUME Inv, NEW t \in Tasks, TaskStep(t)
  PROVE  Inv'
<1>1. /\ up /\ loop.at = "idle" /\ task[t].pc \in Awaiting
      /\ task[t].doc \in Docs
      /\ UNCHANGED <<up, status, lock, doubt>>
      /\ \A u \in Tasks \ {t} : task'[u] = task[u]
      /\ task'[t].doc = task[t].doc
      /\ \A d \in Docs : owed'[d] >= owed[d]
      /\ Waits(t) \/ Runs(t)
  BY TaskFrame
<1>2. TypeOK'
  BY TypeTask
<1>3. /\ \A u \in Tasks : task[u] \in TaskT /\ task[u].doc \in Docs \cup {None}
      /\ \A d \in Docs : owed[d] \in Int /\ owed'[d] \in Int /\ doubt[d].charge \in 0..2
      /\ None \notin Docs
  BY <1>2, ConstantsAssumption DEF Inv, TypeOK, TaskT, DoubtT
<1>4. LoopInv'
  BY <1>1 DEF Inv, LoopInv, Waits, Runs, WithTask, Awaiting
<1>5. TaskInv'
  BY <1>1, <1>3 DEF Inv, TaskInv, Waits, Runs, Awaiting
<1>6. LockInv'
  BY <1>1 DEF Inv, LockInv
<1>7. AttemptInv'
  BY <1>1, <1>3 DEF Inv, AttemptInv, Waits, Runs, Settling, Awaiting
<1>8. PaidInv'
  <2>1. ASSUME NEW u \in Tasks, task'[u].pc \in Awaiting, u # t
        PROVE  /\ task'[u] = task[u] /\ task[u].doc \in Docs
               /\ task[u].paid \in 0..2
               /\ task[u].paid <= owed'[task[u].doc]
    BY <2>1, <1>1, <1>3 DEF Inv, PaidInv, TaskInv, TaskT, Awaiting
  <2> QED
    BY <2>1, <1>1, <1>3 DEF Inv, PaidInv, Waits, Runs, Awaiting
<1>9. CarryInv'
  <2>1. \A d \in Docs : doubt'[d].charge <= owed'[d]
    BY <1>1, <1>3 DEF Inv, CarryInv
  <2> QED
    BY <2>1, <1>1 DEF CarryInv, Waits, Runs
<1>10. NeverOvercharged'
  BY <1>1, <1>3 DEF Inv, NeverOvercharged
<1> QED
  BY <1>2, <1>4, <1>5, <1>6, <1>7, <1>8, <1>9, <1>10 DEF Inv

\* A commit lost on its way puts at most its own row in doubt.
LEMMA CommitLostFrame ==
  ASSUME Inv, NEW d \in Docs, NEW tx \in DoubtT, tx.to # "none", CommitLost(d, tx)
  PROVE  /\ LockInv'
         /\ \A e \in Docs \ {d} : doubt'[e] = doubt[e]
         /\ doubt'[d] = doubt[d] \/ (doubt'[d] = tx /\ Row(d))
BY ConstantsAssumption DEF Inv, TypeOK, LockInv, CommitLost, Free, LoopTx, ServerTx

\* The task of a finished section is gone and the loop is idle.
LEMMA EndTaskFrame ==
  ASSUME Inv, loop.at \in WithTask, EndTask
  PROVE  /\ loop' = Idle
         /\ loop.task \in Tasks
         /\ task'[loop.task] = NoTask
         /\ \A u \in Tasks \ {loop.task} : task'[u] = task[u] /\ task'[u].pc # "onloop"
BY DEF Inv, TypeOK, LoopInv, EndTask

\* The facts about the section on the loop that its steps start from.
LEMMA SectionFacts ==
  ASSUME Inv, loop.at # "idle"
  PROVE  /\ up /\ loop.doc \in Docs /\ loop.doc # None
         /\ loop.carry \in 0..2
         /\ loop.at \in WithTask => loop.task \in Tasks /\ task[loop.task].pc = "onloop"
                                    /\ task[loop.task].doc = loop.doc
                                    /\ task[loop.task] \in TaskT
         /\ \A d \in Docs : /\ owed[d] \in Int /\ owed[d] >= 0
                            /\ doubt[d] \in DoubtT /\ doubt[d].charge \in 0..2
                            /\ lock[d] # ServerTx => doubt[d].to = "none" /\ doubt[d].charge = 0
         /\ \A t \in Tasks : /\ task[t].doc \in Docs \cup {None}
                             /\ task[t].paid \in 0..2
         /\ Free # ServerTx /\ LoopTx # ServerTx /\ Free # LoopTx
<1>1. loop \in LoopT /\ owed \in [Docs -> Int] /\ doubt \in [Docs -> DoubtT]
      /\ task \in [Tasks -> TaskT]
  BY DEF Inv, TypeOK
<1>2. up /\ loop.doc \in Docs /\ loop.doc # None /\ loop.carry \in 0..2
  BY <1>1, ConstantsAssumption DEF Inv, LoopInv, LoopT
<1>3. loop.at \in WithTask => loop.task \in Tasks /\ task[loop.task].pc = "onloop"
                              /\ task[loop.task].doc = loop.doc
                              /\ task[loop.task] \in TaskT
  BY <1>1 DEF Inv, LoopInv
<1>4. ASSUME NEW d \in Docs
      PROVE  /\ owed[d] \in Int /\ owed[d] >= 0
             /\ doubt[d] \in DoubtT /\ doubt[d].charge \in 0..2
             /\ lock[d] # ServerTx => doubt[d].to = "none" /\ doubt[d].charge = 0
  BY <1>1 DEF Inv, NeverOvercharged, DoubtT, LockInv
<1>5. \A t \in Tasks : task[t].doc \in Docs \cup {None} /\ task[t].paid \in 0..2
  BY <1>1 DEF TaskT
<1>6. Free # ServerTx /\ LoopTx # ServerTx /\ Free # LoopTx
  BY DEF Free, ServerTx, LoopTx
<1> QED
  BY <1>2, <1>3, <1>4, <1>5, <1>6

\* The guard finds no attempt on a row it can take.
LEMMA InvGuardTakes ==
  ASSUME Inv, GuardTakes
  PROVE  Inv'
<1>1. loop.at = "guard" /\ loop.at # "idle"
  BY DEF GuardTakes
<1> DEFINE d == loop.doc
<1>2. /\ d \in Docs /\ Row(d) /\ lock[d] = Free /\ status[d] # "processing"
      /\ status' = [status EXCEPT ![d] = "processing"]
      /\ owed' = [owed EXCEPT ![d] = 0]
      /\ loop'.at = "release" /\ loop'.doc = d
      /\ UNCHANGED <<up, lock, doubt, task>>
  BY <1>1, SectionFacts DEF GuardTakes, Inv, TypeOK, LoopT, locks
<1>3. \A t \in Tasks : task[t].pc # "onloop" /\ task[t].doc # d
  <2>1. ASSUME NEW t \in Tasks
        PROVE  task[t].pc # "onloop" /\ task[t].doc # d
    BY <1>1, <1>2, SectionFacts DEF Inv, TypeOK, TaskT, LoopInv, WithTask, AttemptInv, TaskInv, Row
  <2> QED
    BY <2>1
<1>4. doubt[d].to = "none" /\ doubt[d].charge = 0
  BY <1>1, <1>2, SectionFacts
<1>5. TypeOK'
  BY TypeSection DEF Section
<1>t. status \in [Docs -> Statuses] /\ owed \in [Docs -> Int]
  BY DEF Inv, TypeOK
<1> HIDE DEF d
<1>6. LoopInv' /\ TaskInv' /\ LockInv'
  BY <1>1, <1>2, <1>3, SectionFacts DEF Inv, LoopInv, TaskInv, LockInv, WithTask, d
<1>7. AttemptInv'
  BY <1>1, <1>2, <1>3, <1>4, <1>t, SectionFacts DEF Inv, AttemptInv, TaskInv, Settling, Awaiting
<1>8. PaidInv'
  BY <1>2, <1>3, <1>t, SectionFacts, <1>1 DEF Inv, PaidInv, TaskInv, Awaiting
<1>9. CarryInv' /\ NeverOvercharged'
  BY <1>1, <1>2, <1>4, <1>t, SectionFacts DEF Inv, CarryInv, NeverOvercharged
<1> QED
  BY <1>5, <1>6, <1>7, <1>8, <1>9 DEF Inv

\* A guard that refuses or fails leaves the invariant alone.
LEMMA InvGuardEnds ==
  ASSUME Inv, GuardRefuses \/ GuardFails \/ ReleaseFails
  PROVE  Inv'
<1> DEFINE tx == [to |-> "processing", new |-> invs[loop.doc], charge |-> 0]
<1>1. /\ loop.at \in {"guard", "release"} /\ loop.at # "idle"
      /\ loop' = Idle
      /\ UNCHANGED <<up, status, owed, task>>
      /\ \/ UNCHANGED <<lock, doubt>>
         \/ loop.at = "guard" /\ status[loop.doc] # "processing" /\ CommitLost(loop.doc, tx)
  BY DEF GuardRefuses, GuardFails, ReleaseFails, rows, locks, Idle
<1>2. TypeOK'
  BY TypeSection DEF Section
<1>t. /\ tx \in DoubtT /\ tx.to = "processing" /\ tx.charge = 0 /\ tx.to # "none"
      /\ status \in [Docs -> Statuses]
  BY <1>1, SectionFacts DEF Inv, TypeOK, DoubtT
<1> HIDE DEF tx
<1>3. \/ UNCHANGED <<lock, doubt>>
      \/ /\ LockInv' /\ loop.at = "guard"
         /\ \A e \in Docs \ {loop.doc} : doubt'[e] = doubt[e]
         /\ doubt'[loop.doc] = doubt[loop.doc]
              \/ (doubt'[loop.doc] = tx /\ Row(loop.doc) /\ status[loop.doc] # "processing")
  BY <1>1, <1>t, CommitLostFrame, SectionFacts
<1>4. LockInv'
  BY <1>3 DEF Inv, LockInv
<1>5. \A t \in Tasks : task[t].pc # "onloop"
  BY <1>1 DEF Inv, LoopInv, WithTask
<1>6. ASSUME doubt'[loop.doc] # doubt[loop.doc], NEW t \in Tasks
      PROVE  task[t].doc # loop.doc
  BY <1>6, <1>1, <1>3, <1>5, SectionFacts
     DEF Inv, TypeOK, TaskT, AttemptInv, TaskInv, Row
<1>7. LoopInv' /\ TaskInv'
  BY <1>1, <1>5 DEF Inv, LoopInv, TaskInv, Idle, WithTask
<1>8. AttemptInv'
  BY <1>1, <1>3, <1>5, <1>6, SectionFacts
     DEF Inv, AttemptInv, TaskInv, Settling, Awaiting, Idle
<1>9. PaidInv' /\ NeverOvercharged'
  BY <1>1 DEF Inv, PaidInv, NeverOvercharged
<1>10. CarryInv'
  BY <1>1, <1>3, <1>t, SectionFacts DEF Inv, CarryInv, NeverOvercharged, Idle
<1> QED
  BY <1>2, <1>4, <1>7, <1>8, <1>9, <1>10 DEF Inv

\* The task that is started is the only attempt of its document.
LEMMA InvReleaseToTask ==
  ASSUME Inv, ReleaseToTask
  PROVE  Inv'
<1>1. loop.at = "release" /\ loop.at # "idle"
  BY DEF ReleaseToTask
<1>2. PICK t \in Tasks :
        /\ task[t].pc = "none"
        /\ task' = [task EXCEPT ![t] = [pc |-> "queued", doc |-> loop.doc, mode |-> loop.mode,
                                        paid |-> 0, seen |-> 0]]
  BY DEF ReleaseToTask
<1>3. /\ \A u \in Tasks \ {t} : task'[u] = task[u]
      /\ task'[t].pc = "queued" /\ task'[t].doc = loop.doc
      /\ task'[t].paid = 0 /\ task'[t].seen = 0
      /\ loop' = Idle
      /\ UNCHANGED <<up, status, lock, doubt, owed>>
  BY <1>2 DEF ReleaseToTask, Inv, TypeOK, rows, locks
<1>4. TypeOK'
  BY TypeSection DEF Section
<1>5. \A u \in Tasks : task[u].pc # "onloop" /\ task[u].doc # loop.doc
  BY <1>1 DEF Inv, LoopInv, AttemptInv, WithTask
<1>6. LoopInv' /\ TaskInv' /\ LockInv'
  BY <1>1, <1>3, <1>5, SectionFacts DEF Inv, LoopInv, TaskInv, LockInv, Idle, WithTask
<1>7. AttemptInv'
  BY <1>1, <1>3, <1>5, SectionFacts DEF Inv, AttemptInv, Settling, Awaiting, Idle
<1>8. PaidInv' /\ NeverOvercharged'
  BY <1>1, <1>3, SectionFacts DEF Inv, PaidInv, NeverOvercharged
<1>9. CarryInv'
  BY <1>3 DEF Inv, CarryInv, Idle
<1> QED
  BY <1>4, <1>6, <1>7, <1>8, <1>9 DEF Inv

\* Phase B holds the row from its lock to its commit.
LEMMA InvLockRow ==
  ASSUME Inv, LockRow
  PROVE  Inv'
<1>1. loop.at = "lock" /\ loop.at # "idle"
  BY DEF LockRow, OnLoop
<1>2. /\ loop'.at = "swap" /\ loop'.doc = loop.doc /\ loop'.task = loop.task
      /\ loop'.carry = loop.carry
      /\ \A d \in Docs : lock'[d] = ServerTx <=> lock[d] = ServerTx
      /\ UNCHANGED <<up, status, doubt, task, owed>>
  BY <1>1, SectionFacts DEF LockRow, Inv, TypeOK, LoopT, rows
<1>3. TypeOK'
  BY TypeSection DEF Section
<1>4. LoopInv' /\ TaskInv' /\ LockInv'
  BY <1>1, <1>2 DEF Inv, LoopInv, TaskInv, LockInv, WithTask
<1>5. AttemptInv'
  BY <1>1, <1>2 DEF Inv, AttemptInv, Settling
<1>6. PaidInv' /\ NeverOvercharged'
  BY <1>2 DEF Inv, PaidInv, NeverOvercharged
<1>7. CarryInv'
  BY <1>1, <1>2 DEF Inv, CarryInv
<1> QED
  BY <1>3, <1>4, <1>5, <1>6, <1>7 DEF Inv

\* Phase B fails, before, in or after its commit: what the error write may
\* charge and what the server may still charge are both covered.
LEMMA InvPhaseBFails ==
  ASSUME Inv, LockRowRefuses \/ LockRowFails \/ SwapFails \/ SwapInDoubt
  PROVE  Inv'
<1>1. loop.at \in {"lock", "swap"} /\ loop.at \in WithTask /\ loop.at # "idle"
  BY DEF LockRowRefuses, LockRowFails, SwapFails, SwapInDoubt, OnLoop, WithTask
<1>2. /\ loop'.at = "errWrite" /\ loop'.doc = loop.doc /\ loop'.task = loop.task
      /\ loop'.carry \in {loop.carry, task[loop.task].seen}
      /\ UNCHANGED <<up, status, task, owed>>
  <2>1. task[loop.task].doc = loop.doc
    BY <1>1, SectionFacts
  <2>2. CASE SwapInDoubt
    BY <2>1, <2>2 DEF SwapInDoubt, ToErrWrite
  <2>3. CASE \E c \in {loop.carry, task[loop.task].seen} : ToErrWriteFromB(c)
    BY <2>1, <2>3 DEF ToErrWriteFromB, ToErrWrite, rows
  <2> QED
    BY <2>2, <2>3 DEF LockRowRefuses, LockRowFails, SwapFails
<1>3. /\ loop'.carry <= owed[loop.doc] /\ loop.carry <= owed[loop.doc]
      /\ loop'.carry \in Int
  BY <1>1, <1>2, SectionFacts DEF Inv, CarryInv, TaskT
<1>4. TypeOK'
  BY TypeSection DEF Section
<1>5. /\ LockInv'
      /\ \A d \in Docs : doubt'[d].charge <= owed[d]
      /\ \A d \in Docs : doubt'[d].to \in {doubt[d].to, "parsed"}
      /\ \A d \in Docs \ {loop.doc} : doubt'[d] = doubt[d]
  <2>1. CASE UNCHANGED locks
    BY <2>1 DEF locks, Inv, LockInv, CarryInv
  <2>2. CASE SwapFails
    BY <2>2, <1>1, SectionFacts DEF SwapFails, Inv, TypeOK, LockInv, CarryInv, AttemptInv, Settling, OnLoop
  <2>3. CASE SwapInDoubt
    <3>1. PICK new \in Replacements :
            CommitLost(loop.doc, [to |-> "parsed", new |-> new, charge |-> loop.carry])
      BY <2>3 DEF SwapInDoubt
    <3> DEFINE tx == [to |-> "parsed", new |-> new, charge |-> loop.carry]
    <3>2. tx \in DoubtT /\ tx.to = "parsed" /\ tx.charge = loop.carry
      BY <1>1, SectionFacts DEF DoubtT, Replacements, Inv, TypeOK
    <3> HIDE DEF tx
    <3>3. /\ LockInv'
          /\ \A e \in Docs \ {loop.doc} : doubt'[e] = doubt[e]
          /\ doubt'[loop.doc] = doubt[loop.doc] \/ doubt'[loop.doc] = tx
      BY <1>1, <3>1, <3>2, CommitLostFrame, SectionFacts DEF tx
    <3> QED
      BY <3>2, <3>3, <1>3 DEF Inv, CarryInv
  <2> QED
    BY <2>1, <2>2, <2>3 DEF LockRowRefuses, LockRowFails
<1>6. LoopInv' /\ TaskInv'
  BY <1>1, <1>2 DEF Inv, LoopInv, TaskInv, WithTask
<1>7. \A t \in Tasks : task[t].pc \in Awaiting => task[t].doc # loop.doc
  BY <1>1, SectionFacts DEF Inv, AttemptInv, Awaiting
<1>8. AttemptInv'
  BY <1>1, <1>2, <1>5, <1>7, SectionFacts DEF Inv, AttemptInv, TaskInv, Settling, Awaiting
<1>9. PaidInv' /\ NeverOvercharged'
  BY <1>2 DEF Inv, PaidInv, NeverOvercharged
<1>10. CarryInv'
  BY <1>2, <1>3, <1>5 DEF CarryInv
<1> QED
  BY <1>4, <1>5, <1>6, <1>8, <1>9, <1>10 DEF Inv

\* The one charge of an attempt.
LEMMA InvSettles ==
  ASSUME Inv, SwapCommits \/ ErrWriteLands
  PROVE  Inv'
<1>1. loop.at \in WithTask /\ loop.at # "idle"
  BY DEF SwapCommits, ErrWriteLands, OnLoop, WithTask
<1>2. /\ status'[loop.doc] \in AtRest
      /\ \A d \in Docs \ {loop.doc} : status'[d] = status[d]
      /\ owed'[loop.doc] = owed[loop.doc] - loop.carry
      /\ \A d \in Docs \ {loop.doc} : owed'[d] = owed[d]
      /\ \A d \in Docs : lock'[d] = ServerTx <=> (lock[d] = ServerTx)
      /\ UNCHANGED <<up, doubt>>
      /\ EndTask
  <2>1. CASE SwapCommits
    BY <2>1, <1>1, SectionFacts
       DEF SwapCommits, Charge, Inv, TypeOK, AtRest, LockInv, AttemptInv, Settling, OnLoop
  <2>2. CASE ErrWriteLands
    BY <2>2, <1>1, SectionFacts DEF ErrWriteLands, Charge, Inv, TypeOK, AtRest, locks
  <2> QED
    BY <2>1, <2>2
<1>3. loop.carry <= owed[loop.doc] /\ doubt[loop.doc].to = "none" /\ doubt[loop.doc].charge = 0
  <2>1. CASE SwapCommits
    BY <2>1, <1>1, SectionFacts DEF SwapCommits, OnLoop, Inv, CarryInv, AttemptInv, Settling, LockInv
  <2>2. CASE ErrWriteLands
    BY <2>2, <1>1, SectionFacts DEF ErrWriteLands, OnLoop, Inv, CarryInv
  <2> QED
    BY <2>1, <2>2
<1>4. TypeOK'
  BY TypeSection DEF Section
<1>5. /\ loop' = Idle
      /\ loop.task \in Tasks
      /\ task'[loop.task] = NoTask
      /\ \A u \in Tasks \ {loop.task} : task'[u] = task[u] /\ task'[u].pc # "onloop"
  BY <1>1, <1>2, EndTaskFrame
<1>6. \A u \in Tasks \ {loop.task} : task[u].doc # loop.doc
  BY <1>1, SectionFacts DEF Inv, AttemptInv
<1>7. LoopInv' /\ TaskInv' /\ LockInv'
  BY <1>1, <1>2, <1>5, SectionFacts DEF Inv, LoopInv, TaskInv, LockInv, Idle, NoTask, WithTask
<1>8. AttemptInv'
  BY <1>1, <1>2, <1>5, <1>6, SectionFacts
     DEF Inv, AttemptInv, TaskInv, Settling, Awaiting, Idle, NoTask
<1>9. PaidInv'
  BY <1>1, <1>2, <1>5, <1>6, SectionFacts DEF Inv, PaidInv, TaskInv, Awaiting, NoTask
<1>10. CarryInv' /\ NeverOvercharged'
  BY <1>1, <1>2, <1>3, <1>5, SectionFacts DEF Inv, CarryInv, NeverOvercharged, Idle
<1> QED
  BY <1>4, <1>7, <1>8, <1>9, <1>10 DEF Inv

\* An error write that skips, raises or gives up ends the attempt uncharged.
LEMMA InvErrWriteEnds ==
  ASSUME Inv, ErrWriteSkips \/ ErrWriteLost \/ ErrWriteRaises
  PROVE  Inv'
<1>1. loop.at = "errWrite" /\ loop.at \in WithTask /\ loop.at # "idle"
  BY DEF ErrWriteSkips, ErrWriteLost, ErrWriteRaises, OnLoop, WithTask
<1> DEFINE tx == [to |-> "error", new |-> invs[loop.doc], charge |-> loop.carry]
<1>2. /\ UNCHANGED <<up, status, owed>>
      /\ \/ UNCHANGED <<lock, doubt>>
         \/ status[loop.doc] = "processing" /\ CommitLost(loop.doc, tx)
      /\ \/ EndTask
         \/ /\ UNCHANGED task
            /\ loop'.at = "errWrite" /\ loop'.doc = loop.doc /\ loop'.task = loop.task
            /\ loop'.carry = loop.carry
  BY <1>1 DEF ErrWriteSkips, ErrWriteLost, ErrWriteRaises, rows, locks, Inv, TypeOK, LoopT
<1>3. TypeOK'
  BY TypeSection DEF Section
<1>t. tx \in DoubtT /\ tx.to = "error" /\ tx.charge = loop.carry /\ tx.to # "none"
  BY <1>1, SectionFacts DEF Inv, TypeOK, DoubtT
<1> HIDE DEF tx
<1>4. /\ LockInv'
      /\ \A d \in Docs : doubt'[d].charge <= owed[d]
      /\ \A d \in Docs : doubt'[d].to \in {doubt[d].to, "error"}
      /\ \A d \in Docs \ {loop.doc} : doubt'[d] = doubt[d]
  <2>1. CASE UNCHANGED <<lock, doubt>>
    BY <2>1 DEF Inv, LockInv, CarryInv
  <2>2. CASE status[loop.doc] = "processing" /\ CommitLost(loop.doc, tx)
    <3>1. /\ LockInv'
          /\ \A e \in Docs \ {loop.doc} : doubt'[e] = doubt[e]
          /\ doubt'[loop.doc] = doubt[loop.doc] \/ doubt'[loop.doc] = tx
      BY <2>2, <1>1, <1>t, CommitLostFrame, SectionFacts
    <3> QED
      BY <3>1, <2>2, <1>1, <1>t DEF Inv, CarryInv
  <2> QED
    BY <1>2, <2>1, <2>2
<1>5. \A t \in Tasks : task[t].pc \in Awaiting => task[t].doc # loop.doc
  BY <1>1, SectionFacts DEF Inv, AttemptInv, Awaiting
<1>6. CASE EndTask
  <2>1. /\ loop' = Idle
        /\ loop.task \in Tasks
        /\ task'[loop.task] = NoTask
        /\ \A u \in Tasks \ {loop.task} : task'[u] = task[u] /\ task'[u].pc # "onloop"
    BY <1>1, <1>6, EndTaskFrame
  <2>2. LoopInv' /\ TaskInv'
    BY <1>1, <1>2, <2>1, SectionFacts DEF Inv, LoopInv, TaskInv, Idle, NoTask, WithTask
  <2>3. AttemptInv'
    BY <1>1, <1>2, <1>4, <1>5, <2>1, SectionFacts
       DEF Inv, AttemptInv, TaskInv, Settling, Awaiting, Idle, NoTask
  <2>4. PaidInv' /\ NeverOvercharged'
    BY <1>2, <2>1 DEF Inv, PaidInv, NeverOvercharged, NoTask, Awaiting
  <2>5. CarryInv'
    BY <1>2, <1>4, <2>1 DEF CarryInv, Idle
  <2> QED
    BY <1>3, <1>4, <2>2, <2>3, <2>4, <2>5 DEF Inv
<1>7. CASE /\ UNCHANGED task
           /\ loop'.at = "errWrite" /\ loop'.doc = loop.doc /\ loop'.task = loop.task
           /\ loop'.carry = loop.carry
  <2>1. LoopInv' /\ TaskInv'
    BY <1>1, <1>2, <1>7 DEF Inv, LoopInv, TaskInv, WithTask
  <2>2. AttemptInv'
    BY <1>1, <1>2, <1>4, <1>5, <1>7, SectionFacts DEF Inv, AttemptInv, TaskInv, Settling, Awaiting
  <2>3. PaidInv' /\ NeverOvercharged'
    BY <1>2, <1>7 DEF Inv, PaidInv, NeverOvercharged
  <2>4. CarryInv'
    BY <1>1, <1>2, <1>4, <1>7 DEF Inv, CarryInv
  <2> QED
    BY <1>3, <1>4, <2>1, <2>2, <2>3, <2>4 DEF Inv
<1> QED
  BY <1>2, <1>6, <1>7

\* The section on the event loop preserves the invariant.
LEMMA InvSection ==
  ASSUME Inv, Section
  PROVE  Inv'
BY InvGuardTakes, InvGuardEnds, InvReleaseToTask, InvLockRow, InvPhaseBFails, InvSettles,
   InvErrWriteEnds DEF Section

\* Arrivals start a guard, insert a row or only add a request.
LEMMA InvArrival ==
  ASSUME Inv, Arrival
  PROVE  Inv'
<1>1. TypeOK'
  BY TypeArrival
<1>2. /\ UNCHANGED <<up, owed, lock, doubt, task>>
      /\ \A d \in Docs : status'[d] = status[d]
                         \/ (status[d] = "absent" /\ status'[d] = "pending" /\ loop.at = "idle")
      /\ loop' = loop \/ (up /\ loop.at = "idle" /\ loop'.at = "guard" /\ loop'.doc \in Docs)
  BY DEF Arrival, UploadCreate, UploadCreateFails, Reparse, EnterGuard, LoopIdle, AskDeleteDoc,
         AskInvoice, AskDropProject, AskBulk, Ask, rows, locks, Inv, TypeOK
<1>3. \A t \in Tasks : task[t].doc \in Docs \cup {None}
  BY DEF Inv, TypeOK, TaskT
<1>4. LoopInv' /\ TaskInv' /\ LockInv'
  BY <1>2 DEF Inv, LoopInv, TaskInv, LockInv, WithTask
<1>5. AttemptInv'
  BY <1>2, <1>3 DEF Inv, AttemptInv, TaskInv, Settling, Awaiting
<1>6. PaidInv' /\ NeverOvercharged'
  BY <1>2 DEF Inv, PaidInv, NeverOvercharged
<1>7. CarryInv'
  BY <1>2 DEF Inv, CarryInv, LoopInv
<1> QED
  BY <1>1, <1>4, <1>5, <1>6, <1>7 DEF Inv

\* What the server finishes late preserves the invariant.
LEMMA InvServer ==
  ASSUME Inv, NEW d \in Docs, ServerCommits(d) \/ ServerRollsBack(d)
  PROVE  Inv'
<1>1. TypeOK'
  BY TypeServer DEF Inv
<1>2. /\ doubt[d].to \in {"processing", "parsed", "error"}
      /\ doubt' = [doubt EXCEPT ![d] = NoDoubt]
      /\ lock' = [lock EXCEPT ![d] = Free]
      /\ UNCHANGED <<up, loop, task>>
      /\ \A e \in Docs \ {d} : status'[e] = status[e] /\ owed'[e] = owed[e]
      /\ \/ UNCHANGED <<status, owed>>
         \/ /\ status'[d] = doubt[d].to
            /\ owed'[d] = IF doubt[d].to = "processing" THEN 0 ELSE owed[d] - doubt[d].charge
  BY DEF ServerCommits, ServerRollsBack, Charge, rows, Inv, TypeOK, DoubtT
<1>3. /\ \A e \in Docs : /\ owed[e] \in Int /\ owed[e] >= 0
                         /\ doubt[e].charge \in 0..2 /\ doubt[e].charge <= owed[e]
      /\ \A t \in Tasks : task[t].doc \in Docs \cup {None}
      /\ Free # ServerTx /\ None \notin Docs
      /\ lock \in [Docs -> Requests \cup {Free, LoopTx, ServerTx}]
      /\ doubt \in [Docs -> DoubtT]
  BY ConstantsAssumption
     DEF Inv, TypeOK, DoubtT, TaskT, NeverOvercharged, CarryInv, Free, ServerTx
<1>4. \A t \in Tasks : task[t].pc \in Awaiting => task[t].doc # d
  BY <1>2 DEF Inv, AttemptInv
<1>5. loop.at \in {"release", "lock", "swap"} => loop.doc # d
  BY <1>2 DEF Inv, AttemptInv, Settling
<1>6. LoopInv' /\ TaskInv'
  BY <1>2 DEF Inv, LoopInv, TaskInv
<1>7. LockInv'
  BY <1>2, <1>3 DEF Inv, LockInv, NoDoubt
<1>8. AttemptInv'
  <2>1. ASSUME NEW t \in Tasks, task[t].doc = d, task[t].pc # "none"
        PROVE  doubt[d].to \notin {"processing"}
    BY <2>1, <1>3 DEF Inv, AttemptInv
  <2> QED
    BY <1>2, <1>3, <1>4, <1>5, <2>1 DEF Inv, AttemptInv, TaskInv, Settling, Awaiting, NoDoubt
<1>9. PaidInv'
  BY <1>2, <1>3, <1>4 DEF Inv, PaidInv, TaskInv, Awaiting
<1>10. NeverOvercharged'
  BY <1>2, <1>3 DEF Inv, NeverOvercharged
<1>11. CarryInv'
  <2>1. loop.at = "errWrite" /\ loop.doc = d => doubt[d].to # "processing"
    BY <1>3 DEF Inv, AttemptInv, LoopInv, WithTask
  <2>2. \A e \in Docs : doubt'[e].charge <= owed'[e]
    BY <1>2, <1>3 DEF NoDoubt
  <2> QED
    BY <1>2, <1>3, <1>5, <2>1, <2>2 DEF Inv, CarryInv, LoopInv
<1> QED
  BY <1>1, <1>6, <1>7, <1>8, <1>9, <1>10, <1>11 DEF Inv

\* A crash takes every attempt with it.
LEMMA InvCrash ==
  ASSUME Inv, Crash
  PROVE  Inv'
<1>1. TypeOK'
  BY TypeCrash
<1>2. /\ loop' = Idle /\ UNCHANGED <<status, owed>>
      /\ \A t \in Tasks : task'[t] = NoTask
  BY DEF Crash
<1>3. LoopInv' /\ TaskInv' /\ AttemptInv' /\ PaidInv' /\ NeverOvercharged'
  BY <1>2 DEF Inv, LoopInv, TaskInv, AttemptInv, PaidInv, NeverOvercharged, Settling, Awaiting,
              Idle, NoTask, WithTask
<1> DEFINE kept == [d \in Docs |-> IF lock[d] = ServerTx THEN ServerTx ELSE Free]
<1>4. \/ lock' = kept /\ UNCHANGED doubt
      \/ /\ loop.doc \in Docs /\ lock[loop.doc] # ServerTx
         /\ \E tx \in InFlight : /\ lock' = [kept EXCEPT ![loop.doc] = ServerTx]
                                 /\ doubt' = [doubt EXCEPT ![loop.doc] = tx]
  BY DEF Crash, Inv, TypeOK, LoopT, LoopTx, Free, ServerTx
<1>5. ASSUME NEW tx \in InFlight, loop.doc \in Docs
      PROVE  tx.to # "none" /\ tx.charge <= owed[loop.doc]
  <2>1. owed[loop.doc] \in Int /\ owed[loop.doc] >= 0
    BY <1>5 DEF Inv, TypeOK, NeverOvercharged
  <2>2. \/ tx.to = "processing" /\ tx.charge = 0
        \/ loop.at = "swap" /\ tx.to = "parsed" /\ tx.charge = loop.carry
        \/ loop.at = "errWrite" /\ status[loop.doc] = "processing"
             /\ tx.to = "error" /\ tx.charge = loop.carry
    BY <1>5 DEF InFlight
  <2> QED
    BY <2>1, <2>2 DEF Inv, CarryInv
<1>6. LockInv' /\ CarryInv'
  <2>1. CASE lock' = kept /\ UNCHANGED doubt
    BY <2>1, <1>2 DEF Inv, LockInv, CarryInv, Idle, Free, ServerTx
  <2>2. CASE ~(lock' = kept /\ UNCHANGED doubt)
    <3>1. PICK tx \in InFlight : /\ lock' = [kept EXCEPT ![loop.doc] = ServerTx]
                                 /\ doubt' = [doubt EXCEPT ![loop.doc] = tx]
      BY <1>4, <2>2
    <3>2. loop.doc \in Docs
      BY <1>4, <2>2
    <3>3. doubt \in [Docs -> DoubtT] /\ tx.to # "none" /\ tx.charge <= owed[loop.doc]
      BY <1>5, <3>2 DEF Inv, TypeOK
    <3> QED
      BY <3>1, <3>2, <3>3, <1>2 DEF Inv, LockInv, CarryInv, Idle, Free, ServerTx
  <2> QED
    BY <2>1, <2>2
<1> QED
  BY <1>1, <1>3, <1>6 DEF Inv

\* The sweep starts from a process without attempts.
LEMMA InvRestart ==
  ASSUME Inv, Restart
  PROVE  Inv'
<1>1. TypeOK'
  BY TypeCrash
<1>2. /\ ~up
      /\ UNCHANGED <<owed, lock, doubt, loop, task>>
  BY DEF Restart, locks
<1>3. loop.at = "idle" /\ \A t \in Tasks : task[t].pc = "none"
  BY <1>2 DEF Inv, LoopInv, TaskInv
<1>4. LoopInv' /\ TaskInv' /\ LockInv' /\ AttemptInv'
  BY <1>2, <1>3 DEF Inv, LoopInv, TaskInv, LockInv, AttemptInv, Settling, Awaiting, WithTask
<1>5. PaidInv' /\ CarryInv' /\ NeverOvercharged'
  BY <1>2, <1>3 DEF Inv, PaidInv, CarryInv, NeverOvercharged, Awaiting
<1> QED
  BY <1>1, <1>4, <1>5 DEF Inv

-----------------------------------------------------------------------------
(* The theorems. *)

\* The parts of Inv support each other: it holds in every reachable state.
THEOREM Invariance == Spec => []Inv
<1>1. Init => Inv
  BY TypeInit
     DEF Init, Inv, LoopInv, TaskInv, LockInv, AttemptInv, PaidInv, CarryInv, NeverOvercharged,
         Settling, Awaiting, WithTask, Idle, NoTask, NoDoubt, Free, ServerTx
<1>2. Inv /\ [Next]_vars => Inv'
  <2>1. ASSUME Inv, Next
        PROVE  Inv'
    BY <2>1, InvSection, InvTask, InvArrival, InvRequest, InvServer, InvCrash, InvRestart DEF Next
  <2>2. ASSUME Inv, UNCHANGED vars
        PROVE  Inv'
    BY <2>2 DEF vars, rows, locks, counts, Inv, TypeOK, LoopInv, TaskInv, LockInv, AttemptInv,
                PaidInv, CarryInv, NeverOvercharged, Settling
  <2> QED
    BY <2>1, <2>2
<1> QED
  BY <1>1, <1>2, PTL DEF Spec

\* Type correctness of the whole model.
THEOREM TypeCorrect == Spec => []TypeOK
BY Invariance, PTL DEF Inv

\* Whatever the clicks, the crashes, the cancellations and the commits whose
\* outcome is unknown: a document has one attempt at a time.
THEOREM SingleAttempt == Spec => []OneAttempt
<1>1. Inv => OneAttempt
  <2> SUFFICES ASSUME Inv, NEW d \in Docs
               PROVE  /\ Cardinality(Attempt(d)) <= 1
                      /\ \A t \in Attempt(d) :
                           task[t].pc # "onloop" => status[d] \in {"processing", "gone"}
                      /\ Attempt(d) # {} => ~(loop.at = "release" /\ loop.doc = d)
    BY DEF OneAttempt
  <2>1. \A t \in Attempt(d) : t \in Tasks /\ task[t].doc = d /\ task[t].pc # "none"
    BY ConstantsAssumption DEF Attempt, Inv, TaskInv
  <2>2. Attempt(d) = {} \/ \E t : Attempt(d) = {t}
    <3>1. \A t, u \in Attempt(d) : t = u
      BY <2>1 DEF Inv, AttemptInv
    <3> QED
      BY <3>1
  <2>3. Cardinality(Attempt(d)) <= 1
    <3>1. Cardinality({}) = 0 /\ \A t : Cardinality({t}) = 1
      BY FS_EmptySet, FS_Singleton
    <3>2. Cardinality(Attempt(d)) \in {0, 1}
      BY <2>2, <3>1
    <3> QED
      BY <3>2
  <2>4. \A t \in Attempt(d) :
          task[t].pc # "onloop" => status[d] \in {"processing", "gone"}
    BY <2>1 DEF Inv, TypeOK, TaskT, AttemptInv
  <2>5. Attempt(d) # {} => ~(loop.at = "release" /\ loop.doc = d)
    BY <2>1 DEF Inv, AttemptInv
  <2> QED
    BY <2>3, <2>4, <2>5
<1> QED
  BY <1>1, Invariance, PTL

\* No attempt is charged for a call it did not pay for, or twice for one.
THEOREM ChargedAtMostOnce == Spec => []NeverOvercharged
BY Invariance, PTL DEF Inv

-----------------------------------------------------------------------------
(* Rows are locked in ascending order.                                      *)

\* A set of numbers that is not empty has a lowest one (< is well founded).
LEMMA LowestIsLowest ==
  ASSUME NEW S \in SUBSET Nat, S # {}
  PROVE  Lowest(S) \in S /\ \A e \in S : Lowest(S) <= e
<1> DEFINE Less == OpToRel(<, Nat)
<1>1. \A x, y \in Nat : <<x, y>> \in Less <=> x < y
  BY DEF OpToRel
<1>2. IsWellFoundedOn(Less, Nat)
  BY NatLessThanWellFounded
<1> HIDE DEF Less
<1>3. PICK x \in S : \A y \in S : ~ (<<y, x>> \in Less)
  BY <1>2, WFMin
<1>4. ASSUME NEW e \in S PROVE x <= e
  <2>1. x \in Nat /\ e \in Nat /\ ~ (e < x)
    BY <1>1, <1>3
  <2> QED BY <2>1
<1> QED BY <1>3, <1>4 DEF Lowest

\* Whoever is not a worker thread takes no row in the name of one.
LEMMA OthersTakeNoRow ==
  ASSUME Inv, NEW r \in Requests, NEW d \in Docs, lock'[d] = r,
         \/ Section
         \/ \E t \in Tasks : TaskStep(t)
         \/ \E e \in Docs : ServerCommits(e) \/ ServerRollsBack(e)
         \/ Restart
  PROVE  lock[d] = r /\ UNCHANGED req
<1>1. r \notin {Free, LoopTx, ServerTx} /\ lock \in [Docs -> Requests \cup {Free, LoopTx, ServerTx}]
  BY ConstantsAssumption DEF Inv, TypeOK
<1>2. ASSUME NEW e, NEW tx, CommitLost(e, tx) PROVE lock[d] = r
  BY <1>1, <1>2 DEF CommitLost
<1>3. CASE Section
  <2>1. CASE \/ GuardTakes \/ GuardRefuses \/ ReleaseToTask \/ ReleaseFails
             \/ LockRowRefuses \/ LockRowFails
             \/ ErrWriteLands \/ ErrWriteSkips \/ ErrWriteRaises
    BY <2>1 DEF GuardTakes, GuardRefuses, ReleaseToTask, ReleaseFails, LockRowRefuses,
                LockRowFails, ErrWriteLands, ErrWriteSkips, ErrWriteRaises, ToErrWriteFromB, locks
  <2>2. CASE LockRow \/ SwapCommits \/ SwapFails
    BY <1>1, <2>2 DEF LockRow, SwapCommits, SwapFails, ToErrWriteFromB
  <2>3. CASE GuardFails \/ SwapInDoubt \/ ErrWriteLost
    BY <1>2, <2>3 DEF GuardFails, SwapInDoubt, ErrWriteLost, locks
  <2> QED BY <1>3, <2>1, <2>2, <2>3 DEF Section
<1>4. ASSUME NEW t \in Tasks, TaskStep(t) PROVE lock[d] = r /\ UNCHANGED req
  BY <1>4 DEF TaskStep, TakeSlot, Fetch, DetectPaid, DetectFails, Raster, Store, LlmParsed,
              LlmRejected, LlmFails, LlmOddUsage, Cancel, FailOnLoop, Suspend, locks
<1>5. ASSUME NEW e \in Docs, ServerCommits(e) \/ ServerRollsBack(e)
      PROVE lock[d] = r /\ UNCHANGED req
  BY <1>1, <1>5 DEF ServerCommits, ServerRollsBack
<1>6. CASE Restart
  BY <1>6 DEF Restart, locks
<1> QED BY <1>3, <1>4, <1>5, <1>6

\* A new request has no row yet.
LEMMA ArrivalAsks ==
  ASSUME Inv, Arrival
  PROVE  /\ UNCHANGED <<lock, doubt>>
         /\ \/ UNCHANGED req
            \/ \E r \in Requests :
                 /\ req[r].pc = "none"
                 /\ \A q \in Requests \ {r} : req'[q] = req[q]
<1>1. CASE \E d \in Docs : UploadCreate(d) \/ UploadCreateFails(d)
  BY <1>1 DEF UploadCreate, UploadCreateFails, locks
<1>2. CASE \E d \in Docs, m \in Modes : Reparse(d, m)
  BY <1>2 DEF Reparse, locks
<1>3. ASSUME NEW r \in Requests, NEW kind, NEW ids, NEW docs, Ask(r, kind, ids, docs)
      PROVE  /\ UNCHANGED <<lock, doubt>> /\ req[r].pc = "none"
             /\ \A q \in Requests \ {r} : req'[q] = req[q]
  BY <1>3 DEF Ask, locks, Inv, TypeOK
<1>4. CASE \E r \in Requests, d \in Docs :
             AskDeleteDoc(r, d) \/ \E i \in invs[d] : AskInvoice(r, d, i)
  BY <1>3, <1>4 DEF AskDeleteDoc, AskInvoice
<1>5. CASE \E r \in Requests : AskDropProject(r) \/ \E ids \in SUBSET Invoices : AskBulk(r, ids)
  BY <1>3, <1>5 DEF AskDropProject, AskBulk
<1> QED BY <1>1, <1>2, <1>4, <1>5 DEF Arrival

\* A request that locks a row locks its lowest one; any other that ends gives
\* all its rows back.
LEMMA RequestLocks ==
  ASSUME Inv, NEW r \in Requests, RequestStep(r)
  PROVE  /\ \A q \in Requests \ {r} : req'[q] = req[q]
         /\ \A q \in Requests \ {r}, d \in Docs : lock'[d] = q => lock[d] = q
         /\ \/ \A d \in Docs : lock'[d] # r
            \/ /\ req'[r].pc # "none"
               /\ req'[r].todo = req[r].todo
               /\ \A d \in Docs : lock'[d] = r => lock[d] = r
            \/ /\ req'[r].pc # "none" /\ req[r].todo # {}
               /\ req'[r].todo = req[r].todo \ {NextToLock(r)}
               /\ \A d \in Docs : lock'[d] = r => lock[d] = r \/ d = NextToLock(r)
<1>1. r \notin {Free, LoopTx, ServerTx} /\ lock \in [Docs -> Requests \cup {Free, LoopTx, ServerTx}]
  BY ConstantsAssumption DEF Inv, TypeOK
<1>2. req \in [Requests -> ReqT]
  BY DEF Inv, TypeOK
<1>3. CASE LockDoc(r)
  <2>1. req'[r].pc \in {"locking", "refused"} /\ req'[r].todo = req[r].todo \ {NextToLock(r)}
    BY <1>2, <1>3 DEF LockDoc, ReqT
  <2> QED BY <1>1, <1>2, <1>3, <2>1 DEF LockDoc
<1>4. CASE Refuse(r)
  <2>1. req'[r].pc = "refused" /\ req'[r].todo = req[r].todo
    BY <1>2, <1>4 DEF Refuse, ReqT
  <2> QED BY <1>2, <1>4, <2>1 DEF Refuse, locks
<1>6. CASE DropInvoices(r)
  <2>1. req'[r].pc = "deleting" /\ req'[r].todo = req[r].todo
    BY <1>2, <1>6 DEF DropInvoices, ReqT
  <2> QED BY <1>2, <1>6, <2>1 DEF DropInvoices, locks
<1>7. CASE DropDoc(r)
  <2>1. req'[r].pc = "deleting" /\ req'[r].todo = req[r].todo \ {NextToLock(r)}
    BY <1>2, <1>7 DEF DropDoc, ReqT
  <2> QED BY <1>1, <1>2, <1>7, <2>1 DEF DropDoc, Unblocked
<1>5. CASE Done(r)
  <2>1. \A d \in Docs : lock'[d] = IF lock[d] = r THEN Free ELSE lock[d]
    BY <1>5 DEF Done, Unlock
  <2>2. \A q \in Requests \ {r} : req'[q] = req[q]
    BY <1>2, <1>5 DEF Done
  <2> QED BY ConstantsAssumption, <1>1, <2>1, <2>2
<1> QED
  BY <1>3, <1>4, <1>5, <1>6, <1>7 DEF RequestStep, CloseSession, CommitEdit, CommitVerify,
     CommitUnverify, CommitDelete, CommitBulk, CommitDeleteDoc, CommitDrop, DropFails,
     DeadlockVictim

\* Requests take the rows of documents in ascending order, one at a time
\* (routers/invoices.py:501).
THEOREM OrderInvariance == Spec => []OrderInv
<1>1. Init => OrderInv
  BY ConstantsAssumption DEF Init, OrderInv
<1>2. Inv /\ OrderInv /\ [Next]_vars => OrderInv'
  <2> SUFFICES ASSUME Inv, OrderInv, [Next]_vars,
                      NEW q \in Requests, NEW d \in Docs, lock'[d] = q
               PROVE  req'[q].pc # "none" /\ \A e \in req'[q].todo : d < e
    BY DEF OrderInv
  <2>0. lock[d] = q => req[q].pc # "none" /\ \A e \in req[q].todo : d < e
    BY DEF OrderInv
  <2>1. CASE \/ Section
             \/ \E t \in Tasks : TaskStep(t)
             \/ \E e \in Docs : ServerCommits(e) \/ ServerRollsBack(e)
             \/ Restart
    BY <2>0, <2>1, OthersTakeNoRow
  <2>2. CASE Arrival
    BY <2>0, <2>2, ArrivalAsks
  <2>3. ASSUME NEW r \in Requests, RequestStep(r)
        PROVE  req'[q].pc # "none" /\ \A e \in req'[q].todo : d < e
    <3>1. CASE q # r
      BY <2>0, <2>3, <3>1, RequestLocks
    <3>2. CASE /\ q = r /\ req'[r].pc # "none" /\ req'[r].todo = req[r].todo
               /\ lock[d] = r
      BY <2>0, <3>2
    <3>3. CASE /\ q = r /\ req'[r].pc # "none" /\ req[r].todo # {}
               /\ req'[r].todo = req[r].todo \ {NextToLock(r)}
               /\ lock[d] = r \/ d = NextToLock(r)
      <4>1. req[r].todo \in SUBSET Nat
        BY ConstantsAssumption DEF Inv, TypeOK, ReqT
      <4>2. /\ NextToLock(r) \in Nat
            /\ \A e \in req[r].todo : e \in Nat /\ NextToLock(r) <= e
        BY <3>3, <4>1, LowestIsLowest DEF NextToLock
      <4>3. ASSUME NEW e \in req'[r].todo PROVE d < e
        <5>1. e \in req[r].todo /\ e # NextToLock(r) BY <3>3
        <5> QED BY <2>0, <3>3, <4>2, <5>1
      <4> QED BY <3>3, <4>3
    <3> QED BY <2>3, <3>1, <3>2, <3>3, RequestLocks
  <2>4. CASE Crash
    BY <2>4, ConstantsAssumption DEF Crash, Inv, TypeOK
  <2>5. CASE UNCHANGED vars
    BY <2>0, <2>5 DEF vars, locks
  <2> QED BY <2>1, <2>2, <2>3, <2>4, <2>5 DEF Next
<1> QED BY <1>1, <1>2, Invariance, PTL DEF Spec

\* Only the transactions of requests change what a request is about.
LEMMA OthersAskNothing ==
  ASSUME \/ Section
         \/ \E t \in Tasks : TaskStep(t)
         \/ \E d \in Docs : ServerCommits(d) \/ ServerRollsBack(d)
         \/ Restart
  PROVE  UNCHANGED req
<1>1. CASE Section
  BY <1>1 DEF Section, GuardTakes, GuardRefuses, GuardFails, ReleaseToTask, ReleaseFails,
     LockRow, LockRowRefuses, LockRowFails, SwapCommits, SwapFails, SwapInDoubt, ErrWriteLands,
     ErrWriteSkips, ErrWriteLost, ErrWriteRaises, ToErrWriteFromB
<1>2. ASSUME NEW t \in Tasks, TaskStep(t) PROVE UNCHANGED req
  BY <1>2 DEF TaskStep, TakeSlot, Fetch, DetectPaid, DetectFails, Raster, Store, LlmParsed,
              LlmRejected, LlmFails, LlmOddUsage, Cancel, FailOnLoop, Suspend
<1>3. ASSUME NEW d \in Docs, ServerCommits(d) \/ ServerRollsBack(d) PROVE UNCHANGED req
  BY <1>3 DEF ServerCommits, ServerRollsBack
<1>4. CASE Restart BY <1>4 DEF Restart
<1> QED BY <1>1, <1>2, <1>3, <1>4

\* A deletion of a project holds rows only once it has taken the invoices, and
\* nothing else deletes invoices ahead of its document rows
\* (crud/projects.py:39-44).
THEOREM DropInvariance == Spec => []DropInv
<1>1. Init => DropInv
  BY ConstantsAssumption DEF Init, DropInv, NoReq
<1>2. Inv /\ OrderInv /\ DropInv /\ [Next]_vars => DropInv'
  <2> SUFFICES ASSUME Inv, OrderInv, DropInv, [Next]_vars, NEW q \in Requests
               PROVE  /\ req'[q].pc = "deleting" => req'[q].kind = "drop_project"
                      /\ \A d \in Docs : lock'[d] = q /\ req'[q].kind = "drop_project" =>
                           req'[q].pc = "deleting"
    BY DEF DropInv
  <2>0. /\ req[q].pc = "deleting" => req[q].kind = "drop_project"
        /\ \A d \in Docs : lock[d] = q => req[q].pc # "none"
        /\ \A d \in Docs : lock[d] = q /\ req[q].kind = "drop_project" =>
             req[q].pc = "deleting"
        /\ req \in [Requests -> ReqT]
    BY DEF DropInv, OrderInv, Inv, TypeOK
  <2>1. CASE \/ Section
             \/ \E t \in Tasks : TaskStep(t)
             \/ \E e \in Docs : ServerCommits(e) \/ ServerRollsBack(e)
             \/ Restart
    BY <2>0, <2>1, OthersTakeNoRow, OthersAskNothing
  <2>2. CASE Arrival
    <3>1. UNCHANGED lock BY <2>2, ArrivalAsks
    <3>2. CASE req'[q] = req[q] BY <2>0, <3>1, <3>2
    <3>3. CASE req[q].pc = "none" /\ req'[q].pc # "deleting"
      BY <2>0, <3>1, <3>3
    <3>4. req'[q] = req[q] \/ (req[q].pc = "none" /\ req'[q].pc # "deleting")
      <4>1. CASE UNCHANGED req BY <4>1
      <4>2. ASSUME NEW r \in Requests, NEW kind, NEW ids, NEW docs, Ask(r, kind, ids, docs)
            PROVE  req'[q] = req[q] \/ (req[q].pc = "none" /\ req'[q].pc # "deleting")
        BY <2>0, <4>2 DEF Ask
      <4> QED
        BY <2>2, <4>1, <4>2 DEF Arrival, UploadCreate, UploadCreateFails, Reparse, AskDeleteDoc,
             AskInvoice, AskDropProject, AskBulk
    <3> QED BY <3>2, <3>3, <3>4
  <2>3. ASSUME NEW r \in Requests, RequestStep(r)
        PROVE  /\ req'[q].pc = "deleting" => req'[q].kind = "drop_project"
               /\ \A d \in Docs : lock'[d] = q /\ req'[q].kind = "drop_project" =>
                    req'[q].pc = "deleting"
    <3>1. CASE q # r BY <2>0, <2>3, <3>1, RequestLocks
    <3>2. CASE q = r /\ Done(r)
      <4>1. req'[r] = NoReq BY <2>0, <3>2 DEF Done
      <4> QED BY <3>2, <4>1 DEF NoReq
    <3>3. CASE q = r /\ LockDoc(r)
      <4>1. /\ req[r].kind # "drop_project" /\ req'[r].kind = req[r].kind
            /\ req'[r].pc \in {"locking", "refused"}
        BY <2>0, <3>3 DEF LockDoc, ReqT
      <4> QED BY <3>3, <4>1
    <3>4. CASE q = r /\ Refuse(r)
      <4>1. /\ req[r].kind # "drop_project" /\ req'[r].kind = req[r].kind
            /\ req'[r].pc = "refused"
        BY <2>0, <3>4 DEF Refuse, Locked, ReqT
      <4> QED BY <3>4, <4>1
    <3>5. CASE q = r /\ DropInvoices(r)
      BY <2>0, <3>5 DEF DropInvoices, ReqT
    <3>6. CASE q = r /\ DropDoc(r)
      BY <2>0, <3>6 DEF DropDoc, ReqT
    <3> QED
      BY <2>3, <3>1, <3>2, <3>3, <3>4, <3>5, <3>6 DEF RequestStep, CloseSession, CommitEdit,
         CommitVerify, CommitUnverify, CommitDelete, CommitBulk, CommitDeleteDoc, CommitDrop,
         DropFails, DeadlockVictim
  <2>4. CASE Crash
    BY <2>4, ConstantsAssumption DEF Crash, Inv, TypeOK, NoReq
  <2>5. CASE UNCHANGED vars
    BY <2>0, <2>5 DEF vars, locks
  <2> QED BY <2>1, <2>2, <2>3, <2>4, <2>5 DEF Next
<1> QED BY <1>1, <1>2, Invariance, OrderInvariance, PTL DEF Spec

\* Two requests wait for each other only when exactly one of them deletes the
\* project (routers/invoices.py:501-502 claims that none ever do).
THEOREM RequestsNeverDeadlock == Spec => []NoLockCycle
<1>1. Inv /\ OrderInv /\ DropInv => NoLockCycle
  <2> SUFFICES ASSUME Inv, OrderInv, DropInv, NEW r \in Requests, NEW q \in Requests,
                      WaitsFor(r, q), WaitsFor(q, r)
               PROVE  req[r].kind = "drop_project" <=> req[q].kind # "drop_project"
    BY DEF NoLockCycle
  <2>0. r # LoopTx /\ q # LoopTx
    BY ConstantsAssumption
  <2>1. ASSUME NEW a \in Requests, NEW b \in Requests, WaitsFor(a, b), WaitsFor(b, a),
               a # LoopTx, b # LoopTx,
               req[b].pc = "deleting", Writes(a) \cap req[b].ids # {}
        PROVE  req[a].kind # "drop_project" /\ req[b].kind = "drop_project"
    <3>1. req[b].kind = "drop_project" /\ req[a].pc = "locking"
      BY <2>1 DEF DropInv, Writes
    <3>2. ASSUME req[a].kind = "drop_project" PROVE FALSE
      <4>1. \A d \in Docs : lock[d] # a BY <3>1, <3>2 DEF DropInv
      <4> QED BY <2>1, <3>1, <4>1 DEF WaitsFor
    <3> QED BY <3>1, <3>2
  <2>2. ASSUME NEW d \in Docs, NEW e \in Docs, NeedsDoc(r, d), lock[d] = q,
               NeedsDoc(q, e), lock[e] = r
        PROVE  FALSE
    <3>1. /\ req[r].todo \in SUBSET Docs /\ req[r].todo # {} /\ d = NextToLock(r)
          /\ req[q].todo \in SUBSET Docs /\ req[q].todo # {} /\ e = NextToLock(q)
      BY <2>0, <2>2 DEF NeedsDoc, Inv, TypeOK, ReqT
    <3>2. d \in req[r].todo /\ e \in req[q].todo
      BY <3>1, ConstantsAssumption, LowestIsLowest DEF NextToLock
    <3>3. d < e /\ e < d
      BY <2>2, <3>2 DEF OrderInv
    <3>4. d \in Nat /\ e \in Nat BY ConstantsAssumption
    <3> QED BY <3>3, <3>4
  <2> QED BY <2>0, <2>1, <2>2 DEF WaitsFor
<1> QED BY <1>1, Invariance, OrderInvariance, DropInvariance, PTL

-----------------------------------------------------------------------------
(* No document is forgotten.                                                *)

\* A step with a failure counts it.
LEMMA FailureCounts ==
  ASSUME Inv, DbFails
  PROVE  faults' # 0
BY DEF DbFails, Inv, TypeOK

\* A section that meets no failure takes a row, starts its attempt, settles the
\* row, or passes it on to the next section of the same attempt.
LEMMA SectionWithoutFailure ==
  ASSUME Inv, Section, faults' = 0
  PROVE  /\ up /\ loop.doc \in Docs /\ faults = 0 /\ UNCHANGED <<up, doubt, crashes>>
         /\ \A d \in Docs \ {loop.doc} : status'[d] = status[d]
         /\ \/ /\ GuardTakes
               /\ status'[loop.doc] = "processing"
               /\ loop'.at = "release" /\ loop'.doc = loop.doc
            \/ GuardRefuses
            \/ ReleaseToTask
            \/ ReleaseFails /\ ~Row(loop.doc)
            \/ /\ LockRow \/ LockRowRefuses \/ SwapFails
               /\ loop.at \in {"lock", "swap"} /\ loop'.at \in WithTask /\ UNCHANGED <<status, task>>
            \/ /\ SwapCommits \/ ErrWriteLands
               /\ status'[loop.doc] \in AtRest
            \/ /\ ErrWriteSkips
               /\ status[loop.doc] # "processing"
<1> USE DEF Inv, TypeOK, rows, locks, counts
<1>0. loop \in LoopT
  OBVIOUS
<1>1. CASE GuardTakes
  BY <1>0, <1>1, SectionFacts DEF GuardTakes, LoopT
<1>2. CASE GuardRefuses
  BY <1>2, SectionFacts DEF GuardRefuses
<1>3. CASE ReleaseToTask
  BY <1>3, SectionFacts DEF ReleaseToTask
<1>4. CASE ReleaseFails
  BY <1>4, SectionFacts, FailureCounts DEF ReleaseFails
<1>5. CASE LockRow
  BY <1>0, <1>5, SectionFacts DEF LockRow, OnLoop, LoopT, WithTask
<1>6. CASE LockRowRefuses \/ SwapFails
  BY <1>6, SectionFacts, FailureCounts
     DEF LockRowRefuses, SwapFails, ToErrWriteFromB, ToErrWrite, OnLoop, WithTask
<1>7. CASE SwapCommits
  BY <1>7, SectionFacts DEF SwapCommits, OnLoop, AtRest
<1>8. CASE ErrWriteLands
  BY <1>8, SectionFacts DEF ErrWriteLands, OnLoop, AtRest
<1>9. CASE ErrWriteSkips
  BY <1>9, SectionFacts DEF ErrWriteSkips, OnLoop
<1>10. CASE GuardFails \/ LockRowFails \/ SwapInDoubt \/ ErrWriteLost \/ ErrWriteRaises
  BY <1>10, FailureCounts DEF GuardFails, LockRowFails, SwapInDoubt, ErrWriteLost, ErrWriteRaises
<1> QED
  BY <1>1, <1>2, <1>3, <1>4, <1>5, <1>6, <1>7, <1>8, <1>9, <1>10 DEF Section

\* Somebody will settle d, in the next state.
Settled(d) ==
  /\ doubt'[d].to = "none"
  /\ status'[d] = "processing" =>
       (\E t \in Tasks : task'[t].doc = d) \/ (loop'.at = "release" /\ loop'.doc = d)
  /\ status'[d] = "pending" => loop'.at = "guard" /\ loop'.doc = d

LEMMA SettlerSection ==
  ASSUME Inv, SettlerInv, Section, faults' = 0, NEW d \in Docs
  PROVE  Settled(d)
<1>1. /\ up /\ loop.doc \in Docs /\ faults = 0 /\ UNCHANGED <<up, doubt>>
      /\ \A e \in Docs \ {loop.doc} : status'[e] = status[e]
  BY SectionWithoutFailure
<1>2. /\ doubt[d].to = "none"
      /\ status[d] = "processing" =>
           (\E t \in Tasks : task[t].doc = d) \/ (loop.at = "release" /\ loop.doc = d)
      /\ status[d] = "pending" => loop.at = "guard" /\ loop.doc = d
  BY <1>1 DEF SettlerInv, Attempt
<1>3. CASE GuardTakes /\ status'[loop.doc] = "processing" /\ loop'.at = "release" /\ loop'.doc = loop.doc
  BY <1>1, <1>2, <1>3 DEF GuardTakes, Settled
<1>4. CASE GuardRefuses
  BY <1>1, <1>2, <1>4 DEF GuardRefuses, Settled, rows, Row
<1>5. CASE ReleaseToTask
  <2>1. \E t \in Tasks : task'[t].doc = loop.doc
    BY <1>5 DEF ReleaseToTask, Inv, TypeOK
  <2>2. \A t \in Tasks : task[t].doc \in Docs => task'[t] = task[t]
    BY <1>5, ConstantsAssumption DEF ReleaseToTask, Inv, TypeOK, TaskInv
  <2> QED BY <1>1, <1>2, <1>5, <2>1, <2>2 DEF ReleaseToTask, Settled, rows
<1>6. CASE ReleaseFails /\ ~Row(loop.doc)
  BY <1>1, <1>2, <1>6 DEF ReleaseFails, Settled, rows, Row
<1>7. CASE loop.at \in {"lock", "swap"} /\ UNCHANGED <<status, task>>
  BY <1>1, <1>2, <1>7 DEF Settled
<1>8. CASE SwapCommits \/ ErrWriteLands \/ ErrWriteSkips
  <2>1. loop.at \in WithTask /\ EndTask
    BY <1>8 DEF SwapCommits, ErrWriteLands, ErrWriteSkips, OnLoop, WithTask
  <2>2. /\ task[loop.task].doc = loop.doc
        /\ \A t \in Tasks \ {loop.task} : task'[t] = task[t]
    BY <2>1, EndTaskFrame DEF Inv, LoopInv
  <2>3. CASE d # loop.doc
    BY <1>1, <1>2, <2>1, <2>2, <2>3 DEF Settled, WithTask
  <2>4. CASE d = loop.doc /\ status'[d] \in AtRest
    BY <1>1, <1>2, <2>4 DEF Settled, AtRest
  <2>5. CASE d = loop.doc /\ ErrWriteSkips /\ status[d] # "processing"
    BY <1>1, <1>2, <2>1, <2>5 DEF Settled, ErrWriteSkips, OnLoop, rows
  <2>6. /\ SwapCommits \/ ErrWriteLands => status'[loop.doc] \in AtRest
        /\ ErrWriteSkips => status[loop.doc] # "processing"
    BY <1>1 DEF SwapCommits, ErrWriteLands, ErrWriteSkips, AtRest, Inv, TypeOK
  <2> QED BY <1>8, <2>3, <2>4, <2>5, <2>6
<1> QED BY <1>3, <1>4, <1>5, <1>6, <1>7, <1>8, SectionWithoutFailure

\* As long as no commit outlives a restart, NoZombie.
LEMMA SettlerStep ==
  ASSUME "late_commit" \notin Mishaps, Inv, SettlerInv, [Next]_vars
  PROVE  SettlerInv'
<1> SUFFICES ASSUME up', faults' = 0, NEW d \in Docs
             PROVE  Settled(d)
  BY DEF SettlerInv, Settled, Attempt
<1>0. up /\ faults = 0 =>
      /\ doubt[d].to = "none"
      /\ status[d] = "processing" =>
           (\E t \in Tasks : task[t].doc = d) \/ (loop.at = "release" /\ loop.doc = d)
      /\ status[d] = "pending" => loop.at = "guard" /\ loop.doc = d
  BY DEF SettlerInv, Attempt
<1>1. CASE Section BY <1>1, SettlerSection
<1>2. ASSUME NEW t \in Tasks, TaskStep(t) PROVE Settled(d)
  <2>1. faults' = faults
    BY <1>2 DEF TaskStep, TakeSlot, Fetch, DetectPaid, DetectFails, Raster, Store, LlmParsed,
                LlmRejected, LlmFails, LlmOddUsage, Cancel, FailOnLoop, Suspend, counts
  <2> QED BY <1>0, <1>2, <2>1, TaskFrame DEF Settled
<1>3. CASE Arrival
  <2>1. CASE \E e \in Docs : UploadCreate(e)
    BY <1>0, <2>1 DEF UploadCreate, EnterGuard, LoopIdle, locks, Settled, Inv, TypeOK
  <2>2. CASE \E e \in Docs : UploadCreateFails(e)
    BY <2>2, FailureCounts DEF UploadCreateFails
  <2>3. CASE \E e \in Docs, m \in Modes : Reparse(e, m)
    BY <1>0, <2>3 DEF Reparse, EnterGuard, LoopIdle, rows, locks, Settled
  <2>4. ASSUME NEW r \in Requests, NEW kind, NEW ids, NEW docs, Ask(r, kind, ids, docs)
        PROVE  Settled(d)
    BY <1>0, <2>4 DEF Ask, rows, locks, counts, Settled
  <2> QED
    BY <1>3, <2>1, <2>2, <2>3, <2>4 DEF Arrival, AskDeleteDoc, AskInvoice, AskDropProject, AskBulk
<1>4. ASSUME NEW r \in Requests, RequestStep(r) PROVE Settled(d)
  <2>1. faults' = faults
    BY <1>4 DEF RequestStep, LockDoc, Refuse, CloseSession, CommitEdit, CommitVerify,
                CommitUnverify, CommitDelete, CommitBulk, CommitDeleteDoc, DropInvoices,
                DropDoc, CommitDrop, DropFails, DeadlockVictim, Done, counts
  <2> QED BY <1>0, <1>4, <2>1, RequestFrame DEF Settled
<1>5. ASSUME NEW e \in Docs, ServerCommits(e) \/ ServerRollsBack(e) PROVE Settled(d)
  BY <1>5 DEF ServerCommits, ServerRollsBack, SettlerInv, counts
<1>6. CASE Crash BY <1>6 DEF Crash
<1>7. CASE Restart
  <2>1. lock[d] = Free /\ doubt' = doubt BY <1>7 DEF Restart, locks
  <2>2. doubt[d].to = "none" BY <2>1 DEF Inv, LockInv, Free, ServerTx
  <2> QED BY <1>7, <2>1, <2>2 DEF Restart, Settled, Busy
<1>8. CASE UNCHANGED vars
  BY <1>0, <1>8 DEF vars, rows, locks, counts, Settled
<1> QED BY <1>1, <1>2, <1>3, <1>4, <1>5, <1>6, <1>7, <1>8 DEF Next

\* Where a lost commit is settled before the next start, every document that is
\* not at rest has, as long as the database answers, somebody who will bring it
\* there (processing.py, the sweep of main.py).
THEOREM NobodyForgotten ==
  ASSUME "late_commit" \notin Mishaps
  PROVE  Spec => []NoZombie
<1>1. Init => SettlerInv
  BY DEF Init, SettlerInv, NoDoubt
<1>2. Inv /\ SettlerInv /\ [Next]_vars => SettlerInv'
  BY SettlerStep
<1>3. Inv /\ SettlerInv => NoZombie
  BY DEF Inv, TypeOK, SettlerInv, NoZombie, Handler, Busy
<1> QED BY <1>1, <1>2, <1>3, Invariance, PTL DEF Spec

-----------------------------------------------------------------------------
(* Every paid call is charged.                                              *)

\* What the proofs below leave out, because it loses what was paid (see
\* phase_b_failure_loses_cost for the error of the database in phase B): a
\* malformed usage, and the cancellation of a task while its pages are turned.
NoLoss == Mishaps \cap {"odd_usage", "cancel_raster"} = {}

\* A task that resumes knows what it has paid, and d owes it.
LEMMA AccountingTask ==
  ASSUME NoLoss, Inv, AccountingInv, faults = 0, NEW t \in Tasks, TaskStep(t)
  PROVE  /\ AccountingInv'
         /\ UNCHANGED <<faults, crashes, req>>
         /\ \A d \in Docs \ {task[t].doc} : owed'[d] = owed[d]
         /\ owed'[task[t].doc] - task'[t].paid = owed[task[t].doc] - task[t].paid
<1> DEFINE Knows ==
             /\ task'[t].pc \in {"queued", "fetch", "detect"} => task'[t].paid = 0
             /\ task'[t].pc \in Awaiting \ {"raster"} => task'[t].seen = task'[t].paid
             /\ task'[t].pc = "onloop" => loop'.carry = task'[t].paid
           Owes ==
             /\ UNCHANGED <<faults, crashes, req>>
             /\ \A d \in Docs \ {task[t].doc} : owed'[d] = owed[d]
             /\ owed'[task[t].doc] - task'[t].paid = owed[task[t].doc] - task[t].paid
<1> SUFFICES Knows /\ Owes
  <2>1. \A u \in Tasks \ {t} : task'[u] = task[u] /\ task[u].pc # "onloop"
    BY TaskFrame DEF Inv, LoopInv, WithTask
  <2> QED BY <2>1 DEF AccountingInv
<1>0. /\ task \in [Tasks -> TaskT] /\ task[t] \in TaskT /\ task[t].doc \in Docs
      /\ owed \in [Docs -> Int] /\ owed[task[t].doc] \in Int
      /\ task[t].paid \in 0..1 /\ task[t].seen \in 0..1
      /\ task[t].pc \in Awaiting
      /\ task[t].pc \in {"queued", "fetch", "detect"} => task[t].paid = 0
      /\ task[t].pc \in {"raster", "store"} => task[t].paid = 1
      /\ task[t].pc \in Awaiting \ {"raster"} => task[t].seen = task[t].paid
  BY TaskFrame DEF Inv, TypeOK, TaskT, PaidInv, AccountingInv
<1>a. ASSUME NEW at \in Awaiting, Suspend(t, at), task[t].pc # "raster",
             at \in {"queued", "fetch", "detect"} => task[t].paid = 0
      PROVE  Knows /\ Owes
  BY <1>0, <1>a DEF Suspend, TaskT, Awaiting, rows, counts
<1>b. ASSUME FailOnLoop(t, task[t].paid)
      PROVE  Knows /\ Owes
  BY <1>0, <1>b DEF FailOnLoop, ToErrWrite, TaskT, Awaiting, rows, counts
<1>c. ASSUME NEW p \in 0..2, NEW s \in 0..1, NEW pc \in {"raster", "store", "llm", "onloop"},
             Move(t, pc, p, s), Pay(task[t].doc), p = task[t].paid + 1,
             pc \in {"store", "llm"} => s = p,
             pc = "onloop" => loop'.carry = p, UNCHANGED <<req, counts>>
      PROVE  Knows /\ Owes
  BY <1>0, <1>c DEF Move, Pay, TaskT, Awaiting, counts
<1> HIDE DEF Knows, Owes
<1>1. CASE TakeSlot(t) \/ Fetch(t) \/ DetectFails(t)
  BY <1>0, <1>1, <1>a, <1>b DEF TakeSlot, Fetch, DetectFails, At, Awaiting
<1>2. CASE DetectPaid(t)
  BY <1>0, <1>2, <1>c DEF DetectPaid, ToErrWrite, At
<1>3. CASE Raster(t)
  <2>1. CASE FailOnLoop(t, 1) BY <1>0, <1>3, <1>b, <2>1 DEF Raster, At
  <2>2. CASE Move(t, "store", 1, 1) /\ UNCHANGED <<up, rows, locks, loop, req, counts>>
    BY <1>0, <1>3, <2>2 DEF Raster, At, Move, TaskT, Awaiting, rows, counts, Knows, Owes
  <2> QED BY <1>3, <2>1, <2>2 DEF Raster
<1>4. CASE Store(t)
  BY <1>0, <1>4, <1>a, <1>b DEF Store, At, Awaiting
<1>5. CASE LlmParsed(t) \/ LlmRejected(t)
  BY <1>0, <1>5, <1>c DEF LlmParsed, LlmRejected, ToErrWrite, At
<1>6. CASE LlmFails(t)
  BY <1>0, <1>6, <1>b DEF LlmFails, At, Awaiting
<1>7. CASE LlmOddUsage(t)
  BY <1>7 DEF LlmOddUsage, NoLoss
<1>8. CASE Cancel(t)
  <2>1. task[t].pc \in Awaiting \ {"raster"} /\ task[t].seen = task[t].paid
    BY <1>0, <1>8 DEF Cancel, NoLoss
  <2> QED BY <1>8, <1>b, <2>1 DEF Cancel
<1> QED
  BY <1>1, <1>2, <1>3, <1>4, <1>5, <1>6, <1>7, <1>8 DEF TaskStep

\* Whoever leaves the tasks and the section alone leaves the accounting alone.
LEMMA OthersLeaveAccounts ==
  ASSUME Inv,
         \/ Arrival
         \/ \E r \in Requests : RequestStep(r)
         \/ \E d \in Docs : ServerCommits(d) \/ ServerRollsBack(d)
  PROVE  /\ UNCHANGED <<up, task, crashes>>
         /\ faults' = faults \/ faults' # 0
         /\ loop.at \in WithTask => UNCHANGED loop
<1>1. ASSUME DbFails PROVE faults' # 0 /\ UNCHANGED crashes
  BY <1>1, FailureCounts DEF DbFails
<1>2. CASE Arrival
  <2>1. ASSUME NEW r, NEW kind, NEW ids, NEW docs, Ask(r, kind, ids, docs)
        PROVE  UNCHANGED <<up, task, loop, counts>>
    BY <2>1 DEF Ask
  <2>2. ASSUME NEW d, NEW m, EnterGuard(d, m)
        PROVE  UNCHANGED <<faults, crashes>> /\ loop.at \notin WithTask
    BY <2>2 DEF EnterGuard, LoopIdle, WithTask
  <2>3. ASSUME NEW d, UploadCreate(d) \/ UploadCreateFails(d) \/ \E m \in Modes : Reparse(d, m)
        PROVE  /\ UNCHANGED <<up, task, crashes>>
               /\ faults' = faults \/ faults' # 0
               /\ loop.at \in WithTask => UNCHANGED loop
    BY <1>1, <2>2, <2>3 DEF UploadCreate, UploadCreateFails, Reparse
  <2> QED
    BY <1>2, <2>1, <2>3 DEF Arrival, AskDeleteDoc, AskInvoice, AskDropProject, AskBulk, counts
<1>3. ASSUME NEW r \in Requests, RequestStep(r) PROVE UNCHANGED <<up, task, loop, counts>>
  BY <1>3 DEF RequestStep, LockDoc, Refuse, CloseSession, CommitEdit, CommitVerify, CommitUnverify,
              CommitDelete, CommitBulk, CommitDeleteDoc, DropInvoices,
                DropDoc, CommitDrop, DropFails, DeadlockVictim, Done, counts
<1>4. ASSUME NEW d \in Docs, ServerCommits(d) \/ ServerRollsBack(d)
      PROVE  UNCHANGED <<up, task, loop, counts>>
  BY <1>4 DEF ServerCommits, ServerRollsBack, counts
<1> QED BY <1>2, <1>3, <1>4 DEF counts

LEMMA AccountingStep ==
  ASSUME NoLoss, Inv, AccountingInv, [Next]_vars
  PROVE  AccountingInv'
<1>1. CASE Section
  <2> SUFFICES ASSUME faults' = 0 PROVE AccountingInv'
    BY DEF AccountingInv
  <2>1. /\ faults = 0 /\ loop.doc \in Docs /\ loop \in LoopT /\ task \in [Tasks -> TaskT]
        /\ loop.at \in WithTask => loop.task \in Tasks /\ task[loop.task].pc = "onloop"
                                   /\ loop.carry = task[loop.task].paid
    BY <1>1, SectionWithoutFailure DEF Inv, TypeOK, AccountingInv, LoopInv
  <2>2. \A t \in Tasks : task[t].pc = "onloop" => loop.at \in WithTask /\ loop.task = t
    BY DEF Inv, LoopInv
  <2>3. CASE GuardTakes \/ GuardRefuses \/ ReleaseFails
    BY <2>1, <2>2, <2>3 DEF GuardTakes, GuardRefuses, ReleaseFails, AccountingInv, WithTask
  <2>4. CASE ReleaseToTask
    <3>1. PICK t \in Tasks :
            task' = [task EXCEPT ![t] = [pc |-> "queued", doc |-> loop.doc, mode |-> loop.mode,
                                         paid |-> 0, seen |-> 0]]
      BY <2>4 DEF ReleaseToTask
    <3>2. task'[t].pc = "queued" /\ task'[t].paid = 0 /\ task'[t].seen = 0
      BY <2>1, <3>1
    <3>3. \A u \in Tasks \ {t} : task'[u] = task[u] /\ task[u].pc # "onloop"
      BY <2>1, <2>2, <2>4, <3>1 DEF ReleaseToTask, WithTask
    <3> QED BY <2>1, <3>2, <3>3 DEF AccountingInv
  <2>5. CASE LockRow \/ LockRowRefuses \/ SwapFails
    <3>1. loop'.carry = loop.carry /\ UNCHANGED task
      BY <2>1, <2>5 DEF LockRow, LockRowRefuses, SwapFails, ToErrWriteFromB, ToErrWrite, LoopT
    <3> QED BY <2>1, <3>1 DEF AccountingInv
  <2>6. CASE SwapCommits \/ ErrWriteLands \/ ErrWriteSkips
    <3>1. loop.at \in WithTask /\ EndTask
      BY <2>6 DEF SwapCommits, ErrWriteLands, ErrWriteSkips, OnLoop, WithTask
    <3> QED BY <2>1, <3>1, EndTaskFrame DEF AccountingInv, NoTask, Awaiting
  <2> QED BY <1>1, <2>3, <2>4, <2>5, <2>6, SectionWithoutFailure
<1>2. ASSUME NEW t \in Tasks, TaskStep(t) PROVE AccountingInv'
  <2>1. CASE faults = 0 BY <1>2, <2>1, AccountingTask
  <2>2. faults' = faults
    BY <1>2 DEF TaskStep, TakeSlot, Fetch, DetectPaid, DetectFails, Raster, Store, LlmParsed,
                LlmRejected, LlmFails, LlmOddUsage, Cancel, FailOnLoop, Suspend, counts
  <2> QED BY <2>1, <2>2 DEF AccountingInv
<1>3. CASE \/ Arrival
           \/ \E r \in Requests : RequestStep(r)
           \/ \E d \in Docs : ServerCommits(d) \/ ServerRollsBack(d)
  BY <1>3, OthersLeaveAccounts DEF Inv, LoopInv, AccountingInv
<1>4. CASE Crash BY <1>4 DEF Crash, AccountingInv, NoTask, Awaiting
<1>5. CASE Restart BY <1>5 DEF Restart, Inv, TaskInv, AccountingInv, Awaiting
<1>6. CASE UNCHANGED vars BY <1>6 DEF vars, counts, AccountingInv
<1> QED BY <1>1, <1>2, <1>3, <1>4, <1>5, <1>6 DEF Next

\* The error write, the swap and the lock before it carry what their attempt has
\* paid, where nothing loses the accounting: "all error exits CARRY the cost
\* accounting of outcome" (processing.py:126).
THEOREM EveryExitCarriesCost ==
  ASSUME NoLoss, "db" \notin Mishaps
  PROVE  Spec => []ErrorCarriesCost
<1> DEFINE Faultless == faults = 0
<1>1. Init => AccountingInv /\ Faultless
  BY DEF Init, AccountingInv, NoTask, Awaiting
<1>2. Inv /\ AccountingInv /\ [Next]_vars => AccountingInv'
  BY AccountingStep
<1>3. Inv /\ Faultless /\ [Next]_vars => Faultless'
  <2> SUFFICES ASSUME Inv, faults = 0, [Next]_vars PROVE faults' = 0
    OBVIOUS
  <2> USE DEF counts
  <2>0. ~DbFails BY DEF DbFails
  <2>1. CASE Section
    BY <2>0, <2>1 DEF Section, GuardTakes, GuardRefuses, GuardFails, ReleaseToTask, ReleaseFails,
       LockRow, LockRowRefuses, LockRowFails, SwapCommits, SwapFails, SwapInDoubt, ErrWriteLands,
       ErrWriteSkips, ErrWriteLost, ErrWriteRaises
  <2>2. ASSUME NEW t \in Tasks, TaskStep(t) PROVE faults' = 0
    BY <2>2 DEF TaskStep, TakeSlot, Fetch, DetectPaid, DetectFails, Raster, Store, LlmParsed,
                LlmRejected, LlmFails, LlmOddUsage, Cancel, FailOnLoop, Suspend
  <2>3. CASE Arrival
    BY <2>0, <2>3 DEF Arrival, UploadCreate, UploadCreateFails, Reparse, EnterGuard, AskDeleteDoc,
       AskInvoice, AskDropProject, AskBulk, Ask
  <2>4. ASSUME NEW r \in Requests, RequestStep(r) PROVE faults' = 0
    BY <2>4 DEF RequestStep, LockDoc, Refuse, CloseSession, CommitEdit, CommitVerify,
                CommitUnverify, CommitDelete, CommitBulk, CommitDeleteDoc, DropInvoices,
                DropDoc, CommitDrop, DropFails, DeadlockVictim, Done
  <2>5. ASSUME NEW d \in Docs, ServerCommits(d) \/ ServerRollsBack(d) PROVE faults' = 0
    BY <2>5 DEF ServerCommits, ServerRollsBack
  <2>6. CASE Crash \/ Restart BY <2>6 DEF Crash, Restart
  <2> QED BY <2>1, <2>2, <2>3, <2>4, <2>5, <2>6 DEF Next, vars
<1>4. Inv /\ AccountingInv /\ Faultless => ErrorCarriesCost
  BY DEF Inv, LoopInv, AccountingInv, ErrorCarriesCost, WithTask
<1> HIDE DEF Faultless
<1> QED BY <1>1, <1>2, <1>3, <1>4, Invariance, PTL DEF Spec

\* A section that meets no failure settles what its attempt owes.
LEMMA BalanceSection ==
  ASSUME Inv, AccountingInv, BalanceInv, Section, crashes' = 0, faults' = 0
  PROVE  BalanceInv'
<1> USE DEF Attempt
<1>0. /\ up /\ loop.doc \in Docs /\ loop.doc # None /\ faults = 0 /\ crashes = 0
      /\ UNCHANGED <<up, doubt>>
      /\ \A d \in Docs \ {loop.doc} : status'[d] = status[d]
      /\ owed \in [Docs -> Int] /\ task \in [Tasks -> TaskT] /\ status \in [Docs -> Statuses]
  BY SectionWithoutFailure, ConstantsAssumption DEF Inv, TypeOK
<1>1. /\ \A t \in Tasks : task[t].pc # "none" =>
           owed[task[t].doc] = task[t].paid /\ status[task[t].doc] \in {"processing", "gone"}
      /\ \A d \in Docs :
           /\ doubt[d].to = "none"
           /\ (\A t \in Tasks : task[t].doc # d) /\ status[d] # "gone" => owed[d] = 0
      /\ \A t \in Tasks : /\ task[t].pc = "none" <=> task[t].doc = None
                          /\ task[t].doc \in Docs \cup {None}
  BY <1>0 DEF BalanceInv, Inv, TaskInv, TypeOK, TaskT
<1>2. CASE GuardTakes
  <2>1. /\ status' = [status EXCEPT ![loop.doc] = "processing"]
        /\ owed' = [owed EXCEPT ![loop.doc] = 0] /\ UNCHANGED task
        /\ status[loop.doc] \notin {"processing", "gone"}
    BY <1>2 DEF GuardTakes, Row
  <2>2. \A t \in Tasks : task[t].doc # loop.doc BY <1>0, <1>1, <2>1
  <2> QED BY <1>0, <1>1, <2>1, <2>2 DEF BalanceInv
<1>3. CASE GuardRefuses \/ ReleaseFails
  BY <1>0, <1>1, <1>3 DEF GuardRefuses, ReleaseFails, BalanceInv, rows
<1>4. CASE ReleaseToTask
  <2>1. PICK t \in Tasks :
          /\ task[t].pc = "none"
          /\ task' = [task EXCEPT ![t] = [pc |-> "queued", doc |-> loop.doc, mode |-> loop.mode,
                                          paid |-> 0, seen |-> 0]]
    BY <1>4 DEF ReleaseToTask
  <2>2. task'[t].doc = loop.doc /\ task'[t].paid = 0 /\ \A u \in Tasks \ {t} : task'[u] = task[u]
    BY <1>0, <2>1
  <2>3. /\ owed[loop.doc] = 0 /\ status[loop.doc] = "processing"
        /\ UNCHANGED <<status, owed>>
    BY <1>0, <1>1, <1>4 DEF ReleaseToTask, Inv, AttemptInv, Settling, Row, rows
  <2>4. ASSUME NEW d \in Docs, \A u \in Tasks : task'[u].doc # d, status[d] # "gone"
        PROVE  owed[d] = 0
    <3>1. \A u \in Tasks : task[u].doc # d
      BY ConstantsAssumption, <1>0, <1>1, <2>1, <2>2, <2>4
    <3> QED BY <1>1, <2>4, <3>1
  <2>5. ASSUME NEW u \in Tasks, task'[u].pc # "none"
        PROVE  owed[task'[u].doc] = task'[u].paid /\ status[task'[u].doc] \in {"processing", "gone"}
    BY <1>1, <2>2, <2>3, <2>5
  <2> QED BY <1>0, <1>1, <2>3, <2>4, <2>5 DEF BalanceInv
<1>5. CASE LockRow \/ LockRowRefuses \/ SwapFails
  BY <1>0, <1>1, <1>5 DEF LockRow, LockRowRefuses, SwapFails, ToErrWriteFromB, rows, BalanceInv
<1>6. CASE SwapCommits \/ ErrWriteLands \/ ErrWriteSkips
  <2>1. /\ loop.at \in WithTask /\ EndTask
        /\ loop.task \in Tasks /\ task[loop.task].pc = "onloop" /\ task[loop.task].doc = loop.doc
        /\ loop.carry = task[loop.task].paid
        /\ task'[loop.task].doc = None /\ task'[loop.task].pc = "none"
        /\ \A u \in Tasks \ {loop.task} : task'[u] = task[u] /\ task[u].doc # loop.doc
    <3>1. loop.at \in WithTask /\ EndTask
      BY <1>6 DEF SwapCommits, ErrWriteLands, ErrWriteSkips, OnLoop, WithTask
    <3>2. loop.task \in Tasks /\ task[loop.task].pc = "onloop" /\ task[loop.task].doc = loop.doc
      BY <3>1 DEF Inv, LoopInv
    <3>3. \A u \in Tasks \ {loop.task} : task[u].doc # loop.doc
      BY <3>2 DEF Inv, AttemptInv
    <3> QED BY <1>0, <3>1, <3>2, <3>3, EndTaskFrame DEF AccountingInv, NoTask
  <2>2. \A d \in Docs \ {loop.doc} : owed'[d] = owed[d]
    BY <1>0, <1>6 DEF SwapCommits, ErrWriteLands, ErrWriteSkips, Charge, rows
  <2>3. owed'[loop.doc] = 0 \/ status'[loop.doc] = "gone"
    <3>1. CASE SwapCommits \/ ErrWriteLands
      <4>1. owed'[loop.doc] = owed[loop.doc] - loop.carry /\ owed[loop.doc] = loop.carry
        BY <1>0, <1>1, <2>1, <3>1 DEF SwapCommits, ErrWriteLands, Charge
      <4>2. owed[loop.doc] \in Int BY <1>0
      <4> QED BY <4>1, <4>2
    <3>2. CASE ErrWriteSkips
      BY <1>1, <2>1, <3>2 DEF ErrWriteSkips, rows
    <3> QED BY <1>6, <3>1, <3>2
  <2> QED BY <1>0, <1>1, <2>1, <2>2, <2>3 DEF BalanceInv
<1> QED BY <1>2, <1>3, <1>4, <1>5, <1>6, SectionWithoutFailure

LEMMA BalanceStep ==
  ASSUME NoLoss, Inv, AccountingInv, BalanceInv, [Next]_vars
  PROVE  BalanceInv'
<1> USE DEF Attempt
<1>0. /\ faults \in Nat /\ crashes \in Nat /\ None \notin Docs
      /\ \A t \in Tasks : /\ task[t].pc = "none" <=> task[t].doc = None
                          /\ task[t].doc \in Docs \cup {None}
  BY ConstantsAssumption DEF Inv, TypeOK, TaskT, TaskInv
<1>1. CASE Section
  <2>1. up /\ up' = up
    BY <1>1 DEF Section, GuardTakes, GuardRefuses, GuardFails, ReleaseToTask, ReleaseFails,
       LockRow, LockRowRefuses, LockRowFails, SwapCommits, SwapFails, SwapInDoubt, ErrWriteLands,
       ErrWriteSkips, ErrWriteLost, ErrWriteRaises, OnLoop, ToErrWriteFromB
  <2>2. CASE crashes' = 0 /\ faults' = 0 BY <1>1, <2>2, BalanceSection
  <2> QED BY <2>1, <2>2 DEF BalanceInv
<1>2. ASSUME NEW t \in Tasks, TaskStep(t) PROVE BalanceInv'
  <2>1. /\ up /\ UNCHANGED <<up, status, doubt>>
        /\ task[t].pc \in Awaiting /\ task'[t].doc = task[t].doc
        /\ \A u \in Tasks \ {t} : task'[u] = task[u]
        /\ task[t].doc \in Docs
    BY <1>2, TaskFrame
  <2>2. UNCHANGED <<faults, crashes>>
    BY <1>2 DEF TaskStep, TakeSlot, Fetch, DetectPaid, DetectFails, Raster, Store, LlmParsed,
                LlmRejected, LlmFails, LlmOddUsage, Cancel, FailOnLoop, Suspend, counts
  <2>3. CASE faults = 0 /\ crashes = 0
    <3>1. /\ \A d \in Docs \ {task[t].doc} : owed'[d] = owed[d]
          /\ owed'[task[t].doc] - task'[t].paid = owed[task[t].doc] - task[t].paid
      BY <1>2, <2>3, AccountingTask
    <3>2. /\ owed[task[t].doc] = task[t].paid /\ task[t].paid \in Int
          /\ \A u \in Tasks \ {t} : task[u].doc # task[t].doc
      BY <2>1, <2>3 DEF BalanceInv, Inv, TypeOK, TaskT, AttemptInv, Awaiting
    <3>3. owed'[task[t].doc] \in Int /\ task'[t].paid \in Int
      BY <1>2, <2>1, TypeTask DEF TypeOK, TaskT
    <3>4. owed'[task[t].doc] = task'[t].paid BY <3>1, <3>2, <3>3
    <3> QED BY <1>0, <2>1, <2>2, <2>3, <3>1, <3>2, <3>4 DEF BalanceInv, Awaiting
  <2> QED BY <2>1, <2>2, <2>3 DEF BalanceInv
<1>3. CASE Arrival
  <2>1. /\ UNCHANGED <<up, task, crashes>>
        /\ faults' = faults \/ faults' # 0
    BY <1>3, OthersLeaveAccounts
  <2>2. /\ UNCHANGED <<owed, doubt>>
        /\ \A d \in Docs : status'[d] = status[d] \/ status[d] = "absent"
    BY <1>3 DEF Arrival, UploadCreate, UploadCreateFails, Reparse, EnterGuard, AskDeleteDoc,
         AskInvoice, AskDropProject, AskBulk, Ask, rows, locks, Inv, TypeOK
  <2> QED BY <1>0, <2>1, <2>2 DEF BalanceInv
<1>4. ASSUME NEW r \in Requests, RequestStep(r) PROVE BalanceInv'
  <2>1. UNCHANGED <<up, task, crashes, faults>>
    BY <1>4 DEF RequestStep, LockDoc, Refuse, CloseSession, CommitEdit, CommitVerify,
                CommitUnverify, CommitDelete, CommitBulk, CommitDeleteDoc, DropInvoices,
                DropDoc, CommitDrop, DropFails, DeadlockVictim, Done, counts
  <2>2. /\ UNCHANGED <<owed, doubt>>
        /\ \A d \in Docs : status'[d] \in {status[d], "gone"}
    BY <1>4, RequestFrame
  <2> QED BY <1>0, <2>1, <2>2 DEF BalanceInv
<1>5. ASSUME NEW d \in Docs, ServerCommits(d) \/ ServerRollsBack(d) PROVE BalanceInv'
  BY <1>5 DEF ServerCommits, ServerRollsBack, counts, BalanceInv
<1>6. CASE Crash BY <1>0, <1>6 DEF Crash, BalanceInv
<1>7. CASE Restart BY <1>0, <1>7 DEF Restart, BalanceInv
<1>8. CASE UNCHANGED vars
  BY <1>8 DEF vars, rows, locks, counts, BalanceInv
<1> QED BY <1>1, <1>2, <1>3, <1>4, <1>5, <1>6, <1>7, <1>8 DEF Next

\* Until something fails, every paid model call of a document is on its row as
\* soon as no attempt is under way: neither lost nor charged twice (design 2.3).
THEOREM EveryCallCharged ==
  ASSUME NoLoss
  PROVE  Spec => []ChargedExactlyOnce
<1>1. Init => AccountingInv /\ BalanceInv
  BY DEF Init, AccountingInv, BalanceInv, NoTask, NoDoubt, Awaiting
<1>2. Inv /\ AccountingInv /\ [Next]_vars => AccountingInv'
  BY AccountingStep
<1>3. Inv /\ AccountingInv /\ BalanceInv /\ [Next]_vars => BalanceInv'
  BY BalanceStep
<1>4. BalanceInv => ChargedExactlyOnce
  BY DEF BalanceInv, ChargedExactlyOnce
<1> QED BY <1>1, <1>2, <1>3, <1>4, Invariance, PTL DEF Spec

-----------------------------------------------------------------------------
(* The code implements DocumentLifecycle: OwnerInv says who owns a row, an  *)
(* invoice and an in-doubt commit, and makes every step a step of the       *)
(* promise or a stutter.                                                    *)

LEMMA OwnerInit == Init => OwnerInv
BY ConstantsAssumption
   DEF Init, OwnerInv, InvoiceInv, DoubtInv, SwapInv, RequestInv, Row, NoDoubt, Idle, NoReq

-----------------------------------------------------------------------------
(* The section on the loop.                                                 *)

\* The requests are undisturbed by a step that leaves them their rows and takes
\* its new invoices from the fresh ones.
LEMMA RequestsUndisturbed ==
  ASSUME OwnerInv, UNCHANGED req, fresh' \subseteq fresh,
         \A d \in Docs : lock[d] \in Requests \/ lock'[d] \in Requests => lock'[d] = lock[d],
         \A d \in Docs : /\ status'[d] = status[d] \/ lock[d] \notin Requests \/ status[d] \notin AtRest
                         /\ invs'[d] \subseteq invs[d] \cup fresh
                         /\ doubt'[d].to = "parsed" =>
                              doubt'[d] = doubt[d] \/ doubt'[d].new \subseteq fresh
  PROVE  RequestInv'
<1> SUFFICES ASSUME NEW r \in Requests
             PROVE  /\ \A d \in Docs : lock'[d] = r =>
                         req[r].pc # "none" /\ (req[r].pc = "locking" => status'[d] \in AtRest)
                    /\ req[r].pc = "locking" /\ req[r].kind # "drop_project" =>
                         /\ req[r].ids \cap fresh' = {}
                         /\ \A d \in Docs :
                              /\ doubt'[d].to = "parsed" => req[r].ids \cap doubt'[d].new = {}
                              /\ req[r].ids \cap invs'[d] # {} => d \in req[r].todo \/ lock'[d] = r
  BY DEF RequestInv, OwnerInv
<1>1. ASSUME NEW d \in Docs, lock'[d] = r
      PROVE  req[r].pc # "none" /\ (req[r].pc = "locking" => status'[d] \in AtRest)
  BY <1>1 DEF OwnerInv, RequestInv
<1>2. ASSUME req[r].pc = "locking", req[r].kind # "drop_project", NEW d \in Docs
      PROVE  /\ req[r].ids \cap fresh' = {}
             /\ doubt'[d].to = "parsed" => req[r].ids \cap doubt'[d].new = {}
             /\ req[r].ids \cap invs'[d] # {} => d \in req[r].todo \/ lock'[d] = r
  BY <1>2 DEF OwnerInv, RequestInv
<1>3. req[r].pc = "locking" /\ req[r].kind # "drop_project" => req[r].ids \cap fresh' = {}
  BY DEF OwnerInv, RequestInv
<1> QED BY <1>1, <1>2, <1>3

\* The section writes no row and puts no commit in doubt.
LEMMA OwnerQuiet ==
  ASSUME Inv, OwnerInv, UNCHANGED <<rows, doubt, req>>,
         \A d \in Docs : lock'[d] = lock[d] \/ {lock[d], lock'[d]} \subseteq {Free, LoopTx},
         loop'.at = "swap" => /\ loop'.doc \in Docs /\ lock'[loop'.doc] = LoopTx
                              /\ status[loop'.doc] = "processing"
                              /\ invs[loop'.doc] \cap verified = {}
  PROVE  OwnerInv'
<1>1. RequestInv'
  BY RequestsUndisturbed, ConstantsAssumption DEF rows
<1>2. InvoiceInv' /\ DoubtInv' /\ SwapInv'
  BY DEF rows, Row, OwnerInv, InvoiceInv, DoubtInv, SwapInv
<1> QED BY <1>1, <1>2 DEF OwnerInv

\* The row of the section changes its status, without a commit in doubt.
LEMMA OwnerStatus ==
  ASSUME Inv, OwnerInv, NEW d \in Docs, Row(d), lock[d] = Free,
         NEW s \in {"processing", "error"}, status' = [status EXCEPT ![d] = s],
         UNCHANGED <<invs, verified, fresh, locks, req>>, loop.at # "swap", loop'.at # "swap"
  PROVE  OwnerInv'
<1>1. doubt[d].to = "none" /\ lock[d] \notin Requests /\ status \in [Docs -> Statuses]
  BY ConstantsAssumption DEF Inv, LockInv, TypeOK, Free, ServerTx
<1>2. RequestInv'
  BY <1>1, RequestsUndisturbed DEF locks
<1>3. InvoiceInv' /\ DoubtInv' /\ SwapInv'
  BY <1>1 DEF locks, Row, OwnerInv, InvoiceInv, DoubtInv, SwapInv
<1> QED BY <1>2, <1>3 DEF OwnerInv

\* What may be in doubt about row d.
Doubtful(d, tx) ==
  \/ tx.to = "processing" /\ status[d] \in {"pending"} \cup AtRest /\ tx.new = invs[d]
  \/ tx.to = "error" /\ status[d] = "processing" /\ tx.new = invs[d]
  \/ /\ tx.to = "parsed" /\ status[d] = "processing" /\ invs[d] \cap verified = {}
     /\ tx.new # {} /\ tx.new \subseteq fresh /\ tx.new \cap fresh' = {}

\* A commit is lost on its way; the invoices it may have written are used up.
LEMMA OwnerLost ==
  ASSUME Inv, OwnerInv, NEW d \in Docs, NEW tx \in DoubtT,
         \/ UNCHANGED doubt
         \/ Row(d) /\ lock[d] # ServerTx /\ doubt' = [doubt EXCEPT ![d] = tx] /\ Doubtful(d, tx),
         UNCHANGED <<status, invs, verified>>, fresh' \subseteq fresh
  PROVE  InvoiceInv' /\ DoubtInv'
<1>1. doubt \in [Docs -> DoubtT] /\ invs \in [Docs -> SUBSET Invoices]
  BY DEF Inv, TypeOK
<1>2. InvoiceInv'
  BY <1>1 DEF Row, OwnerInv, InvoiceInv
<1>3. ASSUME NEW e \in Docs
      PROVE  /\ doubt'[e].to = "processing" =>
                  status[e] \in {"pending"} \cup AtRest /\ doubt'[e].new = invs[e]
             /\ doubt'[e].to = "error" => status[e] = "processing" /\ doubt'[e].new = invs[e]
             /\ doubt'[e].to = "parsed" =>
                  /\ status[e] = "processing" /\ invs[e] \cap verified = {}
                  /\ doubt'[e].new # {} /\ doubt'[e].new \cap fresh' = {}
  BY <1>1 DEF Doubtful, OwnerInv, DoubtInv
<1>4. ASSUME NEW e \in Docs, doubt'[e].to = "parsed", NEW x \in Docs
      PROVE  /\ doubt'[e].new \cap invs[x] = {}
             /\ x # e /\ doubt'[x].to = "parsed" => doubt'[e].new \cap doubt'[x].new = {}
  BY <1>1, <1>4 DEF Doubtful, OwnerInv, DoubtInv, InvoiceInv
<1> QED BY <1>2, <1>3, <1>4 DEF DoubtInv

\* A lost commit takes the row from the loop at most.
LEMMA LostLock ==
  ASSUME Inv, NEW d \in Docs, NEW tx, CommitLost(d, tx)
  PROVE  /\ \A e \in Docs : lock[e] \in Requests \/ lock'[e] \in Requests => lock'[e] = lock[e]
         /\ \/ UNCHANGED doubt
            \/ Row(d) /\ lock[d] # ServerTx /\ doubt' = [doubt EXCEPT ![d] = tx]
BY ConstantsAssumption DEF Inv, TypeOK, CommitLost, Free, LoopTx, ServerTx

LEMMA OwnerSection ==
  ASSUME Inv, OwnerInv, Section
  PROVE  OwnerInv'
<1>0. /\ loop.doc \in Docs /\ loop \in LoopT /\ loop.carry \in 0..2
      /\ lock \in [Docs -> Requests \cup {Free, LoopTx, ServerTx}]
      /\ status \in [Docs -> Statuses] /\ invs \in [Docs -> SUBSET Invoices]
      /\ fresh \subseteq Invoices
      /\ Row(loop.doc) => status[loop.doc] \in {"pending", "processing"} \cup AtRest
  <2>1. loop.at # "idle"
    BY DEF Section, GuardTakes, GuardRefuses, GuardFails, ReleaseToTask, ReleaseFails,
       LockRow, LockRowRefuses, LockRowFails, SwapCommits, SwapFails, SwapInDoubt, ErrWriteLands,
       ErrWriteSkips, ErrWriteLost, ErrWriteRaises, OnLoop
  <2> QED BY <2>1, SectionFacts DEF Inv, TypeOK, Statuses, AtRest, Row
<1>1. ASSUME Row(loop.doc), loop.at \in {"release", "lock", "swap"}
      PROVE  status[loop.doc] = "processing"
  BY <1>0, <1>1 DEF Inv, AttemptInv, Settling, Row
<1>2. CASE GuardTakes
  <2>1. loop'.at = "release" BY <1>0, <1>2 DEF GuardTakes, LoopT
  <2> QED BY <1>0, <1>2, <2>1, OwnerStatus DEF GuardTakes
<1>3. CASE ErrWriteLands
  <2>1. loop'.at = "idle" BY <1>3 DEF ErrWriteLands, EndTask, Idle
  <2> QED BY <1>0, <1>3, <2>1, OwnerStatus DEF ErrWriteLands, OnLoop
<1>4. CASE \/ GuardRefuses \/ ReleaseToTask \/ ReleaseFails \/ LockRowRefuses \/ LockRowFails
           \/ ErrWriteSkips \/ ErrWriteRaises
  <2>1. UNCHANGED <<rows, lock, doubt, req>> /\ loop'.at # "swap"
    BY <1>4 DEF GuardRefuses, ReleaseToTask, ReleaseFails, LockRowRefuses, LockRowFails,
         ErrWriteSkips, ErrWriteRaises, ToErrWriteFromB, ToErrWrite, EndTask, Idle, locks
  <2> QED BY <2>1, OwnerQuiet
<1>5. CASE LockRow
  <2>1. loop'.at = "swap" /\ loop'.doc = loop.doc BY <1>0, <1>5 DEF LockRow, LoopT
  <2>2. lock' = [lock EXCEPT ![loop.doc] = LoopTx] /\ lock[loop.doc] = Free BY <1>5 DEF LockRow
  <2> QED BY <1>0, <1>1, <1>5, <2>1, <2>2, OwnerQuiet DEF LockRow, OnLoop
<1>6. CASE SwapFails
  <2>1. loop'.at = "errWrite" BY <1>6 DEF SwapFails, ToErrWriteFromB, ToErrWrite
  <2>2. lock' = [lock EXCEPT ![loop.doc] = Free] /\ lock[loop.doc] = LoopTx
    BY <1>6 DEF SwapFails, OnLoop, OwnerInv, SwapInv
  <2> QED BY <1>0, <1>6, <2>1, <2>2, OwnerQuiet DEF SwapFails, ToErrWriteFromB
<1>7. ASSUME NEW tx \in DoubtT,
             UNCHANGED <<status, invs, verified, req>>, fresh' \subseteq fresh, loop'.at # "swap",
             CommitLost(loop.doc, tx), Row(loop.doc) => Doubtful(loop.doc, tx)
      PROVE  OwnerInv'
  <2>1. /\ \A e \in Docs : lock[e] \in Requests \/ lock'[e] \in Requests => lock'[e] = lock[e]
        /\ \/ UNCHANGED doubt
           \/ /\ Row(loop.doc) /\ lock[loop.doc] # ServerTx
              /\ doubt' = [doubt EXCEPT ![loop.doc] = tx] /\ Doubtful(loop.doc, tx)
    BY <1>0, <1>7, LostLock
  <2>2. InvoiceInv' /\ DoubtInv' BY <1>0, <1>7, <2>1, OwnerLost
  <2>3. \A e \in Docs : doubt'[e].to = "parsed" =>
          doubt'[e] = doubt[e] \/ doubt'[e].new \subseteq fresh
    BY <1>0, <2>1 DEF Doubtful, Inv, TypeOK
  <2>4. RequestInv' BY <1>7, <2>1, <2>3, RequestsUndisturbed
  <2> QED BY <1>7, <2>2, <2>4 DEF OwnerInv, SwapInv
<1>8. ASSUME UNCHANGED <<rows, lock, doubt, req>>, loop'.at # "swap"
      PROVE  OwnerInv'
  BY <1>8, OwnerQuiet
<1>9. CASE GuardFails
  <2> DEFINE tx == [to |-> "processing", new |-> invs[loop.doc], charge |-> 0]
  <2>1. tx \in DoubtT /\ tx.to = "processing" /\ tx.new = invs[loop.doc] BY <1>0 DEF DoubtT
  <2>2. UNCHANGED <<rows, req>> /\ loop'.at # "swap" BY <1>9 DEF GuardFails, Idle
  <2>3. \/ UNCHANGED locks
        \/ status[loop.doc] # "processing" /\ CommitLost(loop.doc, tx)
    BY <1>9 DEF GuardFails
  <2> HIDE DEF tx
  <2> QED BY <1>0, <1>7, <1>8, <2>1, <2>2, <2>3 DEF Doubtful, rows, locks
<1>10. CASE ErrWriteLost
  <2> DEFINE tx == [to |-> "error", new |-> invs[loop.doc], charge |-> loop.carry]
  <2>1. tx \in DoubtT /\ tx.to = "error" /\ tx.new = invs[loop.doc] BY <1>0 DEF DoubtT
  <2>2. UNCHANGED <<rows, req>> /\ loop'.at # "swap"
    BY <1>0, <1>10 DEF ErrWriteLost, OnLoop, EndTask, Idle, LoopT
  <2>3. \/ UNCHANGED locks
        \/ status[loop.doc] = "processing" /\ CommitLost(loop.doc, tx)
    BY <1>10 DEF ErrWriteLost
  <2> HIDE DEF tx
  <2> QED BY <1>0, <1>7, <1>8, <2>1, <2>2, <2>3 DEF Doubtful, rows, locks
<1>11. CASE SwapInDoubt
  <2>1. PICK new \in Replacements :
          /\ CommitLost(loop.doc, [to |-> "parsed", new |-> new, charge |-> loop.carry])
          /\ fresh' = fresh \ new
    BY <1>11 DEF SwapInDoubt
  <2> DEFINE tx == [to |-> "parsed", new |-> new, charge |-> loop.carry]
  <2>2. tx \in DoubtT /\ tx.to = "parsed" /\ tx.new = new BY <1>0 DEF DoubtT, Replacements
  <2>3. UNCHANGED <<status, invs, verified, req>> /\ loop'.at # "swap"
    BY <1>11 DEF SwapInDoubt, ToErrWrite
  <2>4. CommitLost(loop.doc, tx) BY <2>1
  <2> HIDE DEF tx
  <2>5. Row(loop.doc) => Doubtful(loop.doc, tx)
    BY <1>11, <2>1, <2>2 DEF SwapInDoubt, OnLoop, OwnerInv, SwapInv, Doubtful, Replacements
  <2> QED BY <1>7, <2>1, <2>2, <2>3, <2>4, <2>5
<1>12. CASE SwapCommits
  <2>1. PICK new \in Replacements :
          invs' = [invs EXCEPT ![loop.doc] = new] /\ fresh' = fresh \ new
    BY <1>12 DEF SwapCommits
  <2>2. /\ status' = [status EXCEPT ![loop.doc] = "parsed"]
        /\ lock' = [lock EXCEPT ![loop.doc] = Free] /\ lock[loop.doc] = LoopTx
        /\ loop'.at # "swap" /\ UNCHANGED <<verified, doubt, req>>
        /\ new \subseteq fresh /\ status[loop.doc] = "processing"
    BY <1>12, <2>1 DEF SwapCommits, OnLoop, EndTask, Idle, OwnerInv, SwapInv, Replacements
  <2>3. doubt[loop.doc].to = "none"
    BY <1>0, <2>2 DEF Inv, LockInv, LoopTx, ServerTx
  <2>4. RequestInv'
    BY <1>0, <2>1, <2>2, RequestsUndisturbed, ConstantsAssumption DEF AtRest
  <2>5. InvoiceInv' /\ SwapInv'
    BY <1>0, <2>1, <2>2, <2>3 DEF Row, OwnerInv, InvoiceInv, SwapInv
  <2>6. DoubtInv'
    BY <1>0, <2>1, <2>2, <2>3 DEF OwnerInv, DoubtInv
  <2> QED BY <2>4, <2>5, <2>6 DEF OwnerInv
<1> QED
  BY <1>2, <1>3, <1>4, <1>5, <1>6, <1>9, <1>10, <1>11, <1>12 DEF Section

-----------------------------------------------------------------------------
(* Everybody else.                                                          *)

\* A suspended task pays, and leaves rows and locks alone.
LEMMA TaskLeavesRows ==
  ASSUME Inv, NEW t \in Tasks, TaskStep(t)
  PROVE  /\ UNCHANGED <<status, invs, verified, fresh, charged, locks, req>>
         /\ loop'.at # "swap"
         /\ UNCHANGED owed \/ owed' = [owed EXCEPT ![task[t].doc] = @ + 1]
<1>1. ASSUME NEW at, Suspend(t, at)
      PROVE  UNCHANGED <<status, invs, verified, fresh, charged, owed, locks, loop, req>>
  BY <1>1 DEF Suspend, rows
<1>2. ASSUME NEW c, FailOnLoop(t, c)
      PROVE  UNCHANGED <<status, invs, verified, fresh, charged, owed, locks, req>> /\ loop'.at # "swap"
  BY <1>2 DEF FailOnLoop, ToErrWrite, rows
<1>3. loop.at # "swap" BY TaskFrame
<1> QED
  BY <1>1, <1>2, <1>3
     DEF TaskStep, TakeSlot, Fetch, DetectPaid, DetectFails, Raster, Store, LlmParsed,
         LlmRejected, LlmFails, LlmOddUsage, Cancel, Pay, ToErrWrite, rows

LEMMA OwnerTask ==
  ASSUME Inv, OwnerInv, NEW t \in Tasks, TaskStep(t)
  PROVE  OwnerInv'
<1>1. UNCHANGED <<status, invs, verified, fresh, locks, req>> /\ loop'.at # "swap"
  BY TaskLeavesRows
<1> QED BY <1>1 DEF locks, Row, OwnerInv, InvoiceInv, DoubtInv, SwapInv, RequestInv

\* A new request names invoices of the documents it is going to lock.
LEMMA OwnerAsk ==
  ASSUME Inv, OwnerInv, NEW r \in Requests, NEW kind \in AllKinds, NEW ids \in SUBSET Invoices,
         NEW docs \in SUBSET Docs, Ask(r, kind, ids, docs),
         kind # "drop_project" =>
           /\ \A i \in ids : \E d \in Docs : i \in invs[d]
           /\ \A d \in Docs : ids \cap invs[d] # {} => d \in docs,
         kind \in {"edit", "verify", "unverify", "delete"} => \E i \in Invoices : ids = {i}
  PROVE  OwnerInv'
<1>1. /\ UNCHANGED <<rows, locks, loop>> /\ req[r].pc = "none"
      /\ \A q \in Requests \ {r} : req'[q] = req[q]
      /\ req'[r] = [pc |-> "locking", kind |-> kind, ids |-> ids, todo |-> docs]
  BY DEF Ask, Inv, TypeOK
<1>2. InvoiceInv' /\ DoubtInv' /\ SwapInv'
  BY <1>1 DEF rows, locks, Row, OwnerInv, InvoiceInv, DoubtInv, SwapInv
<1>3. \A d \in Docs : lock[d] # r
  BY <1>1 DEF OwnerInv, RequestInv
<1>4. kind # "drop_project" =>
        /\ ids \cap fresh = {}
        /\ \A d \in Docs : doubt[d].to = "parsed" => ids \cap doubt[d].new = {}
  BY DEF OwnerInv, InvoiceInv, DoubtInv
<1>5. RequestInv'
  BY <1>1, <1>3, <1>4 DEF rows, locks, OwnerInv, RequestInv
<1> QED BY <1>2, <1>5 DEF OwnerInv

LEMMA OwnerArrival ==
  ASSUME Inv, OwnerInv, Arrival
  PROVE  OwnerInv'
<1>0. /\ status \in [Docs -> Statuses] /\ invs \in [Docs -> SUBSET Invoices]
      /\ loop \in LoopT
  BY DEF Inv, TypeOK
<1>1. ASSUME NEW d \in Docs, UploadCreate(d) \/ UploadCreateFails(d) PROVE OwnerInv'
  <2>1. /\ status[d] = "absent" /\ status' = [status EXCEPT ![d] = "pending"]
        /\ UNCHANGED <<invs, verified, fresh, lock, doubt, req>>
        /\ loop'.at # "swap"
    BY <1>1 DEF UploadCreate, UploadCreateFails, EnterGuard, LoopIdle, locks
  <2>2. RequestInv' BY <2>1, RequestsUndisturbed DEF AtRest
  <2>3. InvoiceInv' /\ DoubtInv' /\ SwapInv'
    BY <1>0, <2>1 DEF AtRest, Row, OwnerInv, InvoiceInv, DoubtInv, SwapInv
  <2> QED BY <2>2, <2>3 DEF OwnerInv
<1>2. ASSUME NEW d \in Docs, NEW m \in Modes, Reparse(d, m) PROVE OwnerInv'
  <2>1. UNCHANGED <<rows, lock, doubt, req>> /\ loop'.at # "swap"
    BY <1>2 DEF Reparse, EnterGuard, locks
  <2> QED BY <2>1, OwnerQuiet
<1>3. ASSUME NEW r \in Requests, NEW d \in Docs, AskDeleteDoc(r, d) PROVE OwnerInv'
  <2>1. Ask(r, "delete_doc", {}, {d}) BY <1>3 DEF AskDeleteDoc
  <2> QED BY <2>1, OwnerAsk DEF AllKinds
<1>4. ASSUME NEW r \in Requests, NEW d \in Docs, NEW i \in invs[d], AskInvoice(r, d, i) PROVE OwnerInv'
  <2>1. PICK kind \in {"edit", "verify", "unverify", "delete"} : Ask(r, kind, {i}, {d})
    BY <1>4 DEF AskInvoice
  <2>2. /\ {i} \in SUBSET Invoices /\ {d} \in SUBSET Docs /\ kind \in AllKinds
        /\ \A e \in Docs : {i} \cap invs[e] # {} => e \in {d}
    BY <1>0 DEF OwnerInv, InvoiceInv, AllKinds
  <2> QED BY <2>1, <2>2, OwnerAsk
<1>5. ASSUME NEW r \in Requests, AskDropProject(r) PROVE OwnerInv'
  <2> DEFINE ids == UNION {invs[d] : d \in Docs}
             docs == {d \in Docs : Row(d)}
  <2>1. ids \in SUBSET Invoices /\ docs \in SUBSET Docs BY <1>0
  <2>2. Ask(r, "drop_project", ids, docs) BY <1>5 DEF AskDropProject
  <2> HIDE DEF ids, docs
  <2> QED BY <2>1, <2>2, OwnerAsk DEF AllKinds
<1>6. ASSUME NEW r \in Requests, NEW ids \in SUBSET Invoices, AskBulk(r, ids) PROVE OwnerInv'
  <2> DEFINE docs == {d \in Docs : ids \cap invs[d] # {}}
  <2>1. /\ docs \in SUBSET Docs
        /\ \A i \in ids : \E d \in Docs : i \in invs[d]
        /\ \A d \in Docs : ids \cap invs[d] # {} => d \in docs
    BY <1>6 DEF AskBulk
  <2>2. Ask(r, "bulk", ids, docs) BY <1>6 DEF AskBulk
  <2> HIDE DEF docs
  <2> QED BY <2>1, <2>2, OwnerAsk DEF AllKinds
<1> QED BY <1>1, <1>2, <1>3, <1>4, <1>5, <1>6 DEF Arrival

LEMMA OwnerServer ==
  ASSUME Inv, OwnerInv, NEW d \in Docs, ServerCommits(d) \/ ServerRollsBack(d)
  PROVE  OwnerInv'
<1>0. /\ doubt[d].to \in {"processing", "parsed", "error"} /\ lock[d] = ServerTx
      /\ \A x \in Requests \cup {LoopTx} : x # ServerTx /\ x # Free
      /\ doubt \in [Docs -> DoubtT] /\ invs \in [Docs -> SUBSET Invoices]
      /\ status \in [Docs -> Statuses] /\ NoDoubt.to = "none"
      /\ lock \in [Docs -> Requests \cup {Free, LoopTx, ServerTx}]
  BY ConstantsAssumption
     DEF ServerCommits, ServerRollsBack, Inv, TypeOK, DoubtT, LockInv, NoDoubt, Free, LoopTx, ServerTx
<1>1. /\ doubt' = [doubt EXCEPT ![d] = NoDoubt]
      /\ lock' = [lock EXCEPT ![d] = Free]
      /\ UNCHANGED <<verified, fresh, loop, req>>
  BY DEF ServerCommits, ServerRollsBack, rows
<1>2. CASE ServerRollsBack(d)
  BY <1>0, <1>1, <1>2
     DEF ServerRollsBack, rows, Row, OwnerInv, InvoiceInv, DoubtInv, SwapInv, RequestInv
<1>3. CASE ServerCommits(d)
  <2>1. /\ status' = [status EXCEPT ![d] = doubt[d].to]
        /\ invs' = [invs EXCEPT ![d] = doubt[d].new]
    BY <1>3 DEF ServerCommits
  <2>2. /\ \A e \in Docs \ {d} : doubt[d].new \cap invs[e] = {}
        /\ doubt[d].new \cap fresh = {}
        /\ \A e \in Docs \ {d} : doubt[e].to = "parsed" => doubt[d].new \cap doubt[e].new = {}
    BY <1>0 DEF OwnerInv, InvoiceInv, DoubtInv
  <2>3. InvoiceInv'
    BY <1>0, <1>1, <2>1, <2>2 DEF Row, OwnerInv, InvoiceInv
  <2>4. DoubtInv'
    BY <1>0, <1>1, <2>1, <2>2 DEF OwnerInv, DoubtInv
  <2>5. SwapInv'
    BY <1>0, <1>1, <2>1 DEF OwnerInv, SwapInv, Inv, TypeOK, LoopInv
  <2>6. \A r \in Requests : req[r].pc = "locking" /\ req[r].kind # "drop_project" =>
          req[r].ids \cap invs'[d] = {} \/ d \in req[r].todo
    BY <1>0, <2>1 DEF OwnerInv, RequestInv, DoubtInv
  <2>7. RequestInv'
    BY <1>0, <1>1, <2>1, <2>6 DEF OwnerInv, RequestInv
  <2> QED BY <2>3, <2>4, <2>5, <2>7 DEF OwnerInv
<1> QED BY <1>2, <1>3

LEMMA OwnerCrash ==
  ASSUME Inv, OwnerInv, Crash
  PROVE  OwnerInv'
<1>0. /\ loop' = Idle /\ loop'.at = "idle" /\ \A r \in Requests : req'[r].pc = "none"
      /\ UNCHANGED <<status, invs, verified>>
      /\ \A d \in Docs : lock'[d] \notin Requests
      /\ invs \in [Docs -> SUBSET Invoices] /\ loop \in LoopT
  BY ConstantsAssumption DEF Crash, Idle, NoReq, Inv, TypeOK
<1>1. CASE UNCHANGED <<doubt, fresh>>
  BY <1>0, <1>1 DEF Row, OwnerInv, InvoiceInv, DoubtInv, SwapInv, RequestInv
<1>2. CASE ~UNCHANGED <<doubt, fresh>>
  <2>1. PICK tx \in InFlight :
          doubt' = [doubt EXCEPT ![loop.doc] = tx] /\ fresh' = fresh \ tx.new
    BY <1>2 DEF Crash
  <2>2. /\ loop.doc \in Docs /\ Row(loop.doc) /\ lock[loop.doc] # ServerTx
        /\ status[loop.doc] \in {"pending", "processing"} \cup AtRest
    BY <1>0, <1>2 DEF Crash, LoopT, Free, LoopTx, ServerTx, Inv, TypeOK, Statuses, Row, AtRest
  <2>3. tx \in DoubtT BY <2>2, TypeInFlight DEF Inv
  <2>4. Doubtful(loop.doc, tx)
    BY <2>1, <2>2 DEF InFlight, Doubtful, OwnerInv, SwapInv, Replacements
  <2>5. InvoiceInv' /\ DoubtInv' BY <1>0, <2>1, <2>2, <2>3, <2>4, OwnerLost
  <2> QED BY <1>0, <2>5 DEF OwnerInv, SwapInv, RequestInv
<1> QED BY <1>1, <1>2

LEMMA OwnerRestart ==
  ASSUME Inv, OwnerInv, Restart
  PROVE  OwnerInv'
<1>0. /\ UNCHANGED <<invs, verified, fresh, locks, loop, req>> /\ loop.at = "idle"
      /\ \A d \in Docs : status[d] \in Busy => doubt[d].to = "none" /\ status'[d] = "error"
      /\ \A d \in Docs : status[d] \notin Busy => status'[d] = status[d]
  BY DEF Restart, Busy, Inv, LoopInv, LockInv, Free, ServerTx
<1>1. InvoiceInv' /\ DoubtInv' /\ SwapInv'
  BY <1>0 DEF locks, Row, Busy, AtRest, OwnerInv, InvoiceInv, DoubtInv, SwapInv
<1>2. RequestInv'
  BY <1>0 DEF locks, Busy, AtRest, OwnerInv, RequestInv
<1> QED BY <1>1, <1>2 DEF OwnerInv

-----------------------------------------------------------------------------
(* The requests.                                                            *)

\* A request that has all its locks owns every document of its invoices: the
\* document is at rest, nothing is in doubt and phase B is elsewhere.
LEMMA HoldsFound ==
  ASSUME Inv, OwnerInv, NEW r \in Requests, req[r].pc = "locking", NEW d \in Docs,
         \/ lock[d] = r
         \/ req[r].kind # "drop_project" /\ req[r].todo = {} /\ req[r].ids \cap invs[d] # {}
  PROVE  /\ lock[d] = r /\ status[d] \in AtRest /\ doubt[d].to = "none"
         /\ loop.at = "swap" => loop.doc # d
<1>1. lock[d] = r /\ status[d] \in AtRest
  BY DEF OwnerInv, RequestInv
<1>2. r # ServerTx /\ r # LoopTx
  BY ConstantsAssumption
<1> QED BY <1>1, <1>2 DEF Inv, LockInv, OwnerInv, SwapInv

\* The end of a request that has changed nothing but documents it had locked.
LEMMA OwnerDone ==
  ASSUME Inv, OwnerInv, NEW r \in Requests, Done(r),
         \A d \in Docs :
           \/ /\ status'[d] = status[d] /\ invs'[d] = invs[d]
              /\ invs[d] \cap verified' \subseteq verified
           \/ /\ lock[d] = r /\ doubt[d].to = "none" /\ (loop.at = "swap" => loop.doc # d)
              /\ status[d] \in AtRest /\ invs'[d] \subseteq invs[d]
              /\ status'[d] = status[d] \/ (status'[d] = "gone" /\ invs'[d] = {})
  PROVE  OwnerInv'
<1>0. /\ UNCHANGED <<fresh, doubt, loop>> /\ req'[r] = NoReq /\ NoReq.pc = "none"
      /\ \A q \in Requests \ {r} : req'[q] = req[q]
      /\ \A d \in Docs : lock'[d] = IF lock[d] = r THEN Free ELSE lock[d]
      /\ \A q \in Requests \cup {LoopTx, ServerTx} : q # Free
      /\ r # LoopTx /\ r # ServerTx /\ loop \in LoopT
  BY ConstantsAssumption DEF Done, Unlock, NoReq, Inv, TypeOK, Free, LoopTx, ServerTx
<1>1. InvoiceInv'
  BY <1>0 DEF Row, AtRest, OwnerInv, InvoiceInv
<1>2. \A d \in Docs : doubt[d].to # "none" =>
        status'[d] = status[d] /\ invs'[d] = invs[d] /\ invs[d] \cap verified' \subseteq verified
  OBVIOUS
<1>3. \A d \in Docs : invs'[d] \subseteq invs[d]
  OBVIOUS
<1>4. DoubtInv'
  BY <1>0, <1>2, <1>3 DEF OwnerInv, DoubtInv
<1>5. SwapInv'
  BY <1>0 DEF OwnerInv, SwapInv, Inv, LoopInv
<1>6. RequestInv'
  BY <1>0, <1>3 DEF OwnerInv, RequestInv
<1> QED BY <1>1, <1>4, <1>5, <1>6 DEF OwnerInv

LEMMA OwnerRequest ==
  ASSUME Inv, OwnerInv, NEW r \in Requests, RequestStep(r)
  PROVE  OwnerInv'
<1>0. /\ invs \in [Docs -> SUBSET Invoices] /\ status \in [Docs -> Statuses]
      /\ lock \in [Docs -> Requests \cup {Free, LoopTx, ServerTx}]
      /\ req \in [Requests -> ReqT] /\ Free \notin Requests /\ LoopTx \notin Requests
      /\ LoopTx # Free /\ ServerTx # Free
  BY ConstantsAssumption DEF Inv, TypeOK, Free, LoopTx, ServerTx
<1>1. CASE CommitEdit(r) \/ CloseSession(r) \/ DropFails(r) \/ DeadlockVictim(r)
  <2>1. Done(r) /\ UNCHANGED <<status, invs, verified>>
    BY <1>1 DEF CommitEdit, CloseSession, DropFails, DeadlockVictim
  <2> QED BY <2>1, OwnerDone
<1>2. ASSUME NEW k \in {"verify", "unverify", "delete", "bulk"}, Locked(r, k), Done(r),
             UNCHANGED status, verified' \subseteq verified \cup Found(r),
             \A d \in Docs : invs'[d] \subseteq invs[d],
             \A d \in Docs : Found(r) \cap invs[d] = {} => invs'[d] = invs[d]
      PROVE  OwnerInv'
  <2>1. ASSUME NEW d \in Docs, Found(r) \cap invs[d] # {}
        PROVE  /\ lock[d] = r /\ status[d] \in AtRest /\ doubt[d].to = "none"
               /\ loop.at = "swap" => loop.doc # d
    <3>1. req[r].pc = "locking" /\ req[r].kind # "drop_project" /\ req[r].todo = {}
      BY <1>2 DEF Locked
    <3>2. req[r].ids \cap invs[d] # {} BY <2>1 DEF Found
    <3> QED BY <3>1, <3>2, HoldsFound
  <2> QED BY <1>2, <2>1, OwnerDone
<1>3. CASE CommitVerify(r) \/ CommitUnverify(r)
  BY <1>2, <1>3 DEF CommitVerify, CommitUnverify
<1>4. CASE CommitDelete(r) \/ CommitBulk(r)
  <2>1. PICK S \in SUBSET Found(r) : invs' = [d \in Docs |-> invs[d] \ S]
    BY <1>4 DEF CommitDelete, CommitBulk
  <2> QED BY <1>2, <1>4, <2>1 DEF CommitDelete, CommitBulk
<1>5. CASE CommitDeleteDoc(r)
  <2>1. PICK d \in Docs :
          /\ lock[d] = r
          /\ status' = [status EXCEPT ![d] = "gone"]
          /\ invs' = [invs EXCEPT ![d] = {}]
    BY <1>5 DEF CommitDeleteDoc
  <2>2. /\ status[d] \in AtRest /\ doubt[d].to = "none"
        /\ loop.at = "swap" => loop.doc # d
    BY <1>5, <2>1, HoldsFound DEF CommitDeleteDoc, Locked
  <2>3. Done(r) /\ UNCHANGED verified BY <1>5 DEF CommitDeleteDoc
  <2> QED BY <1>0, <2>1, <2>2, <2>3, OwnerDone
<1>6. CASE Refuse(r)
  <2>1. /\ UNCHANGED <<rows, locks, loop>>
        /\ req' = [req EXCEPT ![r].pc = "refused"]
    BY <1>6 DEF Refuse
  <2>2. /\ req'[r].pc = "refused" /\ \A q \in Requests \ {r} : req'[q] = req[q]
    BY <1>0, <2>1 DEF ReqT
  <2> QED
    BY <2>1, <2>2
       DEF rows, locks, Row, OwnerInv, InvoiceInv, DoubtInv, SwapInv, RequestInv
<1>7. CASE LockDoc(r)
  <2> DEFINE d == NextToLock(r)
  <2>1. /\ UNCHANGED <<rows, doubt, loop>> /\ req[r].pc = "locking" /\ req[r].kind # "drop_project"
        /\ req'[r].ids = req[r].ids /\ req'[r].kind = req[r].kind
        /\ req'[r].todo = req[r].todo \ {d} /\ req'[r].pc \in {"locking", "refused"}
        /\ \A q \in Requests \ {r} : req'[q] = req[q]
    BY <1>0, <1>7 DEF LockDoc, ReqT
  <2>2. \/ ~Row(d) /\ UNCHANGED lock
        \/ /\ lock[d] = Free /\ lock' = [lock EXCEPT ![d] = r]
           /\ req'[r].pc = "locking" => status[d] \notin Busy
           /\ Row(d)
    BY <1>0, <1>7 DEF LockDoc, ReqT
  <2> HIDE DEF d
  <2>3. InvoiceInv' /\ DoubtInv'
    BY <2>1 DEF rows, Row, OwnerInv, InvoiceInv, DoubtInv
  <2>8. SwapInv'
    BY <1>0, <2>1, <2>2 DEF rows, OwnerInv, SwapInv, Inv, LoopInv
  <2>4. ASSUME NEW x \in Docs, lock'[x] = r
        PROVE  req'[r].pc = "locking" => status[x] \in AtRest
    BY <1>0, <2>1, <2>2, <2>4 DEF Row, Busy, AtRest, Statuses, OwnerInv, RequestInv
  <2>5. ASSUME NEW x \in Docs, req[r].ids \cap invs[x] # {}
        PROVE  x \in req'[r].todo \/ lock'[x] = r
    BY <1>0, <2>1, <2>2, <2>5 DEF OwnerInv, RequestInv, InvoiceInv
  <2>6. \A q \in Requests \ {r}, x \in Docs : lock'[x] = q <=> lock[x] = q
    BY <1>0, <2>2
  <2>7. RequestInv'
    BY <2>1, <2>4, <2>5, <2>6 DEF rows, OwnerInv, RequestInv
  <2> QED BY <2>3, <2>7, <2>8 DEF OwnerInv
<1>8. CASE CommitDrop(r)
  <2>1. /\ \A d \in Docs : Row(d) => lock[d] = r
        /\ \A d \in Docs : status'[d] = "gone" /\ invs'[d] = {}
    BY <1>8 DEF CommitDrop
  <2>2. \A d \in Docs : doubt[d].to = "none"
    <3>1. r # ServerTx BY ConstantsAssumption
    <3> QED BY <1>0, <2>1, <3>1 DEF OwnerInv, InvoiceInv, Inv, LockInv
  <2>3. loop.at # "swap"
    BY <1>0, <2>1 DEF OwnerInv, SwapInv, Inv, LoopInv, Row
  <2>4. /\ UNCHANGED <<fresh, doubt, loop>> /\ req'[r] = NoReq /\ NoReq.pc = "none"
        /\ \A q \in Requests \ {r} : req'[q] = req[q]
        /\ \A d \in Docs : lock'[d] = IF lock[d] = r THEN Free ELSE lock[d]
    BY <1>0, <1>8 DEF CommitDrop, Done, Unlock, NoReq
  <2>5. InvoiceInv' /\ DoubtInv' /\ SwapInv'
    BY <2>1, <2>2, <2>3, <2>4 DEF Row, InvoiceInv, DoubtInv, SwapInv
  <2>6. ASSUME NEW q \in Requests, NEW d \in Docs, lock'[d] = q
        PROVE  q # r /\ req[q].pc \notin {"none", "locking"}
    BY <1>0, <2>1, <2>4, <2>6 DEF OwnerInv, RequestInv, AtRest, Row
  <2>7. RequestInv'
    BY <2>1, <2>2, <2>4, <2>6 DEF OwnerInv, RequestInv
  <2> QED BY <2>5, <2>7 DEF OwnerInv
<1>9. CASE DropInvoices(r)
  <2>1. /\ UNCHANGED <<rows, locks, loop>> /\ req'[r].pc = "deleting"
        /\ \A q \in Requests \ {r} : req'[q] = req[q]
    BY <1>0, <1>9 DEF DropInvoices, ReqT
  <2> QED
    BY <2>1 DEF rows, locks, Row, OwnerInv, InvoiceInv, DoubtInv, SwapInv, RequestInv
<1>10. CASE DropDoc(r)
  <2> DEFINE d == NextToLock(r)
  <2>1. /\ UNCHANGED <<rows, doubt, loop>> /\ req'[r].pc = "deleting"
        /\ \A q \in Requests \ {r} : req'[q] = req[q]
    BY <1>0, <1>10 DEF DropDoc, ReqT
  <2>2. \/ UNCHANGED lock
        \/ lock[d] = Free /\ lock' = [lock EXCEPT ![d] = r]
    BY <1>10 DEF DropDoc, Unblocked
  <2> HIDE DEF d
  <2>3. InvoiceInv' /\ DoubtInv'
    BY <2>1 DEF rows, Row, OwnerInv, InvoiceInv, DoubtInv
  <2>4. SwapInv'
    BY <1>0, <2>1, <2>2 DEF rows, OwnerInv, SwapInv, Inv, LoopInv
  <2>5. \A q \in Requests \ {r}, x \in Docs : lock'[x] = q <=> lock[x] = q
    BY <1>0, <2>2
  <2>6. RequestInv'
    BY <2>1, <2>5 DEF rows, OwnerInv, RequestInv
  <2> QED BY <2>3, <2>4, <2>6 DEF OwnerInv
<1> QED
  BY <1>1, <1>3, <1>4, <1>5, <1>6, <1>7, <1>8, <1>9, <1>10 DEF RequestStep

LEMMA OwnerStep == Inv /\ OwnerInv /\ [Next]_vars => OwnerInv'
<1> SUFFICES ASSUME Inv, OwnerInv, [Next]_vars PROVE OwnerInv'
  OBVIOUS
<1>1. CASE Section BY <1>1, OwnerSection
<1>2. ASSUME NEW t \in Tasks, TaskStep(t) PROVE OwnerInv'
  BY <1>2, OwnerTask
<1>3. CASE Arrival BY <1>3, OwnerArrival
<1>4. ASSUME NEW r \in Requests, RequestStep(r) PROVE OwnerInv'
  BY <1>4, OwnerRequest
<1>5. ASSUME NEW d \in Docs, ServerCommits(d) \/ ServerRollsBack(d) PROVE OwnerInv'
  BY <1>5, OwnerServer
<1>6. CASE Crash BY <1>6, OwnerCrash
<1>7. CASE Restart BY <1>7, OwnerRestart
<1>8. CASE UNCHANGED vars
  BY <1>8 DEF vars, rows, locks, Row, OwnerInv, InvoiceInv, DoubtInv, SwapInv, RequestInv
<1> QED BY <1>1, <1>2, <1>3, <1>4, <1>5, <1>6, <1>7, <1>8 DEF Next

\* Every row, invoice and in-doubt commit has one owner, in every instance.
THEOREM OwnerInvariance == Spec => []OwnerInv
BY OwnerInit, OwnerStep, Invariance, PTL DEF Spec

-----------------------------------------------------------------------------
(* Every step is one of DocumentLifecycle, or a stutter.                    *)

LEMMA SectionIsLife ==
  ASSUME Inv, OwnerInv, Section
  PROVE  Life!Next \/ UNCHANGED Life!vars
<1> DEFINE d == loop.doc
<1>0. loop.at # "idle" => d \in Docs
  BY DEF Inv, LoopInv
<1>1. /\ invs \in [Docs -> SUBSET Invoices] /\ owed \in [Docs -> Int]
      /\ status \in [Docs -> Statuses] /\ fresh \subseteq Invoices /\ loop.carry \in 0..2
  BY DEF Inv, TypeOK, LoopT
<1>2. CASE GuardTakes
  <2>1. d \in Docs /\ status[d] \in {"pending"} \cup AtRest
    BY <1>0, <1>1, <1>2 DEF GuardTakes, Row, Statuses, AtRest
  <2>2. Life!Acquire(d) BY <1>2, <2>1 DEF GuardTakes, Life!Acquire, AtRest, Life!AtRest
  <2> QED BY <2>1, <2>2 DEF Life!Next
<1>3. CASE SwapCommits
  <2>1. PICK new \in Replacements : invs' = [invs EXCEPT ![d] = new]
    BY <1>3 DEF SwapCommits
  <2>2. /\ d \in Docs /\ status[d] = "processing" /\ invs[d] \cap verified = {}
        /\ loop.carry \in 0..owed[d]
    BY <1>0, <1>1, <1>3 DEF SwapCommits, OnLoop, OwnerInv, SwapInv, Inv, CarryInv
  <2>3. new \in SUBSET Invoices /\ new # {} /\ \A e \in Docs : new \cap invs[e] = {}
    BY <1>1 DEF Replacements, OwnerInv, InvoiceInv
  <2>4. Life!Parse(d, new, loop.carry)
    BY <1>3, <2>1, <2>2, <2>3 DEF SwapCommits, Charge, Life!Parse, Life!Settle
  <2> QED BY <2>2, <2>3, <2>4 DEF Life!Next
<1>4. CASE ErrWriteLands
  <2>1. d \in Docs /\ status[d] = "processing" /\ loop.carry \in 0..owed[d]
    BY <1>0, <1>1, <1>4 DEF ErrWriteLands, OnLoop, Inv, CarryInv
  <2>2. Life!Fail(d, loop.carry)
    BY <1>4, <2>1 DEF ErrWriteLands, Charge, Life!Fail, Life!Settle
  <2> QED BY <2>1, <2>2 DEF Life!Next
<1>5. CASE \/ GuardRefuses \/ GuardFails \/ ReleaseToTask \/ ReleaseFails
           \/ LockRow \/ LockRowRefuses \/ LockRowFails \/ SwapFails \/ SwapInDoubt
           \/ ErrWriteSkips \/ ErrWriteLost \/ ErrWriteRaises
  BY <1>5 DEF GuardRefuses, GuardFails, ReleaseToTask, ReleaseFails, LockRow, LockRowRefuses,
       LockRowFails, SwapFails, SwapInDoubt, ErrWriteSkips, ErrWriteLost, ErrWriteRaises,
       ToErrWriteFromB, rows, Life!vars
<1> QED BY <1>2, <1>3, <1>4, <1>5 DEF Section

\* A call is paid for while its document is in "processing", or gone.
LEMMA TaskIsLife ==
  ASSUME Inv, OwnerInv, NEW t \in Tasks, TaskStep(t)
  PROVE  Life!Next \/ UNCHANGED Life!vars
<1> DEFINE d == task[t].doc
<1>1. /\ UNCHANGED <<status, invs, verified, charged>>
      /\ UNCHANGED owed \/ owed' = [owed EXCEPT ![d] = @ + 1]
  BY TaskLeavesRows
<1>2. task[t].pc \in Awaiting
  BY DEF TaskStep, At, TakeSlot, Fetch, DetectPaid, DetectFails, Raster, Store, LlmParsed,
       LlmRejected, LlmFails, LlmOddUsage, Cancel, Awaiting
<1>3. d \in Docs /\ status[d] \in {"processing", "gone"}
  BY <1>2, ConstantsAssumption DEF Inv, AttemptInv, TaskInv, TypeOK, TaskT, Awaiting
<1> QED BY <1>1, <1>3 DEF Life!Next, Life!Pay, Life!vars

LEMMA ServerIsLife ==
  ASSUME Inv, OwnerInv, NEW d \in Docs, ServerCommits(d) \/ ServerRollsBack(d)
  PROVE  Life!Next \/ UNCHANGED Life!vars
<1> DEFINE tx == doubt[d]
<1>0. /\ tx \in DoubtT /\ tx.to \in {"processing", "parsed", "error"}
      /\ tx.charge \in 0..owed[d] /\ owed \in [Docs -> Int] /\ invs \in [Docs -> SUBSET Invoices]
  BY DEF ServerCommits, ServerRollsBack, Inv, TypeOK, DoubtT, CarryInv
<1>1. CASE ServerRollsBack(d)
  BY <1>1 DEF ServerRollsBack, rows, Life!vars
<1>2. CASE ServerCommits(d) /\ tx.to = "processing"
  <2>1. invs' = invs BY <1>0, <1>2 DEF ServerCommits, OwnerInv, DoubtInv
  <2>2. Life!Acquire(d)
    BY <1>2, <2>1 DEF ServerCommits, OwnerInv, DoubtInv, AtRest, Life!Acquire, Life!AtRest
  <2> QED BY <2>2 DEF Life!Next
<1>3. CASE ServerCommits(d) /\ tx.to = "error"
  <2>1. invs' = invs BY <1>0, <1>3 DEF ServerCommits, OwnerInv, DoubtInv
  <2>2. Life!Fail(d, tx.charge)
    BY <1>3, <2>1 DEF ServerCommits, Charge, OwnerInv, DoubtInv, Life!Fail, Life!Settle
  <2> QED BY <1>0, <2>2 DEF Life!Next
<1>4. CASE ServerCommits(d) /\ tx.to = "parsed"
  <2>1. Life!Parse(d, tx.new, tx.charge)
    BY <1>4 DEF ServerCommits, Charge, OwnerInv, DoubtInv, Life!Parse, Life!Settle
  <2>2. tx.new \in SUBSET Invoices BY <1>0 DEF DoubtT
  <2> QED BY <1>0, <2>1, <2>2 DEF Life!Next
<1> QED BY <1>0, <1>1, <1>2, <1>3, <1>4

LEMMA RequestIsLife ==
  ASSUME Inv, OwnerInv, NEW r \in Requests, RequestStep(r)
  PROVE  Life!Next \/ UNCHANGED Life!vars
<1>0. invs \in [Docs -> SUBSET Invoices] /\ status \in [Docs -> Statuses]
  BY DEF Inv, TypeOK
<1>1. CASE \/ LockDoc(r) \/ Refuse(r) \/ CloseSession(r) \/ CommitEdit(r)
           \/ DropInvoices(r) \/ DropDoc(r) \/ DropFails(r) \/ DeadlockVictim(r)
  BY <1>1 DEF LockDoc, Refuse, CloseSession, CommitEdit, DropInvoices, DropDoc, DropFails,
       DeadlockVictim, Done, rows, Life!vars
<1>2. ASSUME NEW k \in AllKinds \ {"drop_project"}, Locked(r, k),
             NEW d \in Docs, Found(r) \cap invs[d] # {}
      PROVE  status[d] \in AtRest
  <2>1. /\ req[r].pc = "locking" /\ req[r].kind # "drop_project" /\ req[r].todo = {}
        /\ req[r].ids \cap invs[d] # {}
    BY <1>2 DEF Locked, Found
  <2> QED BY <2>1, HoldsFound
<1>3. ASSUME NEW k \in {"verify", "unverify"}, Locked(r, k), Found(r) # {}
      PROVE  \E d \in Docs, i \in Invoices :
               Found(r) = {i} /\ i \in invs[d] /\ status[d] \in AtRest
  <2>1. PICK i \in Invoices : req[r].ids = {i}
    BY <1>3 DEF Locked, OwnerInv, RequestInv
  <2>2. PICK d \in Docs : i \in invs[d] BY <1>3, <2>1 DEF Found
  <2>3. Found(r) = {i} BY <2>1, <2>2 DEF Found
  <2>4. status[d] \in AtRest BY <1>2, <1>3, <2>2, <2>3 DEF AllKinds
  <2> QED BY <2>2, <2>3, <2>4
<1>4. CASE CommitVerify(r)
  <2>1. PICK d \in Docs, i \in Invoices : Found(r) = {i} /\ i \in invs[d] /\ status[d] \in AtRest
    BY <1>3, <1>4 DEF CommitVerify
  <2>2. Life!Confirm(d, i)
    BY <1>4, <2>1 DEF CommitVerify, Done, Life!Confirm, AtRest, Life!AtRest
  <2> QED BY <2>2 DEF Life!Next
<1>5. CASE CommitUnverify(r)
  <2>1. PICK d \in Docs, i \in Invoices : Found(r) = {i} /\ i \in invs[d] /\ status[d] \in AtRest
    BY <1>3, <1>5 DEF CommitUnverify
  <2>2. Life!Release(d, i)
    BY <1>5, <2>1 DEF CommitUnverify, Done, Life!Release, AtRest, Life!AtRest
  <2> QED BY <2>2 DEF Life!Next
<1>6. CASE CommitDelete(r) \/ CommitBulk(r)
  <2>1. PICK S \in SUBSET Found(r) :
          S \cap verified = {} /\ invs' = [d \in Docs |-> invs[d] \ S]
    BY <1>6 DEF CommitDelete, CommitBulk
  <2>2. \A d \in Docs : S \cap invs[d] # {} => status[d] \in AtRest
    BY <1>2, <1>6, <2>1 DEF CommitDelete, CommitBulk, AllKinds
  <2>3. S \in SUBSET Invoices BY <1>0, <2>1 DEF Found
  <2>4. Life!Remove(S)
    BY <1>6, <2>1, <2>2
       DEF CommitDelete, CommitBulk, Done, Life!Remove, AtRest, Life!AtRest
  <2> QED BY <2>3, <2>4 DEF Life!Next
<1>7. CASE CommitDeleteDoc(r)
  <2>1. PICK d \in Docs :
          /\ lock[d] = r /\ invs[d] \cap verified = {}
          /\ status' = [status EXCEPT ![d] = "gone"]
          /\ invs' = [invs EXCEPT ![d] = {}]
    BY <1>7 DEF CommitDeleteDoc
  <2>2. status[d] \in AtRest
    BY <1>7, <2>1, HoldsFound DEF CommitDeleteDoc, Locked
  <2>3. Life!Delete(d)
    BY <1>7, <2>1, <2>2 DEF CommitDeleteDoc, Done, Life!Delete, AtRest, Life!AtRest
  <2> QED BY <2>3 DEF Life!Next
<1>8. CASE CommitDrop(r)
  BY <1>8 DEF CommitDrop, Done, Life!Next, Life!DropProject, Life!vars
<1> QED BY <1>1, <1>4, <1>5, <1>6, <1>7, <1>8 DEF RequestStep

LEMMA StepIsLife == Inv /\ OwnerInv /\ [Next]_vars => [Life!Next]_(Life!vars)
<1> SUFFICES ASSUME Inv, OwnerInv, [Next]_vars PROVE Life!Next \/ UNCHANGED Life!vars
  OBVIOUS
<1>1. CASE Section BY <1>1, SectionIsLife
<1>2. ASSUME NEW t \in Tasks, TaskStep(t) PROVE Life!Next \/ UNCHANGED Life!vars
  BY <1>2, TaskIsLife
<1>3. CASE Arrival
  <2>1. CASE \E d \in Docs : UploadCreate(d) \/ UploadCreateFails(d)
    BY <2>1 DEF UploadCreate, UploadCreateFails, Life!Create, Life!Next
  <2>2. CASE UNCHANGED rows BY <2>2 DEF rows, Life!vars
  <2> QED
    BY <1>3, <2>1, <2>2 DEF Arrival, Reparse, AskDeleteDoc, AskInvoice, AskDropProject, AskBulk, Ask
<1>4. ASSUME NEW r \in Requests, RequestStep(r) PROVE Life!Next \/ UNCHANGED Life!vars
  BY <1>4, RequestIsLife
<1>5. ASSUME NEW d \in Docs, ServerCommits(d) \/ ServerRollsBack(d)
      PROVE  Life!Next \/ UNCHANGED Life!vars
  BY <1>5, ServerIsLife
<1>6. CASE Crash BY <1>6 DEF Crash, Life!vars
<1>7. CASE Restart
  BY <1>7 DEF Restart, Busy, Life!Busy, Life!Sweep, Life!Next
<1>8. CASE UNCHANGED vars BY <1>8 DEF vars, rows, Life!vars
<1> QED BY <1>1, <1>2, <1>3, <1>4, <1>5, <1>6, <1>7, <1>8 DEF Next

\* The code keeps the promise of DocumentLifecycle: whatever the order in which
\* the loop, the threads, the server and the restarts take their steps, each
\* commit is one step of the promise.
THEOREM CodeKeepsPromise == Spec => ImplementsLifecycle
<1>1. Init => Life!Init
  BY DEF Init, Life!Init
<1> QED
  BY <1>1, StepIsLife, Invariance, OwnerInvariance, PTL
     DEF Spec, ImplementsLifecycle, Life!Spec

-----------------------------------------------------------------------------
(* What every implementation of DocumentLifecycle keeps, and so the code.   *)

\* Every variable keeps its type.
LEMMA LifecycleTypeCorrect == Life!Spec => []Life!TypeOK
<1>1. Life!Init => Life!TypeOK
  BY DEF Life!Init, Life!TypeOK, Life!Statuses
<1>2. Life!TypeOK /\ [Life!Next]_(Life!vars) => Life!TypeOK'
  <2> SUFFICES ASSUME Life!TypeOK, [Life!Next]_(Life!vars) PROVE Life!TypeOK'
    OBVIOUS
  <2> USE DEF Life!TypeOK, Life!Statuses
  <2>1. ASSUME NEW d \in Docs, Life!Create(d) \/ Life!Acquire(d) \/ Life!Pay(d) \/ Life!Delete(d) PROVE Life!TypeOK'
    BY <2>1 DEF Life!Create, Life!Acquire, Life!Pay, Life!Delete
  <2>2. ASSUME NEW d \in Docs, NEW c \in 0..owed[d], Life!Fail(d, c) PROVE Life!TypeOK'
    BY <2>2 DEF Life!Fail, Life!Settle
  <2>3. ASSUME NEW d \in Docs, NEW c \in 0..owed[d], NEW S \in SUBSET Invoices, Life!Parse(d, S, c)
        PROVE Life!TypeOK'
    BY <2>3 DEF Life!Parse, Life!Settle
  <2>4. ASSUME NEW d \in Docs, NEW i \in Invoices, Life!Confirm(d, i) \/ Life!Release(d, i) PROVE Life!TypeOK'
    BY <2>4 DEF Life!Confirm, Life!Release
  <2>5. ASSUME NEW S \in SUBSET Invoices, Life!Remove(S) PROVE Life!TypeOK'
    BY <2>5 DEF Life!Remove
  <2>6. CASE Life!Sweep \/ Life!DropProject BY <2>6 DEF Life!Sweep, Life!DropProject
  <2>7. CASE UNCHANGED Life!vars BY <2>7 DEF Life!vars
  <2> QED BY <2>1, <2>2, <2>3, <2>4, <2>5, <2>6, <2>7 DEF Life!Next
<1> QED BY <1>1, <1>2, PTL DEF Life!Spec

\* Neither an attempt nor a person removes an invoice that is confirmed
\* (persist_parse_result, delete_invoice, bulk_delete_invoices,
\* delete_document_route); only the deletion of the project does.
THEOREM ConfirmedKept == Life!Spec => Life!ConfirmedSurvives
<1> DEFINE A == \A d \in Docs :
                  (invs[d] \cap verified) \ invs'[d] # {} => \A e \in Docs : status'[e] = "gone"
<1>1. Life!TypeOK /\ [Life!Next]_(Life!vars) => A
  <2> SUFFICES ASSUME Life!TypeOK, [Life!Next]_(Life!vars) PROVE A
    OBVIOUS
  <2>1. ASSUME NEW d \in Docs, Life!Create(d) \/ Life!Acquire(d) \/ Life!Pay(d) PROVE A
    BY <2>1 DEF Life!Create, Life!Acquire, Life!Pay, Life!TypeOK, Life!Busy, Life!AtRest
  <2>2. ASSUME NEW d \in Docs, Life!Delete(d) PROVE A
    BY <2>2 DEF Life!Delete, Life!TypeOK, Life!Busy, Life!AtRest
  <2>3. ASSUME NEW d \in Docs, NEW c \in 0..owed[d], Life!Fail(d, c) PROVE A
    BY <2>3 DEF Life!Fail, Life!TypeOK, Life!Busy, Life!AtRest
  <2>4. ASSUME NEW d \in Docs, NEW c \in 0..owed[d], NEW S \in SUBSET Invoices, Life!Parse(d, S, c)
        PROVE A
    BY <2>4 DEF Life!Parse, Life!TypeOK, Life!Busy, Life!AtRest
  <2>5. ASSUME NEW d \in Docs, NEW i \in Invoices, Life!Confirm(d, i) \/ Life!Release(d, i) PROVE A
    BY <2>5 DEF Life!Confirm, Life!Release, Life!Busy
  <2>6. ASSUME NEW S \in SUBSET Invoices, Life!Remove(S) PROVE A
    BY <2>6 DEF Life!Remove, Life!TypeOK, Life!Busy, Life!AtRest
  <2>7. CASE Life!Sweep BY <2>7 DEF Life!Sweep, Life!TypeOK, Life!Busy, Life!Statuses
  <2>8. CASE Life!DropProject BY <2>8 DEF Life!DropProject
  <2>9. CASE UNCHANGED Life!vars BY <2>9 DEF Life!vars
  <2> QED BY <2>1, <2>2, <2>3, <2>4, <2>5, <2>6, <2>7, <2>8, <2>9 DEF Life!Next
<1> HIDE DEF A
<1>2. Life!TypeOK /\ [Life!Next]_(Life!vars) => [A]_(Life!vars)
  BY <1>1
<1>3. Life!Spec => [][A]_(Life!vars)
  BY <1>2, LifecycleTypeCorrect, PTL DEF Life!Spec
<1> QED BY <1>3 DEF A, Life!ConfirmedSurvives

\* While a document is being processed nothing but its settlement, and the
\* deletion of its project, touches its invoices or its row (_reject_if_busy).
THEOREM BusyDocumentKept == Life!Spec => Life!BusyKept
<1> DEFINE A == \A d \in Docs :
                  status[d] \in Life!Busy /\ (status'[d] = "gone" \/ invs'[d] # invs[d])
                    => status'[d] = "parsed" \/ \A e \in Docs : status'[e] = "gone"
<1>1. Life!TypeOK /\ [Life!Next]_(Life!vars) => A
  <2> SUFFICES ASSUME Life!TypeOK, [Life!Next]_(Life!vars) PROVE A
    OBVIOUS
  <2>1. ASSUME NEW d \in Docs, Life!Create(d) \/ Life!Acquire(d) \/ Life!Pay(d) PROVE A
    BY <2>1 DEF Life!Create, Life!Acquire, Life!Pay, Life!TypeOK, Life!Busy, Life!AtRest
  <2>2. ASSUME NEW d \in Docs, Life!Delete(d) PROVE A
    BY <2>2 DEF Life!Delete, Life!TypeOK, Life!Busy, Life!AtRest
  <2>3. ASSUME NEW d \in Docs, NEW c \in 0..owed[d], Life!Fail(d, c) PROVE A
    BY <2>3 DEF Life!Fail, Life!TypeOK, Life!Busy, Life!AtRest
  <2>4. ASSUME NEW d \in Docs, NEW c \in 0..owed[d], NEW S \in SUBSET Invoices, Life!Parse(d, S, c)
        PROVE A
    BY <2>4 DEF Life!Parse, Life!TypeOK, Life!Busy, Life!AtRest
  <2>5. ASSUME NEW d \in Docs, NEW i \in Invoices, Life!Confirm(d, i) \/ Life!Release(d, i) PROVE A
    BY <2>5 DEF Life!Confirm, Life!Release, Life!Busy
  <2>6. ASSUME NEW S \in SUBSET Invoices, Life!Remove(S) PROVE A
    BY <2>6 DEF Life!Remove, Life!TypeOK, Life!Busy, Life!AtRest
  <2>7. CASE Life!Sweep BY <2>7 DEF Life!Sweep, Life!TypeOK, Life!Busy, Life!Statuses
  <2>8. CASE Life!DropProject BY <2>8 DEF Life!DropProject
  <2>9. CASE UNCHANGED Life!vars BY <2>9 DEF Life!vars, Life!Busy
  <2> QED BY <2>1, <2>2, <2>3, <2>4, <2>5, <2>6, <2>7, <2>8, <2>9 DEF Life!Next
<1> HIDE DEF A
<1>2. Life!TypeOK /\ [Life!Next]_(Life!vars) => [A]_(Life!vars)
  BY <1>1
<1>3. Life!Spec => [][A]_(Life!vars)
  BY <1>2, LifecycleTypeCorrect, PTL DEF Life!Spec
<1> QED BY <1>3 DEF A, Life!BusyKept

\* An invoice that was confirmed, at whatever moment of a reparse, is deleted
\* by nobody but a person who has the confirmation withdrawn first, or who
\* deletes the whole project.
THEOREM CodeKeepsConfirmed == Spec => Life!ConfirmedSurvives
BY CodeKeepsPromise, ConfirmedKept, PTL DEF ImplementsLifecycle

\* Neither an edit nor a deletion touches a document that is being processed;
\* only the settlement of its attempt, and the deletion of its project, do.
THEOREM CodeKeepsBusy == Spec => Life!BusyKept
BY CodeKeepsPromise, BusyDocumentKept, PTL DEF ImplementsLifecycle
=============================================================================
