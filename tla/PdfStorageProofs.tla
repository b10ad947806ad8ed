-------------------------- MODULE PdfStorageProofs --------------------------
(***************************************************************************)
(* For any number of files, uploads, corrections, failures and crashes:    *)
(* the uploaded bytes are never lost (OriginalKept), a row keeps its       *)
(* object unless its deletion was interrupted (RowHasObject), a document   *)
(* is parsed from what is stored for it (ParsedIsStored), and without a    *)
(* failure only the objects of a deleted project stay behind (NoOrphan).   *)
(***************************************************************************)
EXTENDS PdfStorage, TLAPS

\* What an attempt that is about to overwrite the document has made sure of, and
\* what the puts that may still land would do.
AttemptInv(k) ==
  /\ work[k].pc = "fetchKey" =>
       /\ stored[k] \notin Turned
       /\ \A put \in late : put.key = k /\ put.slot = "key" => put.bytes = Original
  /\ work[k].pc \in {"detect", "backup"} => work[k].src = Original
  /\ work[k].pc \in {"detectOrig", "overwrite"} => orig[k] = Original
  /\ work[k].pc \in {"backup", "overwrite"} => work[k].fixed \in Turned

LateInv ==
  \A put \in late :
    /\ put.slot = "orig" => put.bytes = Original
    /\ put.slot = "key" /\ put.bytes \in Turned => orig[put.key] = Original

StoreInv ==
  /\ \A k \in Keys : orig[k] \in {Nothing, Original}
  /\ OriginalKept
  /\ LateInv
  /\ \A k \in Keys : AttemptInv(k)

Inv == TypeOK /\ StoreInv

USE ConstantsAssumption DEF Versions

-----------------------------------------------------------------------------
LEMMA InvInit == Init => Inv
BY DEF Init, Inv, TypeOK, StoreInv, OriginalKept, LateInv, AttemptInv, WorkT, Idle

\* The objects a put that is allowed to land leaves behind.
Harmless(put) ==
  /\ put \in PutT
  /\ put.slot = "orig" => put.bytes = Original
  /\ put.slot = "key" /\ put.bytes \in Turned => orig[put.key] = Original

\* An object changes only in ways that keep every original.
LEMMA LandKeeps ==
  ASSUME Inv, NEW put, Harmless(put), Land(put)
  PROVE  /\ stored' \in [Keys -> Versions \cup {Nothing}]
         /\ orig' \in [Keys -> Versions \cup {Nothing}]
         /\ \A k \in Keys : orig'[k] \in {Nothing, Original}
         /\ \A k \in Keys : orig[k] = Original => orig'[k] = Original
         /\ OriginalKept'
         /\ \A k \in Keys :
              stored'[k] # stored[k] => put.slot = "key" /\ put.key = k /\ stored'[k] = put.bytes
<1>1. put.key \in Keys /\ put.bytes \in Versions /\ put.slot \in {"key", "orig"}
  BY DEF Harmless, PutT
<1>2. CASE put.slot = "key"
  BY <1>1, <1>2 DEF Inv, TypeOK, StoreInv, OriginalKept, Harmless, Land
<1>3. CASE put.slot = "orig"
  BY <1>1, <1>3 DEF Inv, TypeOK, StoreInv, OriginalKept, Harmless, Land
<1> QED BY <1>1, <1>2, <1>3

\* The put an attempt has under way is harmless.
LEMMA PutOfHarmless ==
  ASSUME Inv, NEW k \in Keys, work[k].pc \in {"backup", "overwrite"}
  PROVE  /\ Harmless(PutOf(k))
         /\ PutOf(k).key = k
         /\ work[k].pc = "backup" => PutOf(k) = Put(k, "orig", work[k].src)
         /\ work[k].pc = "overwrite" => PutOf(k) = Put(k, "key", work[k].fixed)
BY DEF Inv, TypeOK, StoreInv, AttemptInv, Harmless, PutOf, Put, PutT, WorkT

LEMMA OriginalHarmless ==
  ASSUME NEW k \in Keys
  PROVE  Harmless(Put(k, "key", Original))
BY DEF Harmless, Put, PutT

LEMMA LateHarmless ==
  ASSUME Inv, NEW put \in late
  PROVE  Harmless(put)
BY DEF Inv, TypeOK, StoreInv, LateInv, Harmless

\* A put whose caller gave it up leaves harmless puts behind.
LEMMA FailedPutKeeps ==
  ASSUME Inv, NEW put, Harmless(put), PutFails(put)
  PROVE  /\ stored' \in [Keys -> Versions \cup {Nothing}]
         /\ orig' \in [Keys -> Versions \cup {Nothing}]
         /\ late' \in SUBSET PutT
         /\ late' \subseteq late \cup {put}
         /\ \A k \in Keys : orig'[k] \in {Nothing, Original}
         /\ \A k \in Keys : orig[k] = Original => orig'[k] = Original
         /\ OriginalKept'
         /\ LateInv'
         /\ \A k \in Keys :
              stored'[k] # stored[k] => put.slot = "key" /\ put.key = k /\ stored'[k] = put.bytes
         /\ faults' \in 0..MaxFaults /\ reparses' = reparses /\ crashes' = crashes
<1>1. faults' \in 0..MaxFaults /\ reparses' = reparses /\ crashes' = crashes
  BY DEF PutFails, CallFails, Inv, TypeOK
<1>2. put \in PutT /\ late \subseteq PutT
  BY DEF Harmless, Inv, TypeOK
<1>3. CASE UNCHANGED <<objects, late>>
  BY <1>1, <1>3 DEF Inv, TypeOK, StoreInv, OriginalKept, LateInv, objects
<1>4. CASE Land(put) /\ UNCHANGED late
  <2>1. LateInv'
    BY <1>2, <1>4, LandKeeps DEF Inv, StoreInv, LateInv, PutT
  <2> QED BY <1>1, <1>2, <1>4, <2>1, LandKeeps
<1>5. CASE late' = late \cup {put} /\ UNCHANGED objects
  BY <1>1, <1>2, <1>5 DEF Inv, TypeOK, StoreInv, OriginalKept, LateInv, Harmless, objects
<1> QED BY <1>3, <1>4, <1>5 DEF PutFails

-----------------------------------------------------------------------------
(* One lemma for each kind of step.                                         *)

\* Steps that leave objects, late puts and attempts alone.
LEMMA InvFrame ==
  ASSUME Inv, TypeOK', UNCHANGED <<objects, late, work>>
  PROVE  Inv'
BY DEF Inv, StoreInv, OriginalKept, LateInv, AttemptInv, objects

LEMMA InvUpload ==
  ASSUME Inv, NEW k \in Keys, Upload(k)
  PROVE  Inv'
<1>1. ASSUME NEW f \in Files, UploadStart(k, f) PROVE Inv'
  <2>1. TypeOK' BY <1>1 DEF UploadStart, Inv, TypeOK, objects, history, counts
  <2> QED BY <1>1, <2>1, InvFrame DEF UploadStart, history
<1>2. CASE UploadPut(k)
  <2> DEFINE put == Put(k, "key", Original)
  <2>1. Land(put) /\ Harmless(put) /\ put.bytes = Original /\ Original \notin Turned
    BY <1>2, OriginalHarmless DEF UploadPut, Put
  <2> HIDE DEF put
  <2>2. TypeOK'
    BY <1>2, <2>1, LandKeeps DEF UploadPut, Inv, TypeOK, history, counts
  <2>3. LateInv' /\ \A x \in Keys : AttemptInv(x)'
    BY <1>2, <2>1, LandKeeps DEF UploadPut, Inv, TypeOK, PutT, StoreInv, LateInv, AttemptInv, history
  <2> QED BY <2>1, <2>2, <2>3, LandKeeps DEF Inv, StoreInv
<1>3. CASE UploadPutFails(k)
  <2> DEFINE put == Put(k, "key", Original)
  <2>1. PutFails(put) /\ Harmless(put) /\ put.bytes = Original /\ Original \notin Turned
    BY <1>3, OriginalHarmless DEF UploadPutFails, Put
  <2> HIDE DEF put
  <2>2. TypeOK'
    BY <1>3, <2>1, FailedPutKeeps DEF UploadPutFails, Inv, TypeOK
  <2>3. \A x \in Keys : AttemptInv(x)'
    BY <1>3, <2>1, FailedPutKeeps DEF UploadPutFails, Inv, StoreInv, AttemptInv
  <2> QED BY <2>1, <2>2, <2>3, FailedPutKeeps DEF Inv, StoreInv
<1>4. CASE Create(k)
  <2>1. TypeOK' BY <1>4 DEF Create, Inv, TypeOK, WorkT, objects, history, counts
  <2>2. \A x \in Keys : AttemptInv(x)'
    BY <1>4 DEF Create, Inv, TypeOK, WorkT, StoreInv, AttemptInv, objects, history
  <2> QED BY <1>4, <2>1, <2>2 DEF Create, Inv, StoreInv, OriginalKept, LateInv, objects, history
<1>5. CASE CreateFails(k)
  <2>1. TypeOK' BY <1>5 DEF CreateFails, CallFails, Inv, TypeOK, objects, history
  <2> QED BY <1>5, <2>1, InvFrame DEF CreateFails, history
<1>6. CASE CreateLoses(k)
  <2>1. TypeOK' BY <1>6 DEF CreateLoses, Inv, TypeOK, objects, history, counts
  <2> QED BY <1>6, <2>1, InvFrame DEF CreateLoses, history
<1>7. CASE Cleanup(k)
  <2>1. TypeOK' BY <1>7 DEF Cleanup, CallFails, Inv, TypeOK, history, counts
  <2>2. \A x \in Keys : stored'[x] \in {stored[x], Nothing}
    BY <1>7 DEF Cleanup, Inv, TypeOK
  <2> QED BY <1>7, <2>1, <2>2 DEF Cleanup, Inv, StoreInv, OriginalKept, LateInv, AttemptInv, history
<1> QED BY <1>1, <1>2, <1>3, <1>4, <1>5, <1>6, <1>7 DEF Upload

\* The attempt goes on to w and nothing else changes.
LEMMA InvGoes ==
  ASSUME Inv, NEW k \in Keys, NEW w \in WorkT, Goes(k, w), UNCHANGED objects, AttemptInv(k)'
  PROVE  Inv'
<1>1. /\ work' \in [Keys -> WorkT]
      /\ \A x \in Keys : x # k => work'[x] = work[x]
  BY DEF Goes, Inv, TypeOK
<1>2. TypeOK'
  BY <1>1 DEF Goes, Inv, TypeOK, objects, history, counts
<1>3. ASSUME NEW x \in Keys, x # k PROVE AttemptInv(x)'
  BY <1>1, <1>3 DEF Goes, Inv, StoreInv, AttemptInv, objects, history
<1>4. \A x \in Keys : AttemptInv(x)'
  BY <1>3
<1> QED BY <1>2, <1>4 DEF Goes, Inv, StoreInv, OriginalKept, LateInv, objects, history

\* The steps of an attempt that write nothing.
LEMMA InvRead ==
  ASSUME Inv, NEW k \in Keys,
         \/ Fetch(k) \/ FetchOrig(k) \/ FetchKey(k) \/ DetectTurns(k) \/ DetectZeros(k)
         \/ Current(k)
  PROVE  Inv'
<1>0. /\ work[k] \in WorkT /\ AttemptInv(k)
      /\ orig[k] \in {Nothing, Original} /\ stored[k] \in Versions \cup {Nothing}
      /\ stored[k] \in Turned => orig[k] = Original
  BY DEF Inv, TypeOK, StoreInv, OriginalKept
<1>1. CASE Fetch(k)
  <2> DEFINE w == [work[k] EXCEPT !.pc = "parse", !.src = stored[k]]
  <2>1. w \in WorkT /\ w.pc = "parse" BY <1>0 DEF WorkT
  <2>2. Goes(k, w) /\ UNCHANGED objects BY <1>1 DEF Fetch
  <2> HIDE DEF w
  <2>3. AttemptInv(k)' BY <2>1, <2>2 DEF Goes, Inv, TypeOK, AttemptInv
  <2> QED BY <2>1, <2>2, <2>3, InvGoes
<1>2. CASE FetchOrig(k) /\ orig[k] # Nothing
  <2> DEFINE w == [work[k] EXCEPT !.pc = "detectOrig", !.src = orig[k]]
  <2>1. w \in WorkT /\ w.pc = "detectOrig" BY <1>0 DEF WorkT
  <2>2. Goes(k, w) /\ UNCHANGED objects BY <1>2 DEF FetchOrig
  <2> HIDE DEF w
  <2>3. AttemptInv(k)' BY <1>0, <1>2, <2>1, <2>2 DEF Goes, Inv, TypeOK, AttemptInv, objects
  <2> QED BY <2>1, <2>2, <2>3, InvGoes
<1>3. CASE FetchOrig(k) /\ orig[k] = Nothing
  <2> DEFINE w == [work[k] EXCEPT !.pc = "fetchKey"]
  <2>1. w \in WorkT /\ w.pc = "fetchKey" BY <1>0 DEF WorkT
  <2>2. Goes(k, w) /\ UNCHANGED objects BY <1>3 DEF FetchOrig
  <2> HIDE DEF w
  <2>3. \A put \in late : put.key = k /\ put.slot = "key" => put.bytes = Original
    BY <1>3 DEF Inv, TypeOK, PutT, StoreInv, LateInv
  <2>4. AttemptInv(k)'
    BY <1>0, <1>3, <2>1, <2>2, <2>3 DEF Goes, Inv, TypeOK, AttemptInv, objects, history
  <2> QED BY <2>1, <2>2, <2>4, InvGoes
<1>4. CASE FetchKey(k)
  <2> DEFINE w == [work[k] EXCEPT !.pc = "detect", !.src = stored[k]]
  <2>1. stored[k] = Original BY <1>0, <1>4 DEF FetchKey, Busy, AttemptInv
  <2>2. w \in WorkT /\ w.pc = "detect" /\ w.src = Original BY <1>0, <2>1 DEF WorkT
  <2>3. Goes(k, w) /\ UNCHANGED objects BY <1>4 DEF FetchKey
  <2> HIDE DEF w
  <2>4. AttemptInv(k)' BY <2>2, <2>3 DEF Goes, Inv, TypeOK, AttemptInv
  <2> QED BY <2>2, <2>3, <2>4, InvGoes
<1>5. CASE DetectTurns(k)
  <2>1. PICK v \in Turned :
          \/ work[k].pc = "detect" /\ Goes(k, [work[k] EXCEPT !.pc = "backup", !.fixed = v])
          \/ work[k].pc = "detectOrig" /\ Goes(k, [work[k] EXCEPT !.pc = "overwrite", !.fixed = v])
    BY <1>5 DEF DetectTurns, Busy
  <2>2. CASE work[k].pc = "detect" /\ Goes(k, [work[k] EXCEPT !.pc = "backup", !.fixed = v])
    <3> DEFINE w == [work[k] EXCEPT !.pc = "backup", !.fixed = v]
    <3>1. w \in WorkT /\ w.pc = "backup" /\ w.fixed = v /\ w.src = Original
      BY <1>0, <2>2 DEF WorkT, AttemptInv
    <3>2. Goes(k, w) /\ UNCHANGED objects BY <1>5, <2>2 DEF DetectTurns
    <3> HIDE DEF w
    <3>3. AttemptInv(k)' BY <3>1, <3>2 DEF Goes, Inv, TypeOK, AttemptInv
    <3> QED BY <3>1, <3>2, <3>3, InvGoes
  <2>3. CASE work[k].pc = "detectOrig" /\ Goes(k, [work[k] EXCEPT !.pc = "overwrite", !.fixed = v])
    <3> DEFINE w == [work[k] EXCEPT !.pc = "overwrite", !.fixed = v]
    <3>1. w \in WorkT /\ w.pc = "overwrite" /\ w.fixed = v /\ orig[k] = Original
      BY <1>0, <2>3 DEF WorkT, AttemptInv
    <3>2. Goes(k, w) /\ UNCHANGED objects BY <1>5, <2>3 DEF DetectTurns
    <3> HIDE DEF w
    <3>3. AttemptInv(k)' BY <3>1, <3>2 DEF Goes, Inv, TypeOK, AttemptInv, objects
    <3> QED BY <3>1, <3>2, <3>3, InvGoes
  <2> QED BY <2>1, <2>2, <2>3
<1>6. ASSUME NEW pc \in {"parse", "current"}, Goes(k, [work[k] EXCEPT !.pc = pc]), UNCHANGED objects
      PROVE Inv'
  <2> DEFINE w == [work[k] EXCEPT !.pc = pc]
  <2>1. w \in WorkT /\ w.pc = pc BY <1>0 DEF WorkT
  <2>2. Goes(k, w) BY <1>6
  <2> HIDE DEF w
  <2>3. AttemptInv(k)' BY <2>1, <2>2 DEF Goes, Inv, TypeOK, AttemptInv
  <2> QED BY <1>6, <2>1, <2>2, <2>3, InvGoes
<1>7. CASE DetectZeros(k) BY <1>6, <1>7 DEF DetectZeros
<1>8. CASE Current(k)
  <2> DEFINE w == [work[k] EXCEPT !.pc = "parse", !.src = stored[k]]
  <2>1. w \in WorkT /\ w.pc = "parse" BY <1>0 DEF WorkT
  <2>2. Goes(k, w) /\ UNCHANGED objects BY <1>8 DEF Current
  <2> HIDE DEF w
  <2>3. AttemptInv(k)' BY <2>1, <2>2 DEF Goes, Inv, TypeOK, AttemptInv
  <2> QED BY <2>1, <2>2, <2>3, InvGoes
<1> QED BY <1>1, <1>2, <1>3, <1>4, <1>5, <1>7, <1>8

\* An attempt that is over claims nothing.
LEMMA OverClaimsNothing ==
  ASSUME NEW k \in Keys, work'[k] = Idle
  PROVE  AttemptInv(k)'
BY DEF AttemptInv, Idle

LEMMA InvAttempt ==
  ASSUME Inv, NEW k \in Keys, Attempt(k)
  PROVE  Inv'
<1>1. ASSUME NEW pc \in {"fetch", "fetchOrig"}, Reparse(k, pc) PROVE Inv'
  <2>0. work' \in [Keys -> WorkT] /\ reparses' \in 0..MaxReparses
    <3>1. work' \in [Keys -> WorkT]
      <4> DEFINE w == [work[k] EXCEPT !.pc = pc]
      <4>1. work[k] \in WorkT /\ work \in [Keys -> WorkT] BY DEF Inv, TypeOK
      <4>2. w \in WorkT BY <4>1 DEF WorkT
      <4>3. work' = [work EXCEPT ![k] = w] BY <1>1 DEF Reparse
      <4> HIDE DEF w
      <4> QED BY <4>1, <4>2, <4>3
    <3>2. reparses' \in 0..MaxReparses BY <1>1 DEF Reparse, Inv, TypeOK
    <3> QED BY <3>1, <3>2
  <2>1. TypeOK' BY <1>1, <2>0 DEF Reparse, Inv, TypeOK, objects, history
  <2>2. \A x \in Keys : AttemptInv(x)'
    BY <1>1 DEF Reparse, Inv, TypeOK, WorkT, StoreInv, AttemptInv, objects, history
  <2> QED BY <1>1, <2>1, <2>2 DEF Reparse, Inv, StoreInv, OriginalKept, LateInv, objects, history
<1>2. CASE \/ Fetch(k) \/ FetchOrig(k) \/ FetchKey(k) \/ DetectTurns(k) \/ DetectZeros(k)
           \/ Current(k)
  BY <1>2, InvRead
<1>3. CASE Backup(k)
  <2> DEFINE put == Put(k, "orig", work[k].src)
  <2>1. /\ Land(put) /\ Harmless(put) /\ put.slot = "orig" /\ put.key = k
        /\ work[k].pc = "backup" /\ work[k].src = Original /\ work[k].fixed \in Turned
    BY <1>3, PutOfHarmless DEF Backup, Busy, Inv, StoreInv, AttemptInv, Put
  <2>2. orig'[k] = Original /\ stored' = stored
    BY <2>1 DEF Land, Inv, TypeOK, Put
  <2>3. /\ work' = [work EXCEPT ![k] = [work[k] EXCEPT !.pc = "overwrite"]]
        /\ UNCHANGED <<row, hash, source, upload, deletion, project, history, counts>>
    BY <1>3 DEF Backup, Goes
  <2> HIDE DEF put
  <2>4. TypeOK'
    BY <2>1, <2>3, LandKeeps DEF Inv, TypeOK, WorkT, history, counts
  <2>5. \A x \in Keys : AttemptInv(x)'
    BY <2>1, <2>2, <2>3, LandKeeps DEF Inv, TypeOK, WorkT, StoreInv, AttemptInv, history
  <2>6. LateInv'
    BY <2>1, <2>3, LandKeeps DEF Inv, TypeOK, PutT, StoreInv, LateInv, history
  <2> QED BY <2>1, <2>4, <2>5, <2>6, LandKeeps DEF Inv, StoreInv
<1>4. CASE Overwrite(k)
  <2> DEFINE put == Put(k, "key", work[k].fixed)
  <2>1. /\ Land(put) /\ Harmless(put) /\ put.slot = "key" /\ put.key = k
        /\ work[k].pc = "overwrite" /\ work[k].fixed \in Turned
    BY <1>4, PutOfHarmless DEF Overwrite, Busy, Inv, StoreInv, AttemptInv, Put
  <2>2. /\ work' = [work EXCEPT ![k] = [work[k] EXCEPT !.pc = "parse", !.src = work[k].fixed]]
        /\ UNCHANGED <<row, hash, source, upload, deletion, project, history, counts>>
    BY <1>4 DEF Overwrite, Goes
  <2> HIDE DEF put
  <2>0. work' \in [Keys -> WorkT]
    <3> DEFINE w == [work[k] EXCEPT !.pc = "parse", !.src = work[k].fixed]
    <3>1. work[k] \in WorkT /\ work \in [Keys -> WorkT] BY DEF Inv, TypeOK
    <3>2. w \in WorkT BY <2>1, <3>1 DEF WorkT
    <3> HIDE DEF w
    <3> QED BY <2>2, <3>1, <3>2 DEF w
  <2>3. TypeOK'
    BY <2>0, <2>1, <2>2, LandKeeps DEF Inv, TypeOK, history, counts
  <2>4. \A x \in Keys : AttemptInv(x)'
    BY <2>1, <2>2, LandKeeps DEF Inv, TypeOK, WorkT, StoreInv, AttemptInv, history
  <2>5. LateInv'
    BY <2>1, <2>2, LandKeeps DEF Inv, TypeOK, PutT, StoreInv, LateInv, history
  <2> QED BY <2>1, <2>3, <2>4, <2>5, LandKeeps DEF Inv, StoreInv
<1>5. CASE Parse(k)
  <2>1. TypeOK' BY <1>5 DEF Parse, Inv, TypeOK, WorkT, Idle, objects, history, counts
  <2>2. \A x \in Keys : AttemptInv(x)'
    BY <1>5, OverClaimsNothing DEF Parse, Inv, TypeOK, StoreInv, AttemptInv, objects, history
  <2> QED BY <1>5, <2>1, <2>2 DEF Parse, Inv, StoreInv, OriginalKept, LateInv, objects, history
<1>6. CASE CallFailsIn(k) \/ Missing(k)
  <2>1. /\ Fails(k) /\ UNCHANGED <<objects, late>>
        /\ faults' \in 0..MaxFaults /\ reparses' = reparses /\ crashes' = crashes
    BY <1>6 DEF CallFailsIn, Missing, CallFails, Inv, TypeOK, counts
  <2>2. TypeOK' BY <2>1 DEF Fails, Inv, TypeOK, WorkT, Idle, objects
  <2>3. \A x \in Keys : AttemptInv(x)'
    BY <2>1, OverClaimsNothing DEF Fails, Inv, TypeOK, StoreInv, AttemptInv, objects
  <2> QED BY <2>1, <2>2, <2>3 DEF Inv, StoreInv, OriginalKept, LateInv, objects
<1>7. CASE BackupOrOverwriteFails(k)
  <2> DEFINE put == PutOf(k)
  <2>1. PutFails(put) /\ Harmless(put) /\ put.key = k /\ Fails(k)
    BY <1>7, PutOfHarmless DEF BackupOrOverwriteFails
  <2> HIDE DEF put
  <2>2. TypeOK' BY <2>1, FailedPutKeeps DEF Fails, Inv, TypeOK, WorkT, Idle
  <2>3. \A x \in Keys : AttemptInv(x)'
    BY <2>1, OverClaimsNothing, FailedPutKeeps DEF Fails, Inv, TypeOK, StoreInv, AttemptInv
  <2> QED BY <2>1, <2>2, <2>3, FailedPutKeeps DEF Inv, StoreInv
<1>8. CASE RowGone(k)
  <2>1. Goes(k, Idle) /\ UNCHANGED objects /\ Idle \in WorkT
    BY <1>8 DEF RowGone, Idle, WorkT
  <2>2. work'[k] = Idle BY <2>1 DEF Goes, Inv, TypeOK
  <2> QED BY <2>1, <2>2, OverClaimsNothing, InvGoes
<1> QED BY <1>1, <1>2, <1>3, <1>4, <1>5, <1>6, <1>7, <1>8 DEF Attempt

\* Rows come and go without a word to the store.
LEMMA InvDropProject ==
  ASSUME Inv, DropProject
  PROVE  Inv'
<1>1. TypeOK' BY DEF DropProject, Rows, Inv, TypeOK, objects, counts
<1> QED BY <1>1, InvFrame DEF DropProject

LEMMA InvDeletion ==
  ASSUME Inv, NEW k \in Keys, Deletion(k)
  PROVE  Inv'
<1>1. CASE DeleteStart(k)
  <2>1. TypeOK' BY <1>1 DEF DeleteStart, Inv, TypeOK, objects, history, counts
  <2> QED BY <1>1, <2>1, InvFrame DEF DeleteStart, history
<1>2. CASE DeleteObject(k)
  <2>1. TypeOK' BY <1>2 DEF DeleteObject, CallFails, Inv, TypeOK, history, counts
  <2>2. \A x \in Keys : stored'[x] \in {stored[x], Nothing}
    BY <1>2 DEF DeleteObject, Inv, TypeOK
  <2> QED BY <1>2, <2>1, <2>2 DEF DeleteObject, Inv, StoreInv, OriginalKept, LateInv, AttemptInv, history
<1>3. CASE DeleteRow(k)
  <2>1. TypeOK' BY <1>3 DEF DeleteRow, Inv, TypeOK, objects, history, counts
  <2> QED BY <1>3, <2>1, InvFrame DEF DeleteRow, history
<1>4. CASE DeleteRowFails(k)
  <2>1. TypeOK' BY <1>4 DEF DeleteRowFails, CallFails, Inv, TypeOK, objects
  <2> QED BY <1>4, <2>1, InvFrame DEF DeleteRowFails
<1> QED BY <1>1, <1>2, <1>3, <1>4 DEF Deletion

LEMMA InvLateLand ==
  ASSUME Inv, NEW put \in late, LateLand(put)
  PROVE  Inv'
<1>1. Land(put) /\ Harmless(put) /\ put \in PutT
  BY LateHarmless DEF LateLand, Harmless
<1>2. /\ late' = late \ {put} /\ overrun' = overrun \cup {put.key}
      /\ UNCHANGED <<row, hash, source, upload, work, deletion, project, torn, dropped, counts>>
  BY DEF LateLand
<1>3. TypeOK'
  BY <1>1, <1>2, LandKeeps DEF Inv, TypeOK, PutT, counts
<1>4. LateInv'
  BY <1>1, <1>2, LandKeeps DEF Inv, TypeOK, PutT, StoreInv, LateInv
<1>5. ASSUME NEW x \in Keys PROVE AttemptInv(x)'
  <2>1. AttemptInv(x) BY DEF Inv, StoreInv
  <2>2. work[x].pc = "fetchKey" => stored'[x] \notin Turned
    BY <1>1, <2>1, LandKeeps DEF AttemptInv
  <2> QED BY <1>1, <1>2, <2>1, <2>2, LandKeeps DEF AttemptInv
<1> QED BY <1>1, <1>3, <1>4, <1>5, LandKeeps DEF Inv, StoreInv

LEMMA InvCrash ==
  ASSUME Inv, Crash
  PROVE  Inv'
<1> DEFINE sent == {Put(k, "key", Original) : k \in {x \in Keys : upload[x] = "put"}}
                     \cup {PutOf(k) : k \in {x \in Keys : work[x].pc \in {"backup", "overwrite"}}}
<1>1. \A put \in sent : Harmless(put)
  BY PutOfHarmless, OriginalHarmless
<1> HIDE DEF sent
<1>2. late' \subseteq late \cup sent /\ UNCHANGED objects
  BY DEF Crash, sent
<1>3. \A put \in late' : Harmless(put)
  BY <1>1, <1>2, LateHarmless
<1>4. TypeOK'
  BY <1>2, <1>3 DEF Crash, Inv, TypeOK, Harmless, WorkT, Idle, objects
<1>5. \A x \in Keys : AttemptInv(x)'
  BY OverClaimsNothing DEF Crash
<1> QED BY <1>2, <1>3, <1>4, <1>5 DEF Inv, StoreInv, OriginalKept, LateInv, Harmless, objects

-----------------------------------------------------------------------------
\* Inv holds in every reachable state.
THEOREM StorageInvariance == Spec => []Inv
<1>1. Init => Inv BY InvInit
<1>2. Inv /\ [Next]_vars => Inv'
  <2> SUFFICES ASSUME Inv, [Next]_vars PROVE Inv'
    OBVIOUS
  <2>1. ASSUME NEW k \in Keys, Upload(k) PROVE Inv' BY <2>1, InvUpload
  <2>2. ASSUME NEW k \in Keys, Attempt(k) PROVE Inv' BY <2>2, InvAttempt
  <2>3. ASSUME NEW k \in Keys, Deletion(k) PROVE Inv' BY <2>3, InvDeletion
  <2>4. ASSUME NEW put \in late, LateLand(put) PROVE Inv' BY <2>4, InvLateLand
  <2>5. CASE Crash BY <2>5, InvCrash
  <2>6. CASE DropProject BY <2>6, InvDropProject
  <2>7. CASE UNCHANGED vars
    BY <2>7 DEF vars, objects, history, counts, Inv, TypeOK, StoreInv, OriginalKept, LateInv, AttemptInv
  <2> QED BY <2>1, <2>2, <2>3, <2>4, <2>5, <2>6, <2>7 DEF Next
<1> QED BY <1>1, <1>2, PTL DEF Spec

\* Types, for every set of files, keys and versions.
THEOREM StorageTypeCorrect == Spec => []TypeOK
<1>1. Inv => TypeOK BY DEF Inv
<1> QED BY <1>1, StorageInvariance, PTL

\* An object that has been corrected has its original beside it, whatever failed,
\* crashed or landed late (_run_deskew of processing.py).
THEOREM OriginalNeverLost == Spec => []OriginalKept
<1>1. Inv => OriginalKept BY DEF Inv, StoreInv
<1> QED BY <1>1, StorageInvariance, PTL
-----------------------------------------------------------------------------
(* Rows and their objects.                                                  *)

\* Who may be at work on a document: its upload is over, an attempt has made it
\* busy, a deletion has found it at rest.
PlaceInv(k) ==
  /\ hash[k] = None => upload[k] = "none"
  /\ row[k] # "none" => upload[k] = "done"
  /\ work[k].pc # "none" => upload[k] = "done" /\ (row[k] = "none" => k \in dropped) /\ row[k] \in {"none", "busy"}
  /\ deletion[k] # "none" => row[k] \in {"parsed", "error"}

\* The object is there from the upload's put to the deletion's call, and what an
\* attempt has read is what is stored.
BytesInv(k) ==
  /\ upload[k] = "create" => stored[k] # Nothing
  /\ row[k] # "none" /\ deletion[k] # "row" /\ k \notin torn => stored[k] # Nothing
  /\ work[k].pc \in {"detect", "parse"} /\ k \notin overrun => work[k].src = stored[k]
  /\ row[k] = "parsed" /\ deletion[k] # "row" /\ k \notin torn \cup overrun =>
       source[k] = stored[k]

\* Without a failed call and a crash, no put is late and the object is gone
\* before the row, unless the row went with the project.
QuietInv ==
  faults = 0 /\ crashes = 0 =>
    /\ late = {}
    /\ \A k \in Keys \ dropped :
         /\ stored[k] # Nothing => row[k] # "none" \/ upload[k] \in {"create", "cleanup"}
         /\ deletion[k] = "row" => stored[k] = Nothing

RowsInv == QuietInv /\ \A k \in Keys : PlaceInv(k) /\ BytesInv(k)

LEMMA RowsInit == Init => RowsInv
BY DEF Init, RowsInv, QuietInv, PlaceInv, BytesInv, Idle

\* A failed call ends the quiet.
LEMMA FaultEndsQuiet ==
  ASSUME Inv, CallFails
  PROVE  QuietInv'
BY DEF Inv, TypeOK, CallFails, QuietInv

LEMMA RowsUpload ==
  ASSUME Inv, RowsInv, NEW k \in Keys, Upload(k)
  PROVE  RowsInv'
<1> USE DEF PlaceInv, BytesInv, Inv, TypeOK
<1>0. PlaceInv(k) /\ BytesInv(k) /\ \A x \in Keys : PlaceInv(x) /\ BytesInv(x)
  BY DEF RowsInv
<1>1. ASSUME NEW f \in Files, UploadStart(k, f) PROVE RowsInv'
  <2>1. hash'[k] # None /\ upload[k] = "none"
    BY <1>0, <1>1 DEF UploadStart
  <2> QED BY <1>1, <2>1 DEF UploadStart, RowsInv, QuietInv, objects, history, counts
<1>2. CASE UploadPut(k)
  <2>1. stored' = [stored EXCEPT ![k] = Original]
    BY <1>2 DEF UploadPut, Land, Put
  <2> QED BY <1>2, <2>1 DEF UploadPut, RowsInv, QuietInv, history, counts
<1>3. CASE UploadPutFails(k)
  <2> DEFINE put == Put(k, "key", Original)
  <2>1. PutFails(put) /\ Harmless(put) /\ put.key = k
    BY <1>3, OriginalHarmless DEF UploadPutFails, Put
  <2> HIDE DEF put
  <2>2. QuietInv' BY <2>1, FaultEndsQuiet DEF PutFails
  <2>3. \A x \in Keys : x # k => stored'[x] = stored[x]
    BY <2>1, FailedPutKeeps
  <2>4. \A x \in Keys : PlaceInv(x)' BY <1>0, <1>3 DEF UploadPutFails
  <2>5. \A x \in Keys : BytesInv(x)'
    BY <1>0, <1>3, <2>3 DEF UploadPutFails
  <2> QED BY <2>2, <2>4, <2>5 DEF RowsInv
<1>4. CASE Create(k)
  <2> DEFINE w == [work[k] EXCEPT !.pc = "fetch"]
  <2>1. work[k] \in WorkT /\ w.pc = "fetch" BY DEF WorkT
  <2>2. work' = [work EXCEPT ![k] = w] BY <1>4 DEF Create
  <2> HIDE DEF w
  <2>3. /\ upload[k] = "create" /\ row'[k] = "busy" /\ upload'[k] = "done" /\ work'[k] = w
        /\ \A x \in Keys \ {k} : row'[x] = row[x] /\ upload'[x] = upload[x] /\ work'[x] = work[x]
        /\ UNCHANGED <<hash, stored, source, deletion, torn, overrun, dropped>>
    BY <1>4, <2>2 DEF Create, objects, history
  <2>5. \A x \in Keys : PlaceInv(x)'
    <3>1. PlaceInv(k)'
      <4>1. hash[k] # None /\ deletion[k] = "none" BY <1>0, <2>3
      <4> HIDE DEF Inv, TypeOK
      <4> QED BY <2>3, <4>1
    <3>2. ASSUME NEW x \in Keys \ {k} PROVE PlaceInv(x)'
      <4>1. PlaceInv(x) BY <1>0
      <4> QED BY <2>3, <4>1
    <3> QED BY <3>1, <3>2
  <2>6. \A x \in Keys : BytesInv(x)' BY <1>0, <2>1, <2>3
  <2>4. QuietInv' BY <1>0, <1>4 DEF Create, RowsInv, QuietInv, objects, history, counts
  <2> QED BY <2>4, <2>5, <2>6 DEF RowsInv
<1>5. CASE CreateFails(k)
  <2>1. QuietInv' BY <1>5, FaultEndsQuiet DEF CreateFails
  <2>2. \A x \in Keys : PlaceInv(x)' /\ BytesInv(x)'
    BY <1>0, <1>5 DEF CreateFails, objects, history
  <2> QED BY <2>1, <2>2 DEF RowsInv
<1>6. CASE CreateLoses(k)
  BY <1>6 DEF CreateLoses, RowsInv, QuietInv, objects, history, counts
<1>7. CASE Cleanup(k)
  <2>1. QuietInv'
    <3>1. CASE stored' = [stored EXCEPT ![k] = Nothing] /\ UNCHANGED counts
      BY <1>7, <3>1 DEF Cleanup, RowsInv, QuietInv, history, counts
    <3>2. CASE CallFails BY <3>2, FaultEndsQuiet
    <3> QED BY <1>7, <3>1, <3>2 DEF Cleanup
  <2>2. \A x \in Keys : x # k => stored'[x] = stored[x] BY <1>7 DEF Cleanup
  <2>3. \A x \in Keys : PlaceInv(x)' /\ BytesInv(x)'
    BY <1>0, <1>7, <2>2 DEF Cleanup, history
  <2> QED BY <2>1, <2>3 DEF RowsInv
<1> QED BY <1>1, <1>2, <1>3, <1>4, <1>5, <1>6, <1>7 DEF Upload

\* A step of the attempt that goes on without a fault or a put.
LEMMA RowsGoes ==
  ASSUME Inv, RowsInv, NEW k \in Keys, NEW w \in WorkT, Goes(k, w), UNCHANGED objects,
         work[k].pc # "none",
         w.pc \in {"detect", "parse"} /\ k \notin overrun => w.src = stored[k]
  PROVE  RowsInv'
<1>1. /\ work' \in [Keys -> WorkT] /\ work'[k] = w
      /\ \A x \in Keys : x # k => work'[x] = work[x]
  BY DEF Goes, Inv, TypeOK
<1>2. QuietInv'
  BY DEF Goes, RowsInv, QuietInv, objects, history, counts
<1>3. \A x \in Keys : PlaceInv(x)'
  BY <1>1 DEF Goes, RowsInv, PlaceInv, history
<1>4. \A x \in Keys : BytesInv(x)'
  BY <1>1 DEF Goes, RowsInv, BytesInv, objects, history
<1> QED BY <1>2, <1>3, <1>4 DEF RowsInv

LEMMA RowsRead ==
  ASSUME Inv, RowsInv, NEW k \in Keys,
         \/ Fetch(k) \/ FetchOrig(k) \/ FetchKey(k) \/ DetectTurns(k) \/ DetectZeros(k)
         \/ Current(k)
  PROVE  RowsInv'
<1>0. /\ work[k] \in WorkT /\ orig[k] \in Versions \cup {Nothing}
      /\ stored[k] \in Versions \cup {Nothing}
      /\ work[k].pc = "detect" /\ k \notin overrun => work[k].src = stored[k]
  BY DEF Inv, TypeOK, RowsInv, BytesInv
<1> DEFINE with(pc, src) == [work[k] EXCEPT !.pc = pc, !.src = src]
           at(pc) == [work[k] EXCEPT !.pc = pc]
<1>1. ASSUME NEW pc \in {"parse", "detect", "detectOrig"}, NEW src \in Versions \cup {Nothing}
      PROVE  with(pc, src) \in WorkT /\ with(pc, src).pc = pc /\ with(pc, src).src = src
  BY <1>0 DEF WorkT
<1>2. ASSUME NEW pc \in {"parse", "fetchKey", "current"}
      PROVE  at(pc) \in WorkT /\ at(pc).pc = pc /\ at(pc).src = work[k].src
  BY <1>0 DEF WorkT
<1>3. CASE Fetch(k) \/ FetchKey(k) \/ Current(k)
  <2>1. /\ work[k].pc # "none" /\ UNCHANGED objects
        /\ Goes(k, with("parse", stored[k])) \/ Goes(k, with("detect", stored[k]))
    BY <1>3 DEF Fetch, FetchKey, Current, Busy
  <2> HIDE DEF with
  <2> QED BY <1>0, <1>1, <2>1, RowsGoes
<1>4. CASE FetchOrig(k)
  <2>1. /\ work[k].pc # "none" /\ UNCHANGED objects
        /\ Goes(k, with("detectOrig", orig[k])) \/ Goes(k, at("fetchKey"))
    BY <1>4 DEF FetchOrig, Busy
  <2> HIDE DEF with, at
  <2> QED BY <1>0, <1>1, <1>2, <2>1, RowsGoes
<1>5. CASE DetectZeros(k)
  <2>1. /\ work[k].pc # "none" /\ UNCHANGED objects
        /\ \/ work[k].pc = "detect" /\ Goes(k, at("parse"))
           \/ Goes(k, at("current"))
    BY <1>5 DEF DetectZeros, Busy
  <2> HIDE DEF at
  <2> QED BY <1>0, <1>2, <2>1, RowsGoes
<1>6. CASE DetectTurns(k)
  <2>1. PICK v \in Turned, pc \in {"backup", "overwrite"} :
          Goes(k, [work[k] EXCEPT !.pc = pc, !.fixed = v])
    BY <1>6 DEF DetectTurns
  <2> DEFINE w == [work[k] EXCEPT !.pc = pc, !.fixed = v]
  <2>2. w \in WorkT /\ w.pc = pc BY <1>0 DEF WorkT
  <2>3. Goes(k, w) /\ work[k].pc # "none" /\ UNCHANGED objects
    BY <1>6, <2>1 DEF DetectTurns, Busy
  <2> HIDE DEF w
  <2> QED BY <2>2, <2>3, RowsGoes
<1> QED BY <1>3, <1>4, <1>5, <1>6

LEMMA RowsAttempt ==
  ASSUME Inv, RowsInv, NEW k \in Keys, Attempt(k)
  PROVE  RowsInv'
<1> USE DEF PlaceInv, BytesInv, Inv, TypeOK
<1>0. /\ \A x \in Keys : PlaceInv(x) /\ BytesInv(x)
      /\ work[k] \in WorkT
  BY DEF RowsInv
<1>1. ASSUME NEW pc \in {"fetch", "fetchOrig"}, Reparse(k, pc) PROVE RowsInv'
  <2>1. work' = [work EXCEPT ![k] = [work[k] EXCEPT !.pc = pc]] /\ [work[k] EXCEPT !.pc = pc].pc = pc
    BY <1>0, <1>1 DEF Reparse, WorkT
  <2> DEFINE w == [work[k] EXCEPT !.pc = pc]
  <2>2. w.pc = pc /\ work' = [work EXCEPT ![k] = w] BY <2>1
  <2> HIDE DEF w
  <2>3. /\ row[k] \in {"parsed", "error"} /\ row'[k] = "busy" /\ work'[k] = w
        /\ \A x \in Keys \ {k} : row'[x] = row[x] /\ work'[x] = work[x]
        /\ deletion[k] = "none"
        /\ UNCHANGED <<hash, stored, source, upload, deletion, torn, overrun, dropped>>
    BY <1>1, <2>2 DEF Reparse, objects, history
  <2>5. \A x \in Keys : PlaceInv(x)'
    <3>1. PlaceInv(k)'
      <4>1. upload[k] = "done" /\ (hash[k] = None => upload[k] = "none") BY <1>0, <2>3
      <4> HIDE DEF Inv, TypeOK
      <4> QED BY <2>3, <4>1
    <3>2. ASSUME NEW x \in Keys \ {k} PROVE PlaceInv(x)'
      <4>1. PlaceInv(x) BY <1>0
      <4> QED BY <2>3, <4>1
    <3> QED BY <3>1, <3>2
  <2>6. \A x \in Keys : BytesInv(x)' BY <1>0, <1>1, <2>2, <2>3
  <2>4. QuietInv' BY <1>0, <1>1 DEF Reparse, RowsInv, QuietInv, objects, history
  <2> QED BY <2>4, <2>5, <2>6 DEF RowsInv
<1>2. CASE \/ Fetch(k) \/ FetchOrig(k) \/ FetchKey(k) \/ DetectTurns(k) \/ DetectZeros(k)
           \/ Current(k)
  BY <1>2, RowsRead
<1>3. CASE Backup(k)
  <2> DEFINE w == [work[k] EXCEPT !.pc = "overwrite"]
  <2>1. w \in WorkT /\ w.pc = "overwrite" BY <1>0 DEF WorkT
  <2>2. Goes(k, w) /\ UNCHANGED stored /\ work[k].pc # "none"
    BY <1>3 DEF Backup, Busy, Land, Put
  <2> HIDE DEF w
  <2> QED BY <2>1, <2>2 DEF Goes, RowsInv, QuietInv, history, counts
<1>4. CASE Overwrite(k)
  <2> DEFINE w == [work[k] EXCEPT !.pc = "parse", !.src = work[k].fixed]
  <2>1. w \in WorkT /\ w.pc = "parse" /\ w.src = work[k].fixed BY <1>0 DEF WorkT
  <2>2. /\ Goes(k, w) /\ work[k].pc # "none"
        /\ stored' = [stored EXCEPT ![k] = work[k].fixed]
    BY <1>4 DEF Overwrite, Busy, Land, Put
  <2>3. work[k].fixed # Nothing
    BY <1>4, PutOfHarmless DEF Overwrite, Busy, StoreInv, AttemptInv
  <2> HIDE DEF w
  <2>4. QuietInv' BY <1>0, <2>2 DEF Goes, RowsInv, QuietInv, history, counts
  <2>5. \A x \in Keys : PlaceInv(x)' BY <1>0, <2>1, <2>2 DEF Goes, history
  <2>6. \A x \in Keys : BytesInv(x)' BY <1>0, <2>1, <2>2, <2>3 DEF Goes, history
  <2> QED BY <2>4, <2>5, <2>6 DEF RowsInv
<1>5. CASE Parse(k)
  <2>1. work[k].pc = "parse" /\ Idle.pc = "none" BY <1>5 DEF Parse, Busy, Idle
  <2>2. QuietInv' BY <1>5 DEF Parse, RowsInv, QuietInv, objects, history, counts
  <2>3. \A x \in Keys : PlaceInv(x)' /\ BytesInv(x)'
    BY <1>0, <1>5, <2>1 DEF Parse, objects, history
  <2> QED BY <2>2, <2>3 DEF RowsInv
<1>6. ASSUME Fails(k), work[k].pc # "none", \A x \in Keys \ {k} : stored'[x] = stored[x],
             stored[k] # Nothing => stored'[k] # Nothing
      PROVE \A x \in Keys : PlaceInv(x)' /\ BytesInv(x)'
  BY <1>0, <1>6 DEF Fails, Idle
<1>7. CASE CallFailsIn(k)
  <2>1. QuietInv' BY <1>7, FaultEndsQuiet DEF CallFailsIn
  <2> QED BY <1>6, <1>7, <2>1 DEF CallFailsIn, RowsInv, objects
<1>8. CASE Missing(k)
  <2>1. QuietInv'
    BY <1>8 DEF Missing, Fails, RowsInv, QuietInv, objects, counts
  <2> QED BY <1>6, <1>8, <2>1 DEF Missing, RowsInv, objects
<1>9. CASE BackupOrOverwriteFails(k)
  <2>1. PutFails(PutOf(k)) /\ Harmless(PutOf(k)) /\ PutOf(k).key = k /\ Fails(k)
    BY <1>9, PutOfHarmless DEF BackupOrOverwriteFails
  <2>2. QuietInv' BY <2>1, FaultEndsQuiet DEF PutFails
  <2>3. PutOf(k).bytes # Nothing BY <2>1 DEF Harmless, PutT
  <2>4. /\ \A x \in Keys \ {k} : stored'[x] = stored[x]
        /\ stored[k] # Nothing => stored'[k] # Nothing
    BY <2>1, <2>3, FailedPutKeeps
  <2> QED BY <1>6, <1>9, <2>1, <2>2, <2>4 DEF BackupOrOverwriteFails, RowsInv
<1>10. CASE RowGone(k)
  <2>1. Goes(k, Idle) /\ UNCHANGED objects /\ Idle \in WorkT /\ Idle.pc = "none" /\ work[k].pc # "none"
    BY <1>10 DEF RowGone, Idle, WorkT
  <2> QED BY <2>1, RowsGoes
<1> QED BY <1>1, <1>2, <1>3, <1>4, <1>5, <1>7, <1>8, <1>9, <1>10 DEF Attempt

\* The objects that lose their row are those of the project.
LEMMA RowsDropProject ==
  ASSUME Inv, RowsInv, DropProject
  PROVE  RowsInv'
<1>1. /\ dropped' = dropped \cup Rows /\ \A x \in Keys : row'[x] = "none" /\ deletion[x] = "none"
      /\ UNCHANGED <<hash, objects, source, upload, work, deletion, late, torn, overrun, counts>>
  BY DEF DropProject
<1>2. QuietInv'
  BY <1>1 DEF RowsInv, QuietInv, Rows, objects, counts
<1>3. ASSUME NEW x \in Keys PROVE PlaceInv(x)' /\ BytesInv(x)'
  BY <1>1 DEF RowsInv, PlaceInv, BytesInv, Rows, objects
<1> QED BY <1>2, <1>3 DEF RowsInv

LEMMA RowsDeletion ==
  ASSUME Inv, RowsInv, NEW k \in Keys, Deletion(k)
  PROVE  RowsInv'
<1> USE DEF PlaceInv, BytesInv, Inv, TypeOK
<1>0. \A x \in Keys : PlaceInv(x) /\ BytesInv(x)
  BY DEF RowsInv
<1>1. CASE DeleteStart(k)
  BY <1>1 DEF DeleteStart, RowsInv, QuietInv, objects, history, counts
<1>2. CASE DeleteObject(k)
  <2>1. QuietInv'
    <3>1. CASE stored' = [stored EXCEPT ![k] = Nothing] /\ UNCHANGED counts
      BY <1>2, <3>1 DEF DeleteObject, RowsInv, QuietInv, history, counts
    <3>2. CASE CallFails BY <3>2, FaultEndsQuiet
    <3> QED BY <1>2, <3>1, <3>2 DEF DeleteObject
  <2>2. \A x \in Keys : x # k => stored'[x] = stored[x] BY <1>2 DEF DeleteObject
  <2>3. \A x \in Keys : PlaceInv(x)' /\ BytesInv(x)'
    BY <1>0, <1>2, <2>2 DEF DeleteObject, history
  <2> QED BY <2>1, <2>3 DEF RowsInv
<1>3. CASE DeleteRow(k)
  BY <1>3 DEF DeleteRow, RowsInv, QuietInv, objects, history, counts
<1>4. CASE DeleteRowFails(k)
  <2>1. QuietInv' BY <1>4, FaultEndsQuiet DEF DeleteRowFails
  <2>2. \A x \in Keys : PlaceInv(x)' /\ BytesInv(x)'
    BY <1>0, <1>4 DEF DeleteRowFails, objects
  <2> QED BY <2>1, <2>2 DEF RowsInv
<1> QED BY <1>1, <1>2, <1>3, <1>4 DEF Deletion

LEMMA RowsLateLand ==
  ASSUME Inv, RowsInv, NEW put \in late, LateLand(put)
  PROVE  RowsInv'
<1>1. /\ Land(put) /\ Harmless(put) /\ put.bytes # Nothing
      /\ overrun' = overrun \cup {put.key}
      /\ UNCHANGED <<row, hash, source, upload, work, deletion, project, torn, dropped, counts>>
  BY LateHarmless DEF LateLand, Harmless, PutT
<1>2. \A x \in Keys : stored'[x] # stored[x] => x = put.key /\ stored'[x] # Nothing
  BY <1>1, LandKeeps
<1>3. QuietInv' BY <1>1 DEF RowsInv, QuietInv, counts
<1>4. \A x \in Keys : PlaceInv(x)' BY <1>1 DEF RowsInv, PlaceInv
<1>5. \A x \in Keys : BytesInv(x)' BY <1>1, <1>2 DEF RowsInv, BytesInv
<1> QED BY <1>3, <1>4, <1>5 DEF RowsInv

LEMMA RowsCrash ==
  ASSUME Inv, RowsInv, Crash
  PROVE  RowsInv'
<1>1. QuietInv' BY DEF Crash, Inv, TypeOK, QuietInv
<1>2. \A x \in Keys : PlaceInv(x)' /\ BytesInv(x)'
  BY DEF Crash, Inv, TypeOK, RowsInv, PlaceInv, BytesInv, Idle, objects
<1> QED BY <1>1, <1>2 DEF RowsInv

\* Who may still put, move or delete the object of a row, and what the row was
\* parsed from, in every reachable state (s3.py, processing.py).
THEOREM RowsInvariance == Spec => []RowsInv
<1>1. Init => RowsInv BY RowsInit
<1>2. Inv /\ RowsInv /\ [Next]_vars => RowsInv'
  <2> SUFFICES ASSUME Inv, RowsInv, [Next]_vars PROVE RowsInv'
    OBVIOUS
  <2>1. ASSUME NEW k \in Keys, Upload(k) PROVE RowsInv' BY <2>1, RowsUpload
  <2>2. ASSUME NEW k \in Keys, Attempt(k) PROVE RowsInv' BY <2>2, RowsAttempt
  <2>3. ASSUME NEW k \in Keys, Deletion(k) PROVE RowsInv' BY <2>3, RowsDeletion
  <2>4. ASSUME NEW put \in late, LateLand(put) PROVE RowsInv' BY <2>4, RowsLateLand
  <2>5. CASE Crash BY <2>5, RowsCrash
  <2>6. CASE DropProject BY <2>6, RowsDropProject
  <2>7. CASE UNCHANGED vars
    BY <2>7 DEF vars, objects, history, counts, RowsInv, QuietInv, PlaceInv, BytesInv
  <2> QED BY <2>1, <2>2, <2>3, <2>4, <2>5, <2>6, <2>7 DEF Next
<1> QED BY <1>1, <1>2, StorageInvariance, PTL DEF Spec

\* A document has its PDF, whatever of an upload, a race of two uploads or a
\* correction failed, unless its deletion was interrupted between the object and
\* the row.
THEOREM RowKeepsObject == Spec => []RowHasObject
<1>1. RowsInv => RowHasObject BY DEF RowsInv, BytesInv, RowHasObject, Rows
<1> QED BY <1>1, RowsInvariance, PTL

\* The invoices of a parsed document come from the bytes that are shown.
THEOREM InvoicesComeFromStored == Spec => []ParsedIsStored
<1>1. RowsInv => ParsedIsStored BY DEF RowsInv, BytesInv, ParsedIsStored
<1> QED BY <1>1, RowsInvariance, PTL

\* Without failures the only objects without a row are those of documents that
\* went with their project.
THEOREM NothingLeftBehind == Spec => []NoOrphan
<1>1. RowsInv => NoOrphan BY DEF RowsInv, QuietInv, NoOrphan
<1> QED BY <1>1, RowsInvariance, PTL
=============================================================================
