----------------------------- MODULE PdfStorage -----------------------------
(***************************************************************************)
(* Where the bytes of a document live: its row in table documents, the     *)
(* object at documents.s3_key, and the backup of the original beside it    *)
(* ("<key>.orig").  Nothing spans the database and the object store: an    *)
(* upload (routers/invoices.py), a correction of the orientation           *)
(* (_run_deskew in processing.py) and a deletion each go through a chain   *)
(* of calls, any of which may fail or be the last one of the process.  The *)
(* deletion of the project removes rows alone.                             *)
(*                                                                         *)
(* Every upload draws a new key.  Of the bytes only this matters: they are *)
(* those the person uploaded, or one of the corrections of them.           *)
(***************************************************************************)
EXTENDS Naturals, FiniteSets

CONSTANTS
  Files,        \* contents a person may upload to the project (their hashes)
  Keys,         \* object names, each drawn once (uuid4)
  Turned,       \* corrected versions of a file: what detect makes of it may vary
  Original,     \* the version that was uploaded
  Nothing,      \* no object
  None,         \* nobody, no key, no file
  MaxFaults,    \* bound: calls that fail
  MaxReparses,  \* bound: attempts asked for after the upload
  MaxCrashes    \* bound: crashes

Versions == {Original} \cup Turned

ASSUME ConstantsAssumption ==
  /\ Nothing \notin Versions /\ Original \notin Turned
  /\ None \notin Files \cup Keys
  /\ {MaxFaults, MaxReparses, MaxCrashes} \subseteq Nat

VARIABLES
  row,       \* the row that has k as s3_key: its status, "none" without a row
  hash,      \* the file stored under k when the key was drawn (file_hash of the row)
  stored,    \* the object at k
  orig,      \* the object at k.orig
  source,    \* the version the invoices of the row were parsed from
  upload,    \* the upload that drew k, where it is
  work,      \* the attempt that processes k
  deletion,  \* the request that deletes k and has its row locked
  project,   \* whether the project is there
  late,      \* puts that failed for their caller and may still land
  torn,      \* history: keys whose deletion ended between the object and the row
  overrun,   \* history: keys on which a late put has landed
  dropped,   \* history: keys whose row went with the project
  faults, reparses, crashes

objects == <<stored, orig>>
history == <<late, torn, overrun, dropped>>
counts  == <<faults, reparses, crashes>>
vars    == <<row, hash, objects, source, upload, work, deletion, project, history, counts>>

Idle  == [pc |-> "none", src |-> Nothing, fixed |-> Nothing]
\* "detectOrig": the source is the backup (has_backup); "detect": there is none.
WorkT == [pc : {"none", "fetch", "fetchOrig", "fetchKey", "detect", "detectOrig",
                "backup", "overwrite", "current", "parse"},
          src : Versions \cup {Nothing},    \* the bytes the attempt holds
          fixed : Versions \cup {Nothing}]  \* their correction

PutT == [key : Keys, slot : {"key", "orig"}, bytes : Versions]

TypeOK ==
  /\ row \in [Keys -> {"none", "busy", "parsed", "error"}]
  /\ hash \in [Keys -> Files \cup {None}]
  /\ stored \in [Keys -> Versions \cup {Nothing}]
  /\ orig \in [Keys -> Versions \cup {Nothing}]
  /\ source \in [Keys -> Versions \cup {Nothing}]
  /\ upload \in [Keys -> {"none", "put", "create", "lost", "cleanup", "done"}]
  /\ work \in [Keys -> WorkT]
  /\ deletion \in [Keys -> {"none", "object", "row"}]
  /\ late \in SUBSET PutT
  /\ project \in BOOLEAN
  /\ torn \in SUBSET Keys /\ overrun \in SUBSET Keys /\ dropped \in SUBSET Keys
  /\ faults \in 0..MaxFaults /\ reparses \in 0..MaxReparses /\ crashes \in 0..MaxCrashes

Init ==
  /\ row = [k \in Keys |-> "none"]
  /\ hash = [k \in Keys |-> None]
  /\ stored = [k \in Keys |-> Nothing]
  /\ orig = [k \in Keys |-> Nothing]
  /\ source = [k \in Keys |-> Nothing]
  /\ upload = [k \in Keys |-> "none"]
  /\ work = [k \in Keys |-> Idle]
  /\ deletion = [k \in Keys |-> "none"]
  /\ project = TRUE
  /\ late = {} /\ torn = {} /\ overrun = {} /\ dropped = {}
  /\ faults = 0 /\ reparses = 0 /\ crashes = 0

-----------------------------------------------------------------------------
Rows == {k \in Keys : row[k] # "none"}
RowOf(f) == {k \in Rows : hash[k] = f}

CallFails ==
  /\ faults < MaxFaults
  /\ faults' = faults + 1
  /\ UNCHANGED <<reparses, crashes>>

\* A put lands.
Land(put) ==
  IF put.slot = "key"
    THEN stored' = [stored EXCEPT ![put.key] = put.bytes] /\ UNCHANGED orig
    ELSE orig' = [orig EXCEPT ![put.key] = put.bytes] /\ UNCHANGED stored

Put(k, slot, bytes) == [key |-> k, slot |-> slot, bytes |-> bytes]

\* The caller of a put sees an exception: it never lands, it has landed, or it
\* lands later.
PutFails(put) ==
  /\ CallFails
  /\ \/ UNCHANGED <<objects, late>>
     \/ Land(put) /\ UNCHANGED late
     \/ late' = late \cup {put} /\ UNCHANGED objects

LateLand(put) ==
  /\ Land(put)
  /\ late' = late \ {put}
  /\ overrun' = overrun \cup {put.key}
  /\ UNCHANGED <<row, hash, source, upload, work, deletion, project, torn, dropped, counts>>

-----------------------------------------------------------------------------
(* POST /upload.                                                            *)

\* A file the project has already is answered with its document; any other
\* gets a key of its own and goes to the store without a connection held.
UploadStart(k, f) ==
  /\ hash[k] = None
  /\ RowOf(f) = {}
  /\ hash' = [hash EXCEPT ![k] = f]
  /\ upload' = [upload EXCEPT ![k] = "put"]
  /\ UNCHANGED <<row, objects, source, work, deletion, project, history, counts>>

UploadPut(k) ==
  /\ upload[k] = "put"
  /\ Land(Put(k, "key", Original))
  /\ upload' = [upload EXCEPT ![k] = "create"]
  /\ UNCHANGED <<row, hash, source, work, deletion, project, history, counts>>

UploadPutFails(k) ==
  /\ upload[k] = "put"
  /\ PutFails(Put(k, "key", Original))
  /\ upload' = [upload EXCEPT ![k] = "done"]
  /\ UNCHANGED <<row, hash, source, work, deletion, project, torn, overrun, dropped>>

\* What create_document violates: the uniqueness of the file in the project,
\* or, with the project deleted meanwhile, the reference to it.
Refused(k) == RowOf(hash[k]) # {} \/ ~project

\* create_document and the guard, in one section of the event loop.
Create(k) ==
  /\ upload[k] = "create" /\ ~Refused(k)
  /\ row' = [row EXCEPT ![k] = "busy"]
  /\ work' = [work EXCEPT ![k].pc = "fetch"]
  /\ upload' = [upload EXCEPT ![k] = "done"]
  /\ UNCHANGED <<hash, objects, source, deletion, project, history, counts>>

\* Bug: every failure of create_document is taken for a lost race.
CreateFails_Cleans(k) ==
  /\ upload[k] = "create"
  /\ CallFails
  /\ upload' = [upload EXCEPT ![k] = "cleanup"]
  /\ \/ UNCHANGED row
     \/ ~Refused(k) /\ row' = [row EXCEPT ![k] = "busy"]
  /\ UNCHANGED <<hash, objects, source, work, deletion, project, history>>

\* Any failure but IntegrityError is answered 500 as it is; the row may have
\* been committed nevertheless, and waits for the sweep.
CreateFails(k) ==
  /\ upload[k] = "create"
  /\ CallFails
  /\ upload' = [upload EXCEPT ![k] = "done"]
  /\ \/ UNCHANGED row
     \/ ~Refused(k) /\ row' = [row EXCEPT ![k] = "busy"]
  /\ UNCHANGED <<hash, objects, source, work, deletion, project, history>>

\* Bug: the loser is answered without looking after its object.
CreateLoses_Leaves(k) ==
  /\ upload[k] = "create" /\ Refused(k)
  /\ upload' = [upload EXCEPT ![k] = "done"]
  /\ UNCHANGED <<row, hash, objects, source, work, deletion, project, history, counts>>

\* IntegrityError: the same file has a row by now, or the project is gone.
\* Whether there is a winner a moment later decides the answer (200 or 500),
\* not what happens to the object.
CreateLoses(k) ==
  /\ upload[k] = "create" /\ Refused(k)
  /\ upload' = [upload EXCEPT ![k] = "cleanup"]
  /\ UNCHANGED <<row, hash, objects, source, work, deletion, project, history, counts>>

\* Best effort.
Cleanup(k) ==
  /\ upload[k] = "cleanup"
  /\ upload' = [upload EXCEPT ![k] = "done"]
  /\ \/ stored' = [stored EXCEPT ![k] = Nothing] /\ UNCHANGED counts
     \/ CallFails /\ UNCHANGED stored
  /\ UNCHANGED <<row, hash, orig, source, work, deletion, project, history>>

-----------------------------------------------------------------------------
(* An attempt: POST /reparse or /deskew-reparse, and the task behind it.    *)

\* The guard's UPDATE waits for a deletion that has the row locked.
Reparse(k, pc) ==
  /\ row[k] \in {"parsed", "error"} /\ deletion[k] = "none"
  /\ reparses < MaxReparses
  /\ reparses' = reparses + 1
  /\ row' = [row EXCEPT ![k] = "busy"]
  /\ work' = [work EXCEPT ![k].pc = pc]
  /\ UNCHANGED <<hash, objects, source, upload, deletion, project, history, faults, crashes>>

Busy(k, pc) == work[k].pc = pc

\* The attempt ends in write_processing_error, which finds no row to write to
\* once the project is deleted.
Fails(k) ==
  /\ row' = [row EXCEPT ![k] = IF row[k] = "none" THEN "none" ELSE "error"]
  /\ work' = [work EXCEPT ![k] = Idle]
  /\ UNCHANGED <<hash, source, upload, deletion, project, torn, overrun, dropped>>

\* The next call of the attempt; w is what it knows by now.
Goes(k, w) ==
  /\ work' = [work EXCEPT ![k] = w]
  /\ UNCHANGED <<row, hash, source, upload, deletion, project, history, counts>>

\* A download (or a model call) fails: nothing has changed in the store.
CallFailsIn(k) ==
  /\ work[k].pc \in {"fetch", "fetchOrig", "fetchKey", "detect", "detectOrig", "current", "parse"}
  /\ CallFails
  /\ Fails(k)
  /\ UNCHANGED <<objects, late>>

\* Without an object at s3_key there is nothing to parse.
Missing(k) ==
  /\ work[k].pc \in {"fetch", "fetchKey", "current"}
  /\ stored[k] = Nothing
  /\ Fails(k)
  /\ UNCHANGED <<objects, late, counts>>

\* The row is gone with the project where the attempt reads it, at its start or
\* in phase B.
RowGone(k) ==
  /\ work[k].pc \in {"fetch", "fetchOrig", "parse"} /\ row[k] = "none"
  /\ Goes(k, Idle)
  /\ UNCHANGED objects

Fetch(k) ==
  /\ Busy(k, "fetch") /\ stored[k] # Nothing
  /\ Goes(k, [work[k] EXCEPT !.pc = "parse", !.src = stored[k]])
  /\ UNCHANGED objects

\* Bug: a failed download of the backup passes for "there is none".
FetchOrig_AnyError(k) ==
  /\ Busy(k, "fetchOrig")
  /\ \/ /\ orig[k] # Nothing
        /\ Goes(k, [work[k] EXCEPT !.pc = "detectOrig", !.src = orig[k]])
     \/ Goes(k, [work[k] EXCEPT !.pc = "fetchKey"])
  /\ UNCHANGED objects

\* The source of a correction is the backup; only its absence leads to s3_key.
FetchOrig(k) ==
  /\ Busy(k, "fetchOrig")
  /\ IF orig[k] # Nothing
       THEN Goes(k, [work[k] EXCEPT !.pc = "detectOrig", !.src = orig[k]])
       ELSE Goes(k, [work[k] EXCEPT !.pc = "fetchKey"])
  /\ UNCHANGED objects

FetchKey(k) ==
  /\ Busy(k, "fetchKey") /\ stored[k] # Nothing
  /\ Goes(k, [work[k] EXCEPT !.pc = "detect", !.src = stored[k]])
  /\ UNCHANGED objects

\* detect finds pages to turn; the original is backed up once.
DetectTurns(k) ==
  /\ \E v \in Turned :
       \/ Busy(k, "detect") /\ Goes(k, [work[k] EXCEPT !.pc = "backup", !.fixed = v])
       \/ Busy(k, "detectOrig") /\ Goes(k, [work[k] EXCEPT !.pc = "overwrite", !.fixed = v])
  /\ UNCHANGED objects

\* Bug: what detect has looked at is parsed, even when it is the backup.
DetectZeros_Source(k) ==
  /\ Busy(k, "detect") \/ Busy(k, "detectOrig")
  /\ Goes(k, [work[k] EXCEPT !.pc = "parse"])
  /\ UNCHANGED objects

\* Nothing to turn: with a backup an earlier correction stands, and the
\* current object is parsed instead of the original.
DetectZeros(k) ==
  /\ \/ Busy(k, "detect") /\ Goes(k, [work[k] EXCEPT !.pc = "parse"])
     \/ Busy(k, "detectOrig") /\ Goes(k, [work[k] EXCEPT !.pc = "current"])
  /\ UNCHANGED objects

Current(k) ==
  /\ Busy(k, "current") /\ stored[k] # Nothing
  /\ Goes(k, [work[k] EXCEPT !.pc = "parse", !.src = stored[k]])
  /\ UNCHANGED objects

Backup(k) ==
  /\ Busy(k, "backup")
  /\ Land(Put(k, "orig", work[k].src))
  /\ Goes(k, [work[k] EXCEPT !.pc = "overwrite"])

Overwrite(k) ==
  /\ Busy(k, "overwrite")
  /\ Land(Put(k, "key", work[k].fixed))
  /\ Goes(k, [work[k] EXCEPT !.pc = "parse", !.src = work[k].fixed])

\* A put of the attempt fails.
PutOf(k) ==
  IF work[k].pc = "backup" THEN Put(k, "orig", work[k].src) ELSE Put(k, "key", work[k].fixed)

BackupOrOverwriteFails(k) ==
  /\ work[k].pc \in {"backup", "overwrite"}
  /\ PutFails(PutOf(k))
  /\ Fails(k)

\* Phase B replaces the invoices by those of the parsed bytes.
Parse(k) ==
  /\ Busy(k, "parse") /\ row[k] # "none"
  /\ row' = [row EXCEPT ![k] = "parsed"]
  /\ source' = [source EXCEPT ![k] = work[k].src]
  /\ work' = [work EXCEPT ![k] = Idle]
  /\ UNCHANGED <<hash, objects, upload, deletion, project, history, counts>>

-----------------------------------------------------------------------------
(* DELETE /documents/{id}, on a worker thread, its row locked from start to *)
(* end; refusals change nothing.                                            *)

DeleteStart(k) ==
  /\ row[k] \in {"parsed", "error"} /\ deletion[k] = "none"
  /\ deletion' = [deletion EXCEPT ![k] = "object"]
  /\ UNCHANGED <<row, hash, objects, source, upload, work, project, history, counts>>

\* Best effort: the exception of delete_file is swallowed.
DeleteObject(k) ==
  /\ deletion[k] = "object"
  /\ deletion' = [deletion EXCEPT ![k] = "row"]
  /\ \/ stored' = [stored EXCEPT ![k] = Nothing] /\ UNCHANGED counts
     \/ CallFails /\ UNCHANGED stored
  /\ UNCHANGED <<row, hash, orig, source, upload, work, project, history>>

DeleteRow(k) ==
  /\ deletion[k] = "row"
  /\ deletion' = [deletion EXCEPT ![k] = "none"]
  /\ row' = [row EXCEPT ![k] = "none"]
  /\ UNCHANGED <<hash, objects, source, upload, work, project, history, counts>>

DeleteRowFails(k) ==
  /\ deletion[k] = "row"
  /\ CallFails
  /\ deletion' = [deletion EXCEPT ![k] = "none"]
  /\ torn' = torn \cup {k}
  /\ UNCHANGED <<row, hash, objects, source, upload, work, project, late, overrun, dropped>>

-----------------------------------------------------------------------------
\* DELETE /projects/{id}: the cascade removes the rows of the project, whatever
\* their status, once no deletion has one of them locked; nobody tells the
\* object store.  A deletion of the project that fails changes nothing.
DropProject ==
  /\ project /\ \A k \in Keys : deletion[k] = "none"
  /\ project' = FALSE
  /\ row' = [k \in Keys |-> "none"]
  /\ dropped' = dropped \cup Rows
  /\ UNCHANGED <<hash, objects, source, upload, work, deletion, late, torn, overrun, counts>>

\* The process dies with everything it was doing; the puts it had sent may
\* land, and the sweep of the next start brings busy rows to rest.
Crash ==
  /\ crashes < MaxCrashes
  /\ crashes' = crashes + 1
  /\ row' = [k \in Keys |-> IF row[k] = "busy" THEN "error" ELSE row[k]]
  /\ upload' = [k \in Keys |-> IF upload[k] = "none" THEN "none" ELSE "done"]
  /\ work' = [k \in Keys |-> Idle]
  /\ deletion' = [k \in Keys |-> "none"]
  /\ torn' = torn \cup {k \in Keys : deletion[k] = "row"}
  /\ LET sent == {Put(k, "key", Original) : k \in {x \in Keys : upload[x] = "put"}}
                   \cup {PutOf(k) : k \in {x \in Keys : work[x].pc \in {"backup", "overwrite"}}} IN
     late' \in {late \cup S : S \in SUBSET sent}
  /\ UNCHANGED <<hash, objects, source, project, overrun, dropped, faults, reparses>>

Upload(k) ==
  \/ \E f \in Files : UploadStart(k, f)
  \/ UploadPut(k) \/ UploadPutFails(k)
  \/ Create(k) \/ CreateFails(k) \/ CreateLoses(k) \/ Cleanup(k)

Attempt(k) ==
  \/ RowGone(k)
  \/ Reparse(k, "fetch") \/ Reparse(k, "fetchOrig")
  \/ Fetch(k) \/ FetchOrig(k) \/ FetchKey(k) \/ DetectTurns(k) \/ DetectZeros(k)
  \/ Current(k) \/ Backup(k) \/ Overwrite(k) \/ Parse(k)
  \/ CallFailsIn(k) \/ Missing(k) \/ BackupOrOverwriteFails(k)

Deletion(k) ==
  DeleteStart(k) \/ DeleteObject(k) \/ DeleteRow(k) \/ DeleteRowFails(k)

Next ==
  \/ \E k \in Keys : Upload(k) \/ Attempt(k) \/ Deletion(k)
  \/ \E put \in late : LateLand(put)
  \/ DropProject
  \/ Crash

Spec == Init /\ [][Next]_vars

-----------------------------------------------------------------------------
\* The bytes a person uploaded are never lost: an object that has been
\* corrected has its original beside it, whatever failed, crashed or landed
\* late on the way ("a transient failure must not overwrite the true original
\* under the guise of 'no backup'", processing.py:295-299).
OriginalKept ==
  \A k \in Keys : stored[k] \in Turned => orig[k] = Original

\* A document has its PDF: no failure of an upload and no loser of a race
\* between two uploads of one file removes an object that a row refers to.
\* Exempt is a document whose deletion was interrupted (a crash or a database
\* failure) after it had removed the object and before it removed the row: that
\* row does lose its PDF, and nothing but another deletion repairs it.
RowHasObject ==
  \A k \in Rows : deletion[k] = "none" /\ k \notin torn => stored[k] # Nothing

\* The invoices of a parsed document come from the very bytes a person is
\* shown beside them, unless a put its caller had given up has landed since:
\* in particular a correction whose detect answers zeros does not parse the
\* crooked original (processing.py:370-377).
ParsedIsStored ==
  \A k \in Keys :
    row[k] = "parsed" /\ deletion[k] = "none" /\ k \notin torn \cup overrun =>
      source[k] = stored[k]

\* While every call succeeds and the process lives, the only objects without a
\* row are those of documents that went with their project (crud/projects.py:
\* 39-44 deletes rows alone): the loser of two uploads, and the upload that
\* finds its project deleted, remove their own (routers/invoices.py:311-314),
\* and a deletion removes the one of its row.
NoOrphan ==
  faults = 0 /\ crashes = 0 =>
    \A k \in Keys \ dropped :
      stored[k] # Nothing => row[k] # "none" \/ upload[k] \in {"create", "cleanup"}
=============================================================================
