------------------------------ MODULE Uploads ------------------------------
(***************************************************************************)
(* The sheet of uploads of a project (UploadSheet, UploadJobRow).  Every   *)
(* drop of files runs a loop of its own, one file after the other, and     *)
(* puts its jobs before those of the earlier drops; a row then follows the *)
(* document its upload was answered with.  A file is named by its bytes,   *)
(* as the server tells documents apart.                                    *)
(***************************************************************************)
EXTENDS Naturals, Sequences, SequencesExt

CONSTANTS
  MaxDrops,    \* bound: drops
  MaxForeign,  \* bound: reparses by others
  None

VARIABLE uploads
\* .jobs     the jobs as listed: id, file, status, result
\* .asks     the requests: job, file, how far they are, and the answer, None for a failure
\* .docs     the status of the document of each file on the server, "absent" before
\* .seen     the cached document, None before
\* .parsed   history: the documents that have been recognised once
\* .drops, .foreign  counters of the bounds

Shut == [jobs |-> "none"]
Files == {"x", "y"}
FileLists == {<<"x", "y">>, <<"y", "y">>}

Open ==
  \E old \in {"absent", "parsed", "error"} :
    uploads' = [jobs |-> <<>>, asks |-> <<>>,
                docs |-> [f \in Files |-> IF f = "x" THEN old ELSE "absent"],
                seen |-> [f \in Files |-> None], parsed |-> IF old = "parsed" THEN {"x"} ELSE {},
                drops |-> 0, foreign |-> 0]

-----------------------------------------------------------------------------
(* The loop of a drop.                                                      *)

\* Bug: a job is found by its place among the files of its drop.
Place_Index(jobs, id) == {id[2]}
\* prev.map(j => j.id === job.id ? ...)
Place(jobs, id) == {i \in DOMAIN jobs : jobs[i].id = id}

With(jobs, id, status, result) ==
  [i \in DOMAIN jobs |-> IF i \in Place(jobs, id)
                         THEN [jobs[i] EXCEPT !.status = status, !.result = result] ELSE jobs[i]]

\* The loop takes the next file of its drop, if there is one.
Continue(state, drop, n, files) ==
  IF n > Len(files) THEN state
  ELSE [state EXCEPT
          !.jobs = With(@, <<drop, n>>, "uploading", None),
          !.asks = Append(@, [id |-> <<drop, n>>, files |-> files, file |-> files[n], at |-> "sent", result |-> None])]

HandleDrop ==
  /\ uploads.drops < MaxDrops
  /\ \E files \in FileLists :
       LET drop == uploads.drops + 1
           new == [i \in DOMAIN files |-> [id |-> <<drop, i>>, file |-> files[i], status |-> "pending", result |-> None]]
       IN uploads' = Continue([uploads EXCEPT !.jobs = new \o @, !.drops = drop], drop, 1, files)

\* The promise of the request is settled: mutateAsync, then the hook's cache and the job.
Answer(k) ==
  LET a == uploads.asks[k]
      settled == [uploads EXCEPT !.asks[k].at = "answered"]
      After(state) == Continue(state, a.id[1], a.id[2] + 1, a.files)
  IN /\ a.at = "served"
     /\ \/ /\ a.result # None
           /\ uploads' = After([settled EXCEPT !.jobs = With(@, a.id, "ready", a.result),
                                               !.seen[a.result.doc] = a.result.status])
        \/ /\ a.result = None
           /\ uploads' = After([settled EXCEPT !.jobs = With(@, a.id, "error", None)])

-----------------------------------------------------------------------------
(* The server.                                                              *)

Upload(k) ==
  LET f == uploads.asks[k].file
      New(state) == [state EXCEPT !.docs[f] = "processing"]
      Served(state, result) == [state EXCEPT !.asks[k].at = "served", !.asks[k].result = result]
      Result(status, duplicate) == [doc |-> f, status |-> status, duplicate |-> duplicate]
  IN /\ uploads.asks[k].at = "sent"
     /\ \/ uploads.docs[f] = "absent" /\ uploads' = Served(New(uploads), Result("processing", FALSE))
        \/ uploads.docs[f] # "absent" /\ uploads' = Served(uploads, Result(uploads.docs[f], TRUE))
        \/ uploads' = Served(uploads, None)
        \/ uploads.docs[f] = "absent" /\ uploads' = Served(New(uploads), None)

Process(f) ==
  /\ uploads.docs[f] = "processing"
  /\ \/ uploads' = [uploads EXCEPT !.docs[f] = "parsed", !.parsed = @ \cup {f}]
     \/ uploads' = [uploads EXCEPT !.docs[f] = "error"]
Reparse(f) ==
  /\ uploads.docs[f] \in {"parsed", "error"} /\ uploads.foreign < MaxForeign
  /\ uploads' = [uploads EXCEPT !.docs[f] = "processing", !.foreign = @ + 1]

-----------------------------------------------------------------------------
(* The rows.                                                                *)

Busy(status) == status \in {"pending", "processing"}

\* docQ.data ?? job.result
Doc(job) == IF uploads.seen[job.result.doc] # None THEN uploads.seen[job.result.doc] ELSE job.result.status

Poll(f) ==
  /\ \E i \in DOMAIN uploads.jobs : LET j == uploads.jobs[i] IN
       j.result # None /\ j.result.doc = f /\ Busy(Doc(j))
  /\ uploads.docs[f] # uploads.seen[f]
  /\ uploads' = [uploads EXCEPT !.seen[f] = uploads.docs[f]]

\* What the row of an accepted file leads to.
Links(job) ==
  CASE job.result = None -> {}
    [] job.result # None /\ Doc(job) = "parsed" -> {"review"}
    [] job.result # None /\ Doc(job) = "error" -> IF job.result.duplicate THEN {"errors"} ELSE {}
    [] OTHER -> {}

Step ==
  /\ uploads # Shut
  /\ \/ HandleDrop
     \/ \E k \in DOMAIN uploads.asks : Answer(k) \/ Upload(k)
     \/ \E f \in Files : Process(f) \/ Reparse(f) \/ Poll(f)

-----------------------------------------------------------------------------
(* Properties.                                                              *)

\* However the drops overlap, every row shows its own file's document, only one row
\* says that it was new, no file of a drop is sent before the one above it is answered,
\* and no row leads to the review of a document that was never recognised.
JobsAgree ==
  uploads # Shut =>
    LET jobs == uploads.jobs
        Of(status) == {i \in DOMAIN jobs : jobs[i].status = status}
    IN /\ \A i \in Of("ready") : jobs[i].result.doc = jobs[i].file
       /\ \A i, j \in Of("ready") :
            i # j /\ jobs[i].file = jobs[j].file => jobs[i].result.duplicate \/ jobs[j].result.duplicate
       /\ \A i, j \in Of("uploading") : i # j => jobs[i].id[1] # jobs[j].id[1]
       /\ \A i \in Of("ready") : "review" \in Links(jobs[i]) => jobs[i].result.doc \in uploads.parsed
=============================================================================
