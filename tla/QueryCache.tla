---------------------------- MODULE QueryCache ----------------------------
(***************************************************************************)
(* The client's picture of the server: which queries the pages keep        *)
(* (services/queryKeys.ts), what each answer is computed from, what each   *)
(* mutation changes on the server and which keys its onSuccess invalidates *)
(* (services/queries.ts).                                                  *)
(*                                                                         *)
(* Keys are sequences and an invalidation names a prefix.  The server is   *)
(* the log of the mutations it has carried out; an answer is the length of *)
(* the log when it was read.  Which page offers which mutation is left     *)
(* open: a mutation may be answered wherever the user has gone meanwhile.  *)
(* Queries do not meet in the cache, except where one is the initial data  *)
(* of another, so that it is enough to follow one or two at a time.        *)
(***************************************************************************)
EXTENDS Naturals, Sequences, SequencesExt

CONSTANTS
  MaxMutations,  \* bound: mutations the user makes
  MaxMounts,     \* bound: how often a page that shows a query is opened
  MaxFailures,   \* bound: fetches that fail for good
  None, Sent

-----------------------------------------------------------------------------
(* The keys: project "p", document "d", organisation "o", direction "c" and  *)
(* supplier "s", the target of a merge; "all" is also the search for nothing.*)

AllProjects == <<"projects">>
AllSuppliers == <<"suppliers">>
AllClasses == <<"material-classes">>
CurrentSettings == <<"settings">>
AllOrganisations == <<"admin", "organizations">>
Summary == <<"dashboard", "summary", "p">>
Calculations(dir) == <<"dashboard", "calculations", "p", None, None, dir>>
CalculationsAll == <<"dashboard", "calculations", "all">>
DashInvoices == <<"dashboard", "invoices", "p", "all">>
Monthly == <<"dashboard", "monthly", "p", "all">>
Documents == <<"documents">>
ProjectDocuments == <<"documents", "p">>
Document == <<"document", "d">>
Supplier(s) == <<"suppliers", s>>
SupplierProjects(s) == <<"suppliers", s, "projects">>
SupplierInvoices(s) == <<"suppliers", s, "invoices">>
Organisation == <<"admin", "organizations", "o">>
UserList == <<"admin", "users", "all", 1, 20>>
ProjectSuppliers == <<"project-suppliers", "p", "all">>
Exclusions == <<"supplier-exclusions", "p">>
Corridors == <<"corridors", "p">>
PricesOfProject == <<"reference-prices", "p", None, "all">>
PricesOfClass == <<"reference-prices", None, "b", "all">>

\* What the answers of the API are computed from, by file of services/api: a row for
\* every key.
Row(key, from) == [key |-> key, from |-> from]

ProjectReads ==
  {Row(AllProjects, {"projects", "documents"}),
   Row(ProjectSuppliers, {"suppliers", "invoices"}),
   Row(Exclusions, {"exclusions"})}
DashboardReads ==
  {Row(Summary, {"documents", "invoices", "prices", "corridors", "exclusions"}),
   Row(DashInvoices, {"invoices", "suppliers", "confirmed"}),
   Row(Calculations("all"), {"invoices", "prices", "corridors", "exclusions"}),
   Row(Calculations("c"), {"invoices", "prices", "corridors", "exclusions"}),
   Row(CalculationsAll, {"invoices", "prices", "corridors", "exclusions"}),
   Row(Monthly, {"invoices", "exclusions"})}
DocumentReads ==
  {Row(Documents, {"documents", "status", "invoices"}),
   Row(ProjectDocuments, {"documents", "status", "invoices"}),
   Row(Document, {"status", "invoices", "suppliers", "confirmed"})}
SupplierReads ==
  {Row(AllSuppliers, {"suppliers", "invoices"}),
   Row(Supplier("s"), {"suppliers", "invoices"}),
   Row(SupplierProjects("s"), {"suppliers", "invoices", "prices", "projects"}),
   Row(SupplierInvoices("s"), {"suppliers", "invoices", "confirmed", "projects"})}
ReferenceReads ==
  {Row(PricesOfProject, {"prices"}), Row(PricesOfClass, {"prices"})}
ClassReads == {Row(AllClasses, {"classes"})}
CorridorReads == {Row(Corridors, {"corridors", "classes"})}
SettingsReads == {Row(CurrentSettings, {"settings"})}
AdminReads ==
  {Row(AllOrganisations, {"orgs", "users", "links"}),
   Row(Organisation, {"orgs", "users", "links", "projects"}),
   Row(UserList, {"users", "orgs"})}

Rows ==
  ProjectReads \cup DashboardReads \cup DocumentReads \cup SupplierReads \cup ReferenceReads \cup ClassReads
    \cup CorridorReads \cup SettingsReads \cup AdminReads
Keys == {row.key : row \in Rows}
Reads == [q \in Keys |-> UNION {row.from : row \in {r \in Rows : r.key = q}}]

-----------------------------------------------------------------------------
(* The mutations: what onSuccess invalidates, as prefixes of keys.           *)

Projects == {"createProject", "updateProject", "deleteProject"}
Classes == {"createClass", "deleteClass"}
Prices == {"createPrice", "updatePrice", "deletePrice"}
Reparses == {"reparse", "deskew"}
Confirmations == {"verify", "unverify"}
CorridorEdits == {"setTypeCorridor", "deleteTypeCorridor", "setClassCorridor", "deleteClassCorridor"}
Organisations == {"createOrg", "updateOrg"}
Accounts == {"createUser", "updateUser"}
Links == {"linkProject", "unlinkProject"}

\* A row for the mutations whose hooks are alike.
Hook(mutations, prefixes) == [mutations |-> mutations, prefixes |-> prefixes]

ProjectHooks == {Hook(Projects, {AllProjects})}
ClassHooks == {Hook(Classes, {AllClasses})}
PriceHooks == {Hook(Prices, {<<"reference-prices">>, <<"dashboard">>})}

\* Bug: the list of documents is left out of a reparse.
ReparseHooks_NoList == {Hook(Reparses, {Document, <<"dashboard">>})}
ReparseHooks == {Hook(Reparses, {Document, ProjectDocuments, <<"dashboard">>})}
InvoiceHooks ==
  {Hook({"updateInvoice"}, {<<"document">>, <<"dashboard">>}),
   Hook({"deleteDocument"}, {<<"documents">>, <<"dashboard">>}),
   Hook({"deleteInvoice", "deleteInvoices"}, {<<"documents">>, <<"dashboard">>, <<"document">>})}
ConfirmHooks == {Hook(Confirmations, {<<"document">>, <<"dashboard", "invoices">>})}
UploadHook == {Hook({"upload"}, {<<"documents">>, <<"dashboard">>})}
SettingsHook == {Hook({"updateSettings"}, {CurrentSettings})}
SupplierHooks ==
  {Hook({"updateSupplier"}, {AllSuppliers, Supplier("s")}),
   Hook({"mergeSupplier"}, {AllSuppliers, Supplier("s"), SupplierProjects("s")})}

\* Bug: the months are left out of an exclusion, as they are of a corridor.
ExclusionHook_NoMonthly ==
  {Hook({"toggleExclusion"}, {Exclusions, <<"dashboard", "calculations", "p">>, CalculationsAll, Summary})}
ExclusionHook ==
  {Hook({"toggleExclusion"}, {Exclusions, <<"dashboard", "calculations", "p">>, CalculationsAll, Summary,
                              <<"dashboard", "monthly", "p">>})}
CorridorHooks ==
  {Hook(CorridorEdits, {Corridors, <<"dashboard", "calculations", "p">>, CalculationsAll, Summary})}
OrgHooks ==
  {Hook({"createOrg"}, {AllOrganisations}),
   Hook({"updateOrg"}, {AllOrganisations, Organisation})}
UserHooks == {Hook(Accounts, {Organisation, AllOrganisations, <<"admin", "users">>})}
LinkHooks == {Hook(Links, {Organisation, AllOrganisations})}

Hooks ==
  ProjectHooks \cup ClassHooks \cup PriceHooks \cup ReparseHooks \cup InvoiceHooks \cup ConfirmHooks
    \cup UploadHook \cup SettingsHook \cup SupplierHooks \cup ExclusionHook \cup CorridorHooks \cup OrgHooks
    \cup UserHooks \cup LinkHooks
Mutations == UNION {hook.mutations : hook \in Hooks}
Invalidates == [m \in Mutations |-> UNION {hook.prefixes : hook \in {h \in Hooks : m \in h.mutations}}]

\* What a mutation changes on the server.
Changes(m) ==
  CASE m = "createProject" -> {"projects"}
    [] m = "updateProject" -> {"projects"}
    [] m = "deleteProject" -> {"projects", "documents", "status", "invoices", "confirmed", "prices",
                               "corridors", "exclusions", "links"}
    [] m = "createClass" -> {"classes"}
    [] m = "deleteClass" -> {"classes", "invoices", "prices", "corridors"}
    [] m \in Prices -> {"prices"}
    [] m \in Reparses -> {"status"}
    [] m = "updateInvoice" -> {"invoices", "suppliers"}
    [] m = "deleteDocument" -> {"documents", "status", "invoices"}
    [] m \in {"deleteInvoice", "deleteInvoices"} -> {"invoices"}
    [] m \in Confirmations -> {"confirmed"}
    [] m = "upload" -> {"documents", "status"}
    [] m = "updateSettings" -> {"settings"}
    [] m = "updateSupplier" -> {"suppliers"}
    [] m = "mergeSupplier" -> {"suppliers", "exclusions"}
    [] m = "toggleExclusion" -> {"exclusions"}
    [] m \in CorridorEdits -> {"corridors"}
    [] m \in Organisations -> {"orgs"}
    [] m \in Accounts -> {"users"}
    [] m \in Links -> {"links"}

\* Mutations that change and invalidate the same are followed by one of them.
Alike(m, n) == Changes(m) = Changes(n) /\ Invalidates[m] = Invalidates[n]
Kinds == {CHOOSE n \in Mutations : Alike(m, n) : m \in Mutations}

Concerns(m, q) == Changes(m) \cap Reads[q] # {}

Matches(prefixes, q) == \E k \in prefixes : IsPrefix(k, q)
Under(prefixes) == {q \in Keys : Matches(prefixes, q)}

\* The keys a mutation concerns and its hook leaves to the 60 seconds of staleTime.
OfProject ==
  {<<"dashboard">>, ProjectDocuments, ProjectSuppliers, Exclusions, Corridors, <<"reference-prices">>}
Overlooked(m) ==
  CASE m = "updateProject" -> Under({AllSuppliers, Organisation})
    [] m = "createProject" -> Under({AllSuppliers, Organisation})
    [] m = "deleteProject" ->
         Under(OfProject \cup {<<"documents">>, <<"document">>, AllSuppliers, <<"admin">>})
    [] m = "createClass" -> Under({Corridors})
    [] m = "deleteClass" -> Under(OfProject \cup {<<"documents">>, <<"document">>, AllSuppliers})
    [] m \in Prices -> Under({AllSuppliers})
    [] m \in Reparses -> {Documents}
    [] m = "updateInvoice" -> Under({<<"documents">>, AllSuppliers, ProjectSuppliers})
    [] m = "deleteDocument" -> Under({AllProjects, <<"document">>, AllSuppliers, ProjectSuppliers})
    [] m \in {"deleteInvoice", "deleteInvoices"} -> Under({AllSuppliers, ProjectSuppliers})
    [] m \in Confirmations -> Under({AllSuppliers})
    [] m = "upload" -> Under({AllProjects})
    [] m = "updateSupplier" -> Under({<<"document">>, <<"dashboard">>, ProjectSuppliers})
    [] m = "mergeSupplier" -> Under({<<"document">>, <<"dashboard">>, ProjectSuppliers, Exclusions})
    [] m \in Organisations -> Under({UserList})
    [] OTHER -> {}

-----------------------------------------------------------------------------

VARIABLES
  watched,   \* the queries followed in this behaviour
  mounted,   \* those a page shows now
  cache,     \* query cache: how much of the log the data know, and whether they are invalidated
  fetch,     \* the fetch under way: None, Sent, or the answer on its way
  log,       \* the mutations the server has carried out
  known,     \* positions of the log the client has had the answer of
  late,      \* history: queries an invalidation did not reach, or whose last fetch failed
  failed, mounts  \* counters of the bounds

queries == <<watched, mounted, cache, fetch, log, known, late, failed, mounts>>

Times == 0..MaxMutations

\* Nothing, one query, or one with its seed.
Followed == {{}, {Summary, Calculations("c")}} \cup {{q} : q \in Keys}

Start(qs) ==
  /\ watched = qs
  /\ mounted = {} /\ late = {}
  /\ cache = [q \in watched |-> [at |-> None, stale |-> FALSE]]
  /\ fetch = [q \in watched |-> None]
  /\ log = <<>> /\ known = {}
  /\ failed = 0 /\ mounts = 0

Data(q) == cache[q].at # None

\* initialData of the calculations: the rows of the summary, no matter whether
\* it is invalidated.
FromSummary(q) ==
  /\ q \in {Calculations("all"), Calculations("c")}
  /\ ~Data(q) /\ Summary \in watched /\ Data(Summary)

\* A page that shows q opens; staleTime may have passed, and always has for the
\* rows of all projects.
Mount(q, aged) ==
  /\ mounts < MaxMounts /\ mounts' = mounts + 1
  /\ q \notin mounted
  /\ q = CalculationsAll => aged
  /\ mounted' = mounted \cup {q}
  /\ LET seeded == FromSummary(q)
         entry == IF seeded THEN [at |-> cache[Summary].at, stale |-> FALSE] ELSE cache[q]
         due == fetch[q] = None /\ (entry.at = None \/ entry.stale \/ aged)
     IN /\ cache' = [cache EXCEPT ![q] = entry]
        /\ fetch' = IF due THEN [fetch EXCEPT ![q] = Sent] ELSE fetch
        /\ late' = IF due THEN late \ {q}
                   ELSE IF seeded /\ (cache[Summary].stale \/ fetch[Summary] # None \/ Summary \in late)
                        THEN late \cup {q} ELSE late
  /\ UNCHANGED <<watched, log, known, failed>>

Unmount(q) ==
  /\ q \in mounted
  /\ mounted' = mounted \ {q}
  /\ UNCHANGED <<watched, cache, fetch, log, known, late, failed, mounts>>

Read(q) ==
  /\ fetch[q] = Sent
  /\ fetch' = [fetch EXCEPT ![q] = Len(log)]
  /\ UNCHANGED <<watched, mounted, cache, log, known, late, failed, mounts>>

Land(q) ==
  /\ fetch[q] \in Times
  /\ cache' = [cache EXCEPT ![q] = [at |-> fetch[q], stale |-> FALSE]]
  /\ fetch' = [fetch EXCEPT ![q] = None]
  /\ UNCHANGED <<watched, mounted, log, known, late, failed, mounts>>

\* The second try has failed too (retry: 1).
Fail(q) ==
  /\ fetch[q] # None
  /\ failed < MaxFailures /\ failed' = failed + 1
  /\ fetch' = [fetch EXCEPT ![q] = None]
  /\ late' = late \cup {q}
  /\ UNCHANGED <<watched, mounted, cache, log, known, mounts>>

-----------------------------------------------------------------------------

\* A mutation is carried out; those that leave the watched queries alone are skipped.
\* Before this and until its answer the client does nothing, so that a request
\* under way, a refused one and a lost answer need no step.
Serve(m) ==
  /\ Len(log) < MaxMutations
  /\ \E q \in watched : Concerns(m, q) \/ Matches(Invalidates[m], q)
  /\ log' = Append(log, m)
  /\ UNCHANGED <<watched, mounted, cache, fetch, known, late, failed, mounts>>

\* The document an answer carries is put into the cache before the invalidation.
Seeded(k) == IF log[k] \in {"upload", "reparse", "deskew"} THEN {Document} \cap watched ELSE {}
Seed(c, k) == [q \in watched |-> IF q \in Seeded(k) THEN [at |-> k, stale |-> FALSE] ELSE c[q]]

\* An invalidated query is fetched anew when a page shows it; a first load goes on.
Refetched(q, c) == q \in mounted /\ (fetch[q] = None \/ c[q].at # None)

\* onSuccess of the k-th mutation.
Answer(k) ==
  /\ k \in DOMAIN log /\ k \notin known
  /\ known' = known \cup {k}
  /\ LET c == Seed(cache, k)
         hit == {q \in watched : Matches(Invalidates[log[k]], q)}
         again == {q \in hit : Refetched(q, c)}
     IN /\ cache' = [q \in watched |-> [c[q] EXCEPT !.stale = @ \/ q \in hit]]
        /\ fetch' = [q \in watched |-> IF q \in again THEN Sent ELSE fetch[q]]
        /\ late' = (late \ again) \cup
             {q \in (hit \cup Seeded(k)) \ again :
                fetch[q] # None \/ (q \in Seeded(k) /\ \E j \in known : j > k)}
  /\ UNCHANGED <<watched, mounted, log, failed, mounts>>

QueryStep ==
  \/ \E q \in watched :
       \/ \E aged \in BOOLEAN : Mount(q, aged)
       \/ Unmount(q) \/ Read(q) \/ Land(q) \/ Fail(q)
  \/ \E m \in Kinds : Serve(m)
  \/ \E k \in 1..MaxMutations : Answer(k)

-----------------------------------------------------------------------------
(* Properties.                                                              *)

\* Users see their own changes: when a mutation has been answered, what a page
\* rests on, with no fetch under way, was read after it, whatever was fetched,
\* opened and answered around it; but for the keys the hook leaves out, the
\* fetches an invalidation cannot reach and those that failed.
SeesOwnChanges ==
  \A q \in mounted, k \in known :
    /\ fetch[q] = None /\ Data(q) /\ q \notin late
    /\ Concerns(log[k], q) /\ q \notin Overlooked(log[k])
    => cache[q].at >= k
=============================================================================
