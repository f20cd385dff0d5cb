------------------------------ MODULE Reading ------------------------------
(***************************************************************************)
(* The read service (crates/depot-read): how a request for the narinfo or  *)
(* the NAR of one store path is answered from the catalog, the storage     *)
(* backends and the upstream caches, while builds that hold the path are   *)
(* uploaded and finalized, the collector works, and the administrator      *)
(* changes the project, its upstreams and the backends of the server.      *)
(*                                                                         *)
(* One project, one store path and its NAR.  Requests do not see each      *)
(* other, so one request at a time stands for any number of them.          *)
(***************************************************************************)
EXTENDS Naturals

CONSTANTS
  Storages,        \* storage ids that a configuration may name, in their order
  DefaultStorage,  \* storage.default of the configuration
  Upstreams,       \* upstream caches, in the order of priority and name
  Settings,        \* the server, the project and the remote caches at the start
  MaxBuilds,       \* bound: builds that have the path
  MaxChanges       \* bound: changes from outside (administrator, remote caches)

ASSUME ReadingConstants ==
  /\ Storages \subseteq Nat
  /\ DefaultStorage \in Storages
  /\ Upstreams \subseteq Nat
  /\ Settings \subseteq [configured : SUBSET Storages, stored : SUBSET Storages,
                          placement : Storages, public : BOOLEAN,
                          projectUpstreams : SUBSET Upstreams, holds : SUBSET Upstreams]
  /\ MaxBuilds \in Nat
  /\ MaxChanges \in Nat

VARIABLES
  configured,        \* backends in the server's StorageCatalog
  placement,         \* projects.storage_id
  public,            \* projects.public
  pins,              \* scopes in which a pin names the path
  pending,           \* a pending build has the path registered
  published,         \* the ref's build has the path
  linked,            \* the row of path_objects
  row,               \* the row of the NAR in storage_objects, by storage
  blob,              \* storages that hold the NAR
  condemned,         \* rows that a collection listed as ready, and did not come to yet
  deleted,           \* rows whose blob it has deleted
  enabled,           \* upstream_caches.enabled
  projectUpstreams,  \* rows of project_upstreams
  holds,             \* upstreams that have the path
  failing,           \* upstreams that answer with an error
  upload,            \* upload_object: its place in the code, and its storage
  finalize,          \* finalize_build: its place, storage, upstreams left, what it found
  request,           \* a read request and its local variables
  relied,            \* history: where the published build found the NAR, while it stays
  watch,             \* history: what the request could rely on since it began
  builds,            \* bound: builds begun so far
  changes            \* bound: changes from outside so far

catalogVars == <<configured, placement, public, pins, row, blob, condemned, deleted,
                 linked, pending, published, builds>>
remoteVars == <<enabled, projectUpstreams, holds, failing>>
vars == <<catalogVars, remoteVars, upload, finalize, request, relied, watch,
          changes>>

Views == {"aggregate", "project"}
Kinds == {"nar", "narinfo"}
Scopes == {"project", "global"}

Storage(s) == <<"storage", s>>
Upstream(u) == <<"upstream", u>>
Rows == <<"rows", 0>>
NoSource == <<"none", 0>>
LocalSources == {Storage(s) : s \in Storages} \cup {Rows}
Sources == LocalSources \cup {Upstream(u) : u \in Upstreams}
NoWatch == [steady |-> {}, seen |-> FALSE, relying |-> FALSE]

First(S) == CHOOSE x \in S : \A y \in S : x <= y

-----------------------------------------------------------------------------
(* Queries *)

\* The view project_visible_paths, or aggregate_visible_paths.
PathVisible(view) ==
  IF view = "project" THEN published \/ "project" \in pins
                      ELSE (published /\ public) \/ "global" \in pins

\* Mutant of ObjectVisible: the aggregate view forgets that projects may be private.
ObjectVisibleToAll(view) == linked /\ (PathVisible(view) \/ published)

ObjectVisible(view) == linked /\ PathVisible(view)

LiveRows == {s \in Storages : row[s] = "live"}

\* The row that get_unscoped tries next: of the preferred storage, or in the order
\* of the ids.
NextRow(preferred, rows) == IF preferred \in rows THEN preferred ELSE First(rows)

PreferredStorage(view) == IF view = "project" THEN placement ELSE DefaultStorage

UpstreamsForView(view) == IF view = "project" THEN enabled \cap projectUpstreams ELSE enabled

-----------------------------------------------------------------------------
(* What could answer a request: for the history, not for the code *)

Serves(s) == s \in configured /\ row[s] = "live" /\ s \in blob
Answers(u, view) == u \in UpstreamsForView(view) /\ u \in holds /\ u \notin failing

GoodSources(view, kind) ==
  {Rows : k \in {"narinfo"} \cap (IF PathVisible(view) THEN {kind} ELSE {})}
  \cup {Storage(s) : s \in {t \in Storages : kind = "nar" /\ Serves(t) /\ ObjectVisible(view)}}
  \cup {Upstream(u) : u \in {v \in Upstreams : Answers(v, view)}}

\* Where finalize_build may find the object, and the object is now.
SourcesThere ==
  {Storage(s) : s \in {t \in Storages : Serves(t)}}
  \cup {Upstream(u) : u \in {v \in Upstreams : Answers(v, "project")}}

-----------------------------------------------------------------------------
(* A read request *)

Idle == [pc |-> "idle", view |-> "project", kind |-> "nar", preferred |-> DefaultStorage,
         rows |-> {}, upstreams |-> {}, answer |-> "none"]

ReadPlaces == {"idle", "visible", "resolve", "placement", "rows", "fetch", "upstreams", "ask",
               "sign local", "sign upstream"}

\* 200 from the server's own catalog and storage or from an upstream, 404, and 500
\* because of an upstream or because a backend or the decryption of a key broke.
Outcomes == {"local", "upstream", "missing", "error", "broken"}

At(pc) == request.pc = pc
Goto(pc) == request' = [request EXCEPT !.pc = pc]
Answer(a) == request' = [Idle EXCEPT !.answer = a]

\* One of the events of which there are at most MaxChanges.
Change == changes < MaxChanges /\ changes' = changes + 1

ReadUnchanged == UNCHANGED <<catalogVars, remoteVars, upload, finalize, changes>>

\* serve_object, for the two kinds of object path that it serves.
StartRequest(view, kind) ==
  /\ At("idle")
  /\ request' = [Idle EXCEPT !.pc = IF kind = "nar" THEN "visible" ELSE "resolve",
                             !.view = view, !.kind = kind]
  /\ ReadUnchanged

\* resolve_narinfo: the row of the path, if the view holds the path.  What it
\* reads next, references and signatures, never changes.
ResolveNarinfo ==
  /\ At("resolve")
  /\ Goto(IF PathVisible(request.view) THEN "sign local" ELSE "upstreams")
  /\ ReadUnchanged

\* get_visible: storage_object_visible_in_view.
CheckVisible ==
  /\ At("visible")
  /\ Goto(IF ObjectVisible(request.view) THEN "placement" ELSE "upstreams")
  /\ ReadUnchanged

\* preferred_storage_id.
ReadPlacement ==
  /\ At("placement")
  /\ request' = [request EXCEPT !.pc = "rows", !.preferred = PreferredStorage(request.view)]
  /\ ReadUnchanged

\* Mutant of ListRows: only the row of the preferred storage is looked up.
ListPreferredRow ==
  /\ At("rows")
  /\ request' = [request EXCEPT !.pc = "fetch", !.rows = LiveRows \cap {request.preferred}]
  /\ ReadUnchanged

\* list_storage_objects.
ListRows ==
  /\ At("rows")
  /\ request' = [request EXCEPT !.pc = "fetch", !.rows = LiveRows]
  /\ ReadUnchanged

ThisRow == NextRow(request.preferred, request.rows)

\* Mutant of PassRow: a blob that is missing ends the search.
StopAtRow ==
  /\ At("fetch") /\ request.rows # {}
  /\ ThisRow \notin configured \cap blob
  /\ Goto("upstreams")
  /\ ReadUnchanged

\* Mutant of PassRow: the rows are listed again, until one of them is found.
TryRowAgain ==
  /\ At("fetch") /\ request.rows # {}
  /\ ThisRow \notin configured \cap blob
  /\ request' = [request EXCEPT !.pc = "rows", !.rows = {}]
  /\ ReadUnchanged

\* Mutant of PassRow: a backend that is not configured is an error.
FailAtRow ==
  /\ At("fetch") /\ request.rows # {}
  /\ ThisRow \notin configured \cap blob
  /\ IF ThisRow \in configured THEN request' = [request EXCEPT !.rows = @ \ {ThisRow}]
                               ELSE Answer("error")
  /\ ReadUnchanged

\* get_unscoped passes over a row whose backend is not configured, or does not
\* have the blob.
PassRow ==
  /\ At("fetch") /\ request.rows # {}
  /\ ThisRow \notin configured \cap blob
  /\ request' = [request EXCEPT !.rows = @ \ {ThisRow}]
  /\ ReadUnchanged

FetchBlob ==
  /\ At("fetch") /\ request.rows # {}
  /\ ThisRow \in configured \cap blob
  /\ Answer("local")
  /\ ReadUnchanged

\* An error of a backend ends the request.
FetchBreaks ==
  /\ At("fetch") /\ request.rows # {}
  /\ ThisRow \in configured
  /\ Change
  /\ Answer("broken")
  /\ UNCHANGED <<catalogVars, remoteVars, upload, finalize>>

NoRowLeft ==
  /\ At("fetch") /\ request.rows = {}
  /\ Goto("upstreams")
  /\ ReadUnchanged

\* upstreams_for_view: enabled upstreams, those of the project or all.
ListUpstreams ==
  /\ At("upstreams")
  /\ request' = [request EXCEPT !.pc = "ask", !.upstreams = UpstreamsForView(request.view)]
  /\ ReadUnchanged

ThisUpstream == First(request.upstreams)

\* fetch_narinfo_text or get_object of one upstream: 404, so the next one is asked;
PassUpstream ==
  /\ At("ask") /\ request.upstreams # {}
  /\ ThisUpstream \notin failing \cup holds
  /\ request' = [request EXCEPT !.upstreams = @ \ {ThisUpstream}]
  /\ ReadUnchanged

\* 200: the NAR, or a narinfo to be signed;
FetchUpstream ==
  /\ At("ask") /\ request.upstreams # {}
  /\ ThisUpstream \in holds \ failing
  /\ IF request.kind = "narinfo" THEN Goto("sign upstream") ELSE Answer("upstream")
  /\ ReadUnchanged

\* any other status, no answer, or a narinfo that does not parse: the request ends.
UpstreamBreaks ==
  /\ At("ask") /\ request.upstreams # {}
  /\ ThisUpstream \in failing
  /\ Answer("error")
  /\ ReadUnchanged

NoUpstreamLeft ==
  /\ At("ask") /\ request.upstreams = {}
  /\ Answer("missing")
  /\ ReadUnchanged

\* render_signed_narinfo: the key of the project is read and decrypted.
SignNarinfo ==
  /\ request.pc \in {"sign local", "sign upstream"}
  /\ Answer(IF At("sign local") THEN "local" ELSE "upstream")
  /\ ReadUnchanged

SigningBreaks ==
  /\ request.pc \in {"sign local", "sign upstream"} /\ request.view = "project"
  /\ Change
  /\ Answer("broken")
  /\ UNCHANGED <<catalogVars, remoteVars, upload, finalize>>

ReadStep ==
  \/ ResolveNarinfo
  \/ CheckVisible
  \/ ReadPlacement
  \/ ListRows
  \/ PassRow
  \/ FetchBlob
  \/ FetchBreaks
  \/ NoRowLeft
  \/ ListUpstreams
  \/ PassUpstream
  \/ FetchUpstream
  \/ UpstreamBreaks
  \/ NoUpstreamLeft
  \/ SignNarinfo
  \/ SigningBreaks

-----------------------------------------------------------------------------
(* Publishing *)

NoUpload == [pc |-> "idle", storage |-> DefaultStorage]
NoFinalize == [pc |-> "idle", storage |-> DefaultStorage, upstreams |-> {},
               found |-> NoSource]

\* A client uploads first and finalizes then.
Free == pending /\ upload.pc = "idle" /\ finalize.pc = "idle"

PublishUnchanged == UNCHANGED <<remoteVars, configured, placement, public, pins, condemned,
                                deleted, request, changes>>

\* begin_build and register_paths of a build that has the path.
BeginBuild ==
  /\ ~pending /\ builds < MaxBuilds
  /\ pending' = TRUE
  /\ builds' = builds + 1
  /\ PublishUnchanged
  /\ UNCHANGED <<row, blob, linked, published, upload, finalize>>

\* validate_upload_target: the storage of the project, if it is configured.
ValidateUpload ==
  /\ Free
  /\ placement \in configured
  /\ upload' = [pc |-> "put", storage |-> placement]
  /\ PublishUnchanged
  /\ UNCHANGED <<row, blob, linked, pending, builds, published, finalize>>

PutBlob ==
  /\ upload.pc = "put"
  /\ blob' = blob \cup {upload.storage}
  /\ upload' = [upload EXCEPT !.pc = "row"]
  /\ PublishUnchanged
  /\ UNCHANGED <<row, linked, pending, builds, published, finalize>>

UpsertUploaded ==
  /\ upload.pc = "row"
  /\ row' = [row EXCEPT ![upload.storage] = "live"]
  /\ upload' = [upload EXCEPT !.pc = "link"]
  /\ PublishUnchanged
  /\ UNCHANGED <<blob, linked, pending, builds, published, finalize>>

LinkUploaded ==
  /\ upload.pc = "link"
  /\ linked' = TRUE
  /\ upload' = NoUpload
  /\ PublishUnchanged
  /\ UNCHANGED <<row, blob, pending, builds, published, finalize>>

\* A statement fails, and the object is deleted again.
PersistBreaks ==
  /\ upload.pc \in {"row", "link"}
  /\ blob' = blob \ {upload.storage}
  /\ upload' = NoUpload
  /\ PublishUnchanged
  /\ UNCHANGED <<row, linked, pending, builds, published, finalize>>

\* finalize_build: project_upstreams.
FinalizeUpstreams ==
  /\ Free
  /\ finalize' = [NoFinalize EXCEPT !.pc = "placement",
                                    !.upstreams = UpstreamsForView("project")]
  /\ PublishUnchanged
  /\ UNCHANGED <<row, blob, linked, pending, builds, published, upload>>

\* storage_id_for_project and StorageCatalog::storage.
FinalizePlacement ==
  /\ finalize.pc = "placement"
  /\ finalize' = IF placement \in configured
                 THEN [finalize EXCEPT !.pc = "head", !.storage = placement]
                 ELSE NoFinalize
  /\ PublishUnchanged
  /\ UNCHANGED <<row, blob, linked, pending, builds, published, upload>>

FinalizeHead ==
  /\ finalize.pc = "head"
  /\ finalize' = IF finalize.storage \in blob
                 THEN [finalize EXCEPT !.pc = "row", !.found = Storage(finalize.storage)]
                 ELSE [finalize EXCEPT !.pc = "ask"]
  /\ PublishUnchanged
  /\ UNCHANGED <<row, blob, linked, pending, builds, published, upload>>

UpsertFound ==
  /\ finalize.pc = "row"
  /\ row' = [row EXCEPT ![finalize.storage] = "live"]
  /\ finalize' = [finalize EXCEPT !.pc = "link"]
  /\ PublishUnchanged
  /\ UNCHANGED <<blob, linked, pending, builds, published, upload>>

LinkFound ==
  /\ finalize.pc = "link"
  /\ linked' = TRUE
  /\ finalize' = [finalize EXCEPT !.pc = "publish"]
  /\ PublishUnchanged
  /\ UNCHANGED <<row, blob, pending, builds, published, upload>>

\* object_exists_upstream; an upstream that fails, or none left, fails the request.
FinalizeAsk ==
  /\ finalize.pc = "ask"
  /\ LET u == First(finalize.upstreams) IN
       finalize' = IF finalize.upstreams = {} \/ u \in failing THEN NoFinalize
                   ELSE IF u \in holds
                   THEN [finalize EXCEPT !.pc = "publish", !.found = Upstream(u)]
                   ELSE [finalize EXCEPT !.upstreams = @ \ {u}]
  /\ PublishUnchanged
  /\ UNCHANGED <<row, blob, linked, pending, builds, published, upload>>

\* publish_build_to_ref.
Publish ==
  /\ finalize.pc = "publish"
  /\ pending /\ pending' = FALSE
  /\ published' = TRUE
  /\ finalize' = NoFinalize
  /\ PublishUnchanged
  /\ UNCHANGED <<row, blob, linked, builds, upload>>

PublishStep ==
  \/ BeginBuild
  \/ ValidateUpload
  \/ PutBlob
  \/ UpsertUploaded
  \/ LinkUploaded
  \/ PersistBreaks
  \/ FinalizeUpstreams
  \/ FinalizePlacement
  \/ FinalizeHead
  \/ UpsertFound
  \/ LinkFound
  \/ FinalizeAsk
  \/ Publish

-----------------------------------------------------------------------------
(* The collector, as far as the rows and the blobs of this NAR show it.  A  *)
(* pending build and a pin protect what is linked; whether a published      *)
(* build does is for retention to say, which Depot models.                  *)

Protected == linked /\ (pending \/ pins # {})

CollectUnchanged == UNCHANGED <<remoteVars, configured, placement, public, pins, linked,
                                pending, published, builds, upload, finalize, request, changes>>

MarkGarbage ==
  /\ ~Protected
  /\ LiveRows # {}
  /\ row' = [s \in Storages |-> IF row[s] = "live" THEN "tombstone" ELSE row[s]]
  /\ CollectUnchanged
  /\ UNCHANGED <<blob, condemned, deleted>>

Revive ==
  /\ linked
  /\ \E s \in Storages : row[s] = "tombstone"
  /\ row' = [s \in Storages |-> IF row[s] = "tombstone" THEN "live" ELSE row[s]]
  /\ CollectUnchanged
  /\ UNCHANGED <<blob, condemned, deleted>>

ListCondemned ==
  /\ condemned = {} /\ deleted = {}
  /\ condemned' = {s \in Storages : row[s] = "tombstone"}
  /\ condemned' # {}
  /\ CollectUnchanged
  /\ UNCHANGED <<row, blob, deleted>>

\* A row of a backend that is not configured is passed over.
DeleteBlob(s) ==
  /\ s \in condemned
  /\ condemned' = condemned \ {s}
  /\ blob' = blob \ ({s} \cap configured)
  /\ deleted' = deleted \cup ({s} \cap configured)
  /\ CollectUnchanged
  /\ UNCHANGED row

\* delete_storage_objects: those still tombstoned.
DeleteRows ==
  /\ condemned = {} /\ deleted # {}
  /\ row' = [s \in Storages |-> IF s \in deleted /\ row[s] = "tombstone" THEN "none" ELSE row[s]]
  /\ deleted' = {}
  /\ CollectUnchanged
  /\ UNCHANGED <<blob, condemned>>

CollectStep ==
  \/ MarkGarbage
  \/ Revive
  \/ ListCondemned
  \/ \E s \in Storages : DeleteBlob(s)
  \/ DeleteRows

-----------------------------------------------------------------------------
(* The administrator, the remote caches, and a restart of the server *)

ChangeUnchanged == UNCHANGED <<row, blob, condemned, deleted, linked, pending, builds>>

\* Mutant of UpsertProject: a request that names no storage leaves the column empty.
UpsertUnresolved(visibility, s) ==
  /\ Change
  /\ s \in configured
  /\ public' = visibility
  /\ placement' = 0
  /\ ChangeUnchanged
  /\ UNCHANGED <<remoteVars, configured, pins, published, upload, finalize, request>>

\* insert_project, by which the handler also changes a project; the handler has
\* checked that the storage is configured.
UpsertProject(visibility, s) ==
  /\ Change
  /\ s \in configured
  /\ public' = visibility
  /\ placement' = s
  /\ ChangeUnchanged
  /\ UNCHANGED <<remoteVars, configured, pins, published, upload, finalize, request>>

\* upsert_pin and delete_pin; a pin needs the row of the path.
ChangePin(scope) ==
  /\ Change
  /\ scope \in pins \/ pending \/ published
  /\ pins' = (pins \ {scope}) \cup ({scope} \ pins)
  /\ ChangeUnchanged
  /\ UNCHANGED <<remoteVars, configured, placement, public, published, upload, finalize,
                 request>>

\* publish_build_to_ref of a build without the path.
Supersede ==
  /\ Change
  /\ published /\ published' = FALSE
  /\ ChangeUnchanged
  /\ UNCHANGED <<remoteVars, configured, placement, public, pins, upload, finalize, request>>

\* set_upstream_enabled.
SetUpstreamEnabled(u) ==
  /\ Change
  /\ enabled' = (enabled \ {u}) \cup ({u} \ enabled)
  /\ ChangeUnchanged
  /\ UNCHANGED <<projectUpstreams, holds, failing, configured, placement, public, pins,
                 published, upload, finalize, request>>

\* link_project_upstream and unlink_project_upstream_by_name.
LinkUpstream(u) ==
  /\ Change
  /\ projectUpstreams' = (projectUpstreams \ {u}) \cup ({u} \ projectUpstreams)
  /\ ChangeUnchanged
  /\ UNCHANGED <<enabled, holds, failing, configured, placement, public, pins, published,
                 upload, finalize, request>>

\* A remote cache receives or drops the path, breaks or recovers.
RemoteChanges(u) ==
  /\ Change
  /\ \/ /\ holds' = (holds \ {u}) \cup ({u} \ holds)
        /\ UNCHANGED failing
     \/ /\ failing' = (failing \ {u}) \cup ({u} \ failing)
        /\ UNCHANGED holds
  /\ ChangeUnchanged
  /\ UNCHANGED <<enabled, projectUpstreams, configured, placement, public, pins, published,
                 upload, finalize, request>>

\* The server restarts with other backends: the default must be among them, and
\* those of the projects (validate_project_storage_ids).  Requests are lost.
ProjectStoragesAvailable(backends) == {DefaultStorage, placement} \subseteq backends

Restart(backends) ==
  /\ Change
  /\ ProjectStoragesAvailable(backends)
  /\ configured' = backends
  /\ condemned' = {} /\ deleted' = {}
  /\ upload' = NoUpload
  /\ finalize' = NoFinalize
  /\ request' = Idle
  /\ UNCHANGED <<remoteVars, placement, public, pins, row, blob, linked, pending, published,
                 builds>>

ChangeStep ==
  \/ \E visibility \in BOOLEAN, s \in Storages : UpsertProject(visibility, s)
  \/ \E scope \in Scopes : ChangePin(scope)
  \/ Supersede
  \/ \E u \in Upstreams : SetUpstreamEnabled(u) \/ LinkUpstream(u) \/ RemoteChanges(u)
  \/ \E backends \in SUBSET Storages : Restart(backends)

-----------------------------------------------------------------------------
(* History, and the specification *)

\* What a request could rely on while it ran: the sources that could have
\* answered it at every moment, whether its view held the path at any moment, and
\* whether the published build's own source was there at every moment.
Remember ==
  /\ relied' =
       IF published' /\ ~published /\ finalize.found \in SourcesThere' THEN finalize.found
       ELSE IF published' /\ relied \in SourcesThere' THEN relied
       ELSE NoSource
  /\ watch' =
       IF request'.pc = "idle" THEN NoWatch
       ELSE IF At("idle")
       THEN [steady |-> GoodSources(request.view, request.kind)',
             seen |-> PathVisible(request.view)',
             relying |-> relied # NoSource /\ request'.view = "project"]
       ELSE [steady |-> watch.steady \cap GoodSources(request.view, request.kind)',
             seen |-> watch.seen \/ PathVisible(request.view)',
             relying |-> watch.relying /\ relied' = relied]

Init ==
  /\ \E c \in Settings :
       /\ configured = c.configured
       /\ row = [s \in Storages |-> IF s \in c.stored THEN "live" ELSE "none"]
       /\ blob = c.stored
       /\ linked = (c.stored # {})
       /\ placement = c.placement
       /\ public = c.public
       /\ projectUpstreams = c.projectUpstreams
       /\ holds = c.holds
  /\ enabled = Upstreams
  /\ failing = {}
  /\ pins = {} /\ pending = FALSE /\ published = FALSE
  /\ condemned = {} /\ deleted = {}
  /\ upload = NoUpload /\ finalize = NoFinalize /\ request = Idle
  /\ relied = NoSource /\ watch = NoWatch
  /\ builds = 0 /\ changes = 0

Next ==
  /\ \/ \E view \in Views, kind \in Kinds : StartRequest(view, kind)
     \/ ReadStep
     \/ PublishStep
     \/ CollectStep
     \/ ChangeStep
  /\ Remember

\* The runtime polls a request that is ready again and again.
Spec == Init /\ [][Next]_vars /\ WF_vars(ReadStep /\ Remember)

-----------------------------------------------------------------------------
(* Properties *)

TypeOK ==
  /\ configured \subseteq Storages
  /\ placement \in Storages
  /\ public \in BOOLEAN
  /\ pins \subseteq Scopes
  /\ pending \in BOOLEAN
  /\ published \in BOOLEAN
  /\ linked \in BOOLEAN
  /\ row \in [Storages -> {"none", "live", "tombstone"}]
  /\ blob \subseteq Storages
  /\ condemned \subseteq Storages
  /\ deleted \subseteq Storages
  /\ enabled \subseteq Upstreams
  /\ projectUpstreams \subseteq Upstreams
  /\ holds \subseteq Upstreams
  /\ failing \subseteq Upstreams
  /\ upload \in [pc : {"idle", "put", "row", "link"}, storage : Storages]
  /\ finalize \in [pc : {"idle", "placement", "head", "row", "link", "ask", "publish"},
                   storage : Storages, upstreams : SUBSET Upstreams,
                   found : Sources \cup {NoSource}]
  /\ request \in [pc : ReadPlaces, view : Views, kind : Kinds, preferred : Storages,
                  rows : SUBSET Storages, upstreams : SUBSET Upstreams,
                  answer : Outcomes \cup {"none"}]
  /\ relied \in Sources \cup {NoSource}
  /\ watch \in [steady : SUBSET Sources, seen : BOOLEAN, relying : BOOLEAN]
  /\ builds \in 0..MaxBuilds
  /\ changes \in 0..MaxChanges

AnsweredWith(outcomes) == ~At("idle") /\ request'.pc = "idle" /\ request'.answer \in outcomes
Answered == AnsweredWith(Outcomes)

\* A request is answered "not found" only if no single source could have answered
\* it from its beginning to its end: rows, blobs and upstreams may change between
\* the visibility check, the list of rows, the fetches and the list of upstreams,
\* but what stays where it is is found (get_visible, get_unscoped, get_object).
NotFoundIsTrue ==
  [][AnsweredWith({"missing"}) => watch.steady = {}]_vars

\* What the view's own storage or catalog could serve all along is answered from
\* there, unless a backend or the decryption of a key breaks: no upstream is
\* asked, and none that fails makes the request fail; a row of a backend that is
\* not configured, or without its blob, is passed over.
LocalComesFirst ==
  [][Answered /\ watch.steady \cap LocalSources # {} => AnsweredWith({"local", "broken"})]_vars

\* A path that only a private project holds, and no global pin, is not answered
\* from the aggregate view's storage or catalog (aggregate_visible_paths).
HiddenStaysHidden ==
  [][AnsweredWith({"local"}) => watch.seen]_vars

\* As long as the object is where finalize_build found it, in the project's storage
\* of that time or in an upstream, a request in the project's view does not miss
\* it: not when the project moves to another storage, not when the server
\* restarts, not when other rows or upstreams come and go.
PublishedIsFound ==
  [][AnsweredWith({"missing"}) => ~watch.relying]_vars

\* Every request is answered, or lost in a restart.
RequestsEnd == ~At("idle") ~> At("idle")
=============================================================================
