# A model of depot, the project cache for Nix

`depot` is a binary cache for Nix: clients publish the store paths of a build,
the server keeps their metadata in SQLite and their NARs in a file system or an
S3 bucket, readers fetch them through the binary cache protocol, and a garbage
collector deletes what no build and no pin needs any more. These modules model
what the server does between two awaits for publishers, readers, collections and
the calls of its write API; the client that pushes a build; the command line that
administers the server; and the formats of Nix that pass through all of them.
TLC checks them on small instances, and TLAPS proves every safety property that
holds for every instance: of publishing, collecting, pushing, reading, the write API,
the command line and the formats.

## The system

| Component | State it keeps | Operations | Depends on |
| --- | --- | --- | --- |
| metadata database (`depot-db`) | SQLite tables: `builds`, `build_paths`, `path_infos`, `path_objects`, `storage_objects`, `project_refs`, `pins`, retention, projects, upstreams, tokens, keys | one method for each statement or transaction, on a pool of **one** connection | nothing |
| publishing service (`depot-ingest/service.rs`, `planner.rs`) | none of its own: a request in progress | `begin_build`, `register_paths`, `upload_object`, multipart start / parts / complete / abort, `finalize_build` | database, storage, upstreams |
| garbage collector (`depot-ingest/gc.rs`) | none: a collection in progress | `run_local_gc` with a grace period, dry run | database, storage |
| pins | `pins` rows | create or replace, delete, list | database |
| retention policies | rules by ref type and pattern, `keep`, TTL | put, delete, choice of the matching rule | database |
| read service (`depot-read`) | none | narinfo, NAR, cache info, by view (project, ref, build) | database, storage, upstreams, signing keys |
| storage backends (`depot-store`) | blobs | put, head, get, delete, multipart, presign | file system, S3 |
| upstream caches | rows and HTTP clients | head and get in order of priority | remote caches |
| HTTP write API (`depot-write`) | none | routes, checks, status codes | all of the above |
| authorization | access tokens, identities | who may act on a project, a ref, a build | database |
| authentication (`depot-auth`) | cache of provider keys | static tokens, OIDC | identity providers |
| signing keys | `project_signing_keys` rows | generate, activate, retire | database |
| projects | `projects` rows | create, update, delete | database |
| Nix formats (`depot-core`) | none | parse and render store paths, hashes, narinfos | nothing |
| push client (`depot-push`), HTTP client (`depot-client`) | a push in progress | closure, register, concurrent uploads, finalize | the write API |
| admin command line (`depot-ctl`), server start (`depot-server`), API types, test utilities | none | - | - |

Handlers and collections run on one asynchronous runtime. **No lock** is held
between two database calls: the publishing service, the readers, and any number
of collections interleave at every `.await`, and any of them may be dropped at
any `.await` when the client goes away or the server stops. The components meet
in the rows of the database and in the blobs, and nowhere else. The single
connection makes each statement and each transaction atomic, and nothing larger.

What is hard in this code, and what the properties are for:

- the collector's root scan is several queries, done twice, then a mark, a list
  of the ready objects, one deletion for each, and a deletion of rows; requests
  and other collections run in between;
- a request checks the status of a build, or the presence of an object, and uses
  the answer after further awaits;
- a request or a collection stops half way: an object without its row, a row
  without its link, blobs deleted whose rows remain;
- the cleanup after a failed upload deletes an object that somebody else may
  have uploaded before;
- `finalized_at` is read before the transaction that stores it, is compared as
  text, and decides what retention keeps;
- a retention policy, a TTL or a pin changes while a collection is at work, which
  reads the policy, its rules and the builds it retains in separate queries;
- everything garbage must be reclaimed in the end, and nothing that is needed
  may stay hidden;
- a reader checks visibility, lists rows, reads a blob and asks upstreams one after
  another, while the project moves to another backend, its upstreams change, a
  collection deletes, or the server restarts with other backends;
- the credential of a request is looked up in a cache of provider keys that other
  requests refresh, then in the tables of bindings and tokens, and acted on later;
- what is made of two queries without a transaction: a policy and its rules, the
  number of a signing key and its row, a project and its first key;
- a hash has many texts: a registered path is compared with, and served as, one of
  them, and a signature must fit the text it is served in;
- a command of `depot-ctl` that lost its answer is entered again, or run by two
  administrators at once;
- a push runs many uploads at once, each of them a series of calls of which any
  may fail or lose its answer; one that fails drops all the others where they
  stand, while their last requests may still run on the server.

`PROJECT.json` lists these hazards at their lines with the properties that cover
them.

## Modules

| Module | Models |
| --- | --- |
| `Timestamps` | how points in time sort as the RFC 3339 text that the database stores |
| `Catalog` | the tables and the blobs, and one operator for every database method and storage call that publishing and collecting use |
| `Ingest` | the publishing service and the pin handlers: one action for each stretch of a request between two awaits, any number of requests at once, and their failure |
| `Gc` | the collector: one action for each query, update and deletion, any number of collections at once |
| `Depot` | the composition, with the passage of time, policy changes, the history of what is held, fairness, and the properties |
| `Publication` | what publishing promises: when a path comes into a build, when it is available, and when a ref may show a build |
| `DepotInvariant` | the inductive invariants `IInv`, `LinkInv` and `PublicationInv` |
| `Expectations` | what a test and an error message say of publishing and the code does not do |
| `TypeProofs`, `DepotProofs`, `PublicationProofs` | theorems of `Depot` |
| `AtomicPush` | what a push promises about the objects in the backend and its build |
| `Push` | one push of `depot-push` with its concurrent uploads, the part of the server and the backend that serves them, and the properties |
| `PushProofs` | theorems of `Push` |
| `Reading` | the read service: one action for each query, blob and upstream call of a request, beside an upload, a finalization, a collection, and changes of the project, its upstreams, the remote caches and the backends |
| `ReadingProofs` | theorems of `Reading` |
| `Access` | the tables of bindings and access tokens, the provider and the cache of its keys, the authorizers and the rules of the authorization service |
| `Administration` | the other tables that the write API changes: signing keys, policies, pins, upstreams, links |
| `WriteApi` | requests of the write API query by query, from authentication to their effect, beside each other, the provider and restarts |
| `ApiExpectations` | what a test says of expired tokens and the code does not do |
| `WriteApiProofs` | theorems of `WriteApi` |
| `RetentionRules` | built-in rules, profiles and custom rules, and the rule that applies to a ref |
| `Commands` | administrators who run scripts of `depot-ctl` commands while requests and answers are lost |
| `CommandsProofs` | theorems of `Commands` |
| `NixFormats` | store paths, hashes and their texts, content addresses, path infos, narinfos, their validation, rendering, parsing and fingerprints |
| `Narinfos` | the way of a narinfo: what `nix path-info` prints, the payload of a push, the row, the text that is served, the text that a second depot relays, and what Nix reads in it |
| `NarinfosProofs` | theorems of `Narinfos`, and lemmas about sorting, digests and narinfos |
| `MCDepot`, `MCPush`, `MCReading`, `MCWriteApi`, `MCCommands`, `MCNarinfos` | constants for TLC |

`Depot` extends `Ingest` and `Gc`, both of which extend `Catalog`, which extends
`Timestamps`. It implements `Publication`: a build's status, its paths, the registered
paths, the linked ones and the refs are the abstract state as they are, and every
finalization past its listing of paths is an attempt at a publication, of the build
with the paths it listed. `Push` stands beside them: `Ingest` lets clients do anything at any
time, so whatever a push does is among it; `Push` adds what a client of this code
does, and what is left of the streams in the backend. It implements `AtomicPush`.

`Reading` has publishing and collecting again, for one path only but with several
backends: `Depot` asks what is deleted while somebody needs it, `Reading` asks
what a request sees of it. `WriteApi` and `Commands` extend
`Administration`, which extends `Access`: the first interleaves the queries of its
handlers, the second runs whole calls and interleaves administrators and faults.
`Commands` extends `RetentionRules` too, and `Narinfos` extends `NixFormats`.

### State

- `pathInfos`, `buildPaths`, `links`, `refs`, `pins`: the rows of `path_infos`,
  `build_paths`, `path_objects`, `project_refs` and `pins`. Nothing deletes rows
  of the first three.
- `row[n]` is the row of a NAR in `storage_objects` with its tombstone: `none`,
  `live`, `fresh` (tombstoned, within the default grace period of six hours) or
  `expired`. `blobs` are the objects that the storage backend holds. A NAR is
  served when its row is live and its blob is there.
- `status`, `finalizedAt`: columns of `builds`. `updatedAt` counts the publications
  of a ref and `expiredTo` those that each TTL has outlived, which
  stands for `updated_at` compared with the present less the TTL.
- `policies` and `rules`: the rows of `project_retention_policies` and
  `project_ref_retention_rules`, by the policy that they come from. A policy is set
  with its rules in one transaction; deleting it leaves the rules. `RuleFor` is the rule
  of each policy for each ref, if any, with its TTL and its number of builds, which it
  may leave to the policy's row (`KeepLatest`). Where there is no row the
  defaults apply.
- `clock`: the instant a publication last read, because `finalized_at` is
  ordered. Two publications never read the same nanosecond, so the further keys
  of the query's ordering decide nothing and are left out.
- `handler[h]`: a request being served, by its place in the code (`pc`) and its
  local variables. `collector[c]`: a collection, likewise.
- `steady` and `kept` are history: `Holds` are the reasons a collector has to keep
  an object (a pending build, a retained build or a pin, and an object reachable
  from its paths); `steady` are those in force without a break since no collection
  was running, `kept` those since their object was served in such a state. The hold
  of a retained build names the policy that retains it and ends where that changes.

The state of `Push`:

- `job`: the backend, the sizes of the objects, the limit of uploads, and the pin.
- `phase`: where `push_paths` stands; `task[u]`: the spawned task of a required
  upload, by its place in the code, with the bytes read from its stream and the
  parts it has an ETag of; `call[u]`: the server's request for it (`complete_multipart_upload`
  or `upload_object`), which lives on when the task is gone.
- `session` and `received`: the multipart uploads of S3 and their parts; `temp`: the
  temporary files of `put_stream`; `stored` and `content`: the objects under their
  names. A stream is a length, and what arrives of it are pieces `[from, to]`.

The state of `Reading`:

- `configured`, `placement`, `public`, `pins`, `pending`, `published`, `linked`: the
  backends of the server, the project, and the rows that make the path visible;
  `row` and `blob` of the NAR by storage; `condemned` and `deleted`: a collection's
  list and how far it came.
- `enabled`, `projectUpstreams`: rows; `holds`, `failing`: the remote caches.
- `upload`, `finalize`, `request`: the one upload, finalization and read request in
  progress, with their local variables.
- `relied` and `watch` are history: where the published build found its object, for
  as long as it is there; and for the request, which sources could have answered it
  at every moment since it began, and whether its view ever held the path.

The state of `Access`, `Administration` and `WriteApi`:

- `setting`: the configuration, and which calls clients make; `now`; the tables
  `projects`, `bindings`, `tokens`, `builds`, `keys`, `policies`, `rules`, `pins`,
  `upstreams`, `links`.
- `published`, `reachable`: the identity provider; `cache`: `OidcAuthorizer`'s
  keys. `everPublished` is history.
- `request[h]`: a request by its place in the code, with the keys it fetched, the
  rejections of the chain, the identity found, the number for a new key, and so on.
- `everEntitled`, `alwaysEntitled`: history: whether the credential entitled its
  holder to the call at some moment since the request began, and at all. `alone`:
  whether no other request made a key for the same project meanwhile.

`Commands` has the same tables, and for each administrator the command of the script
(`at`), its place (`pc`) and the `answer` on its way. `Narinfos` has the rows
`pathInfos`, the last text `served` and `relayed`, and as history what was
`registered`.

### Actions and code

| Code | Actions |
| --- | --- |
| `begin_build` | `BeginBuild` |
| `register_paths` | `RegisterPaths` (status check), `RegisterInfo`, `RegisterAttach` (first loop), `HeadFound`, `HeadPassedOver`, `PersistRow`, `PersistLink` (second loop) |
| `upload_object`, `complete_multipart_upload` | `UploadObject`, `PutObject` or `UploadRejected`, `PersistRow`, `PersistLink`; `PersistFails`, `CleanUpUpload` |
| `finalize_build` | `FinalizeBuild` (status check), `ListBuildPaths`, the loop with `HeadFound`, `HeadPassedOver` (upstream has it) or `FinalizeRejected`, `PersistRow`, `PersistLink`, then `StampBuild` and `Publish` (the transaction) |
| a dropped future or an error passed on | `DropRequest`, `DropGc` |
| `create_pin`, `delete_pin` | `CreatePin`, `DeletePin` |
| `run_local_gc_with_grace_period` | `RunGc`; for both passes `ListRefs`, for each ref `GetDefaultPolicy` or `GetCustomPolicy` and `ListRules`, `JudgeRef`, `ListNewestBuilds`; `ListRetainedPaths` for each build, `ListPendingPaths`, `ListPinnedPaths`; `ClearTombstones`; `MarkStaleObjects`; `ListReady`; `DeleteObject` for each object; `DeleteObjectRows` |
| policies, time | `ReplacePolicy`, `DeletePolicy`, `Age`, `ExpirePublications` |
| `push_paths` | `SpawnUploads`, `Acquire` (the semaphore), `NoticeFailure` and `JoinUploads` (the `JoinSet`), `Finalize`, `Pin`; `PushFails`, `FinalizeFails` |
| `upload_s3_multipart_reader` | `ReadPart`, `ReadEnd`, `TooManyParts`, `PutPart`, `SendComplete`, `ReceiveAnswer`, `AbortUpload`; `ReadFails`, `PutPartFails`, `LoseAnswer`, `AbortFails` |
| multipart uploads on the server and in S3 | `CreateUpload`, `Assemble`, `AssembleRejected`, `Persist`, `CleanUpObject`; `AssembleUnknown`, `PersistFails`, `DropCall` |
| `serve_object`, `get_visible`, `get_unscoped`, `get_object` (`depot-read`) | `StartRequest`; `ResolveNarinfo`; `CheckVisible`, `ReadPlacement`, `ListRows`, then `PassRow`, `FetchBlob` or `FetchBreaks` for each row, `NoRowLeft`; `ListUpstreams`, then `PassUpstream`, `FetchUpstream` or `UpstreamBreaks`, `NoUpstreamLeft`; `SignNarinfo`, `SigningBreaks` |
| publishing beside readers, with several backends | `BeginBuild`; `ValidateUpload`, `PutBlob`, `UpsertUploaded`, `LinkUploaded`, `PersistBreaks`; `FinalizeUpstreams`, `FinalizePlacement`, `FinalizeHead`, `UpsertFound`, `LinkFound`, `FinalizeAsk`, `Publish` |
| collecting beside readers | `MarkGarbage`, `Revive`, `ListCondemned`, `DeleteBlob`, `DeleteRows` |
| `authenticate_headers`, the chain, `OidcAuthorizer` | `ReadBuildContext`, `CheckStaticToken`, `ReadCache`, `FetchDiscovery`, `FetchKeys`, `FetchFails`, `StoreKeys`, `SelectKey`, `LookUpToken` |
| `authorize_*` | `Authorize` |
| the handlers (`depot-write/handlers.rs`) | one action for each route, with `RefuseBody` for what its body may not be, and `List` for those that only read |
| `upsert_project`, `generate_project_signing_key` | `UpsertProject`, `EnsureProjectSigningKey`, `GenerateProjectSigningKey`, `CountSigningKeys`, `InsertSigningKey` |
| `get_project_retention_policy` | `GetProjectRetentionPolicy`, `ReadRetentionRules` |
| around the API | `RotateKeys`, `ProviderComesOrGoes`, `Tick`, `DatabaseFails`, `Restart` |
| commands of `depot-ctl` | `Enter`, `ListExisting` (for `--if-not-exists`), one action for the call of each command, `Conclude` (which error is ignored), `CallFails` |
| publish payload, `register_paths` of one path, the served narinfo, the relayed one | `Push`, `Register`, `Serve`, `Relay` of `Narinfos` |
| `upload_object_reader`, `put_stream` of the file system | `CopyChunk`, `CopyEnd`, `RenameFile`, `CopyBreaks`, `Persist`, `CleanUpObject`; `CopyFails`, `PersistFails`, `DropCall` |

### Abstractions

- `Depot` has one storage backend; with several, a collection skips the objects of a
  backend that is not configured. `Reading` has several.
- A loop visits its paths in any order; the code uses the order of the request.
- `register_paths` validates narinfos and rejects conflicting ones, and any call
  may fail: all of this is `DropRequest`, since what was done stays done.
- The upload planner asks storage and upstreams what is there and answers the
  client; it changes nothing, and the client is free to do anything. The same
  holds for the start of a multipart upload and for presigned parts.
- `validate_upload_target` runs before the upload; the paths of a build only grow,
  so testing it at the upload is the same.
- A collection asks for the id of a project before it reads the policy, and again
  before it lists builds. Projects are never deleted, so these two queries are left
  out; every other one is a step. The refs of a scan may come up in any order.
- A dry run only reads.
- `Push` leaves the database to `Ingest` and begins with the upload plan: the
  closure from Nix, `begin_build` and the registration only fail or go on. A part's
  presigning is one step with its upload, and either may fail. The uploads of a push
  get their permits in any order. Two paths with one object have equal streams.
  `finalize_build` is one step, since nothing else of the push runs beside it.
- The clients, and the administrator who replaces policies and starts collections,
  do anything at any time.
- `Reading` has one project, one path with its NAR, and one read request at a time:
  readers share nothing, so one stands for any number. Everything that holds the
  path besides the project's ref is a pin. Its collection is abbreviated to what a
  reader sees of it: a scan is one step, and may find an object of a published build
  garbage, since whether the build is retained is `Depot`'s question.
- A credential is none, the static token, a provider's token by its key and its
  claims, an access token by its number, or other text. Whether audience, issuer,
  subject, times and bound claims of a provider's token are right is one bit of it.
  There is one provider, and one route stands for each kind of list.
- A tick of `now` is coarser than a second, and the offset of a date is a number of
  ticks east of UTC, negative for a date west of it. The text of a date east of UTC
  sorts later than its instant, that of a date west of it earlier.
- In `WriteApi` build operations end at `HandToIngest`: what they do is in `Ingest`.
- The settings of `MCWriteApi` put separate questions to separate initial states,
  so that the calls of one do not multiply the states of another.
- In `Commands` a request that is lost is never executed later, and an administrator
  enters a command until it exits without error or is refused for what it says.
- A path in `NixFormats` is a sequence of segments, a hash its form, algorithm and
  digits, and the text of a narinfo the sequence of values of each field. A
  digest has `DigestBytes` bytes, three in the run, which in nix32 leave spare bits
  as 32 do. Nix's own parser is modelled by what it reads: an empty `Compression` is bzip2, and a
  content address is read only if a colon stands before its digest. `Words` is the set of names of
  algorithms, compressions and fields; `TextOrder` numbers the paths that occur as
  references in the order of their texts, and `InTextOrder` is the permutation of a
  list that sorts it by these numbers.

## Runs

In the runs of `Depot` the instances have one NAR for one path, or two for two paths
of which one references the other; one ref with one or two builds; and one or two
requests and collections. That is enough for each interaction: a hold is about one
object and one path (or two along a reference), retention compares two builds, and
races are of two requests, two collections, or one of each. In `publishing` there are
two paths, each with its NAR, so that a build may have an object that no later one
has. `OneOrTheOther` bounds it: either two requests overlap, for one path, or a policy is
set (and not deleted again) while one request at a time is served and each build has a
path of its own. `overlap` deletes policies and gives tombstones no grace period. A
policy keeps nothing (`Q1`, for which no rule matches or whose rule says 0) or two
builds by its row (`Q2`), the defaults one build, for good or with a TTL. The proofs
are for any number.
In `publishing` and `overlap` the requests and collections, and where they
are alike the builds and the paths, are symmetric sets: only safety properties are
checked there.
`Base = 2` and `Places = 1` give two instants in a second, and `MaxClock` up to 3
instants, of which 2 sorts after 3. `MaxFaults` bounds failures.

| Run | Instance | Checks |
| --- | --- | --- |
| `publishing` | two builds of one ref, two paths with a NAR each, two requests or a policy that is set, one collection, the default grace period | `TypeOK`, `SteadyNotCondemned`, `KeptServed`, `PublishedIsLinked`, `KeepsPublication` |
| `overlap` | two collections with no grace period, a request, a pin, a TTL, changing policies, a failure | `IInv`, which implies `SteadyNotCondemned` and `KeptServed` |
| `closure` | a path referencing another whose object an upstream serves, a pin | `KeptServed`, `PublicationInv` |
| `liveness` | two builds, a pin, a failure, fairness | `GarbageIsReclaimed`, `HeldIsRevived` |
| `pushing` | three uploads, two of them of one object; to S3 with objects of one and two parts, or one of more parts than allowed; into a file system; two permits, or a limit of zero; two faults; fairness | `PushInv`, `WholeObjects`, `DoneLeavesNothing`, `FailedLeavesNothing`, `KeepsPromise`, `PushEnds`, `PushSucceeds` |
| `reading` | three storages, of which two are configured, two upstreams, a private project, a public one, and one stored on two backends that moved to a third; one more build (`MaxBuilds`), one change from outside (`MaxChanges`); fairness | `TypeOK`, `NotFoundIsTrue`, `LocalComesFirst`, `HiddenStaysHidden`, `PublishedIsFound`, `RequestsEnd` |
| `api` | two requests at a time, two or three in all, one event (`MaxEvents`: a rotation, a failure, a restart), nine settings: rotation, bindings, expiry, an expiry west of UTC, builds, keys, policies, pins, upstreams; fairness | `TypeOK`, `EntitledWhenActing`, `EntitledIsAdmitted`, `UpsertedProjectHasKey`, `NumberedKeysDiffer`, `PinsStayInScope`, `UpsertSparesKeys`, `PolicyHasRules`, `RequestsEnd` |
| `narinfos` | two paths as several versions of Nix print them, foreign registrations, foreign texts | `TypeOK`, `AcceptedIsServed`, `ReprintIsNoConflict`, `SignaturesVerify`, `RelayKeepsSource` |
| `commands` | one or two administrators, a script that sets up a project, one that retires it, one that goes through policies; two lost calls; fairness | `TypeOK`, `ScriptsAchieve`, `MilderProfileKeepsMore` |

Publishing and collecting:

- `SteadyNotCondemned`: what has been held without a break since before the
  running collections began is on no collection's list of deletions. A retained build
  holds under one policy: a collection that reads the limit of one build, then sees the
  policy set to two and a second build published, and then lists with the limit of
  one, does miss the first build, though both policies retained it while they were in
  force, and may delete its objects. With holds that outlive a change of policy TLC
  finds that sequence in `publishing`; no doc or test denies it, and the properties
  promise no more than the code keeps: with the policy left alone nothing is lost,
  whatever is published, expires or is collected between the queries.
- `KeptServed`: what was served while no collection ran stays served as long as it
  is held. The exception is in the definition of `kept`: the cleanup after a failed
  upload of the same object.
- `PublishedIsLinked`: a finalization that reaches its publication has linked every
  path it listed, or found it upstream. Without the link the object is garbage to
  the collector however long the build is retained.
- `KeepsPublication`: `Depot` implements `Publication`. A path comes into a build that
  was begun and only once its narinfo is registered, only paths of builds become
  available and they stay so, and a ref comes to show a build only when all the
  paths it had as somebody set about publishing it are available here or upstream,
  however many requests for the same build overlap or are dropped. A second
  finalization of a published build is an attempt of its own, and moves the ref
  again. That a build may be shown which has got more paths since is part of it:
  the code promises nothing of those.
- `GarbageIsReclaimed` and `HeldIsRevived` are the two sides of liveness.

Pushing:

- `WholeObjects`: what the backend has under the name of an object is its whole
  stream, in order, whatever broke off on the way.
- `KeepsPromise`: `Push` implements `AtomicPush`. The build is published only with
  all its objects there, and after that no cleanup of one of its own uploads takes
  an object away. It would be wrong if the push went on with a request of a dropped
  task still at work on the server.
- `DoneLeavesNothing`, `FailedLeavesNothing`: where no multipart upload stays open
  and no temporary file stays behind.
- `PushEnds`, `PushSucceeds`: no upload waits for ever for a permit, and without a
  fault a push succeeds whose objects have at most `MaxParts - 1` parts. One of
  exactly `MaxParts` is refused, because the limit is tested before the end of the
  stream is seen.

Three uploads under two permits are the fewest in which one waits while others run
and two share an object; with a limit of zero, one must get the permit of another.
Two faults allow a lost answer and a failed abort, or a failed record and a dropped
handler, in one behaviour. `job` is which of the four pushes it is: chosen in `Init`,
so that one run covers both backends and all limits.

Reading, where "all along" means at every moment from the beginning of a request to
its end:

- `NotFoundIsTrue`: a request is answered 404 only if nothing could have answered it
  all along. Two sources of which the first goes before the second comes do
  not count: there the code answers 404, and rightly promises no more.
- `LocalComesFirst`: what a storage or the catalog could serve all along comes from
  there, and a failing upstream does not matter to it.
- `HiddenStaysHidden`: what a view never held while the request ran is not served
  from the server's own storage.
- `PublishedIsFound`: while the object is where `finalize_build` found it, a request
  in the project's view does not miss it, after moves of the project and restarts.

Two configured storages and one that is not are the fewest with a preferred row,
another row, and one to be passed over; two upstreams are the fewest of which one
fails or is not linked. One change from outside in the middle of a request is the
hazard; `ReadingProofs` is for any number.

The write API:

- `EntitledWhenActing`, `EntitledIsAdmitted`: who acts was entitled to at some moment
  since the request began, and who is entitled throughout gets in. The moments
  matter, since the lookups are separate queries. The cached provider keys never
  expire, so a provider's key entitles for as long as it was *ever* published
  (`everPublished`) in the first, and only while it is published in the second.
  The second says nothing of an access token whose date was written west of UTC and
  whose text has passed (`HasLapsedEarly`): such a token is still good and is
  answered 401. Without that exemption the setting `West` refutes the property.
- `UpsertedProjectHasKey`, `UpsertSparesKeys`: repeating `upsert_project` makes up for
  a first key that failed, and never retires one. An `upsert_project` that
  is answered with an error may have stored the project.
- `NumberedKeysDiffer`: generated key names are distinct unless the requests
  overlapped, in which case two keys may get one name: the name is a count.
- `PinsStayInScope`, `PolicyHasRules`: the second holds although policy and rules
  are read by two queries, because deleting a policy leaves its rules. Policy and
  rules in one answer may come from different requests.

Two handlers are the fewest that race, and a third request shows what they left.

Narinfos: what was accepted is read back by Nix as it was (`AcceptedIsServed`), can be
registered again however it is written (`ReprintIsNoConflict`), and every signature in a
served or relayed text verifies (`SignaturesVerify`, `RelayKeepsSource`). Three cases
of the code are exempted in the properties themselves, and the run has each of them and
refutes the property without its exemption:

- A structured content address whose algorithm is not sha256 is written with a
  dash, `fixed:sha512-<base64>`, as the test
  `content_address_structured_sha512_falls_back_to_text_form` says. Nix reads no such
  text, and with it no part of the narinfo: `AcceptedIsServed` says of such a path only
  that the text carries the method, algorithm and digest that were registered.
- The text in which an older Nix prints the same content address,
  `fixed:sha512:<nix32>`, is kept as it is, so either print of the path conflicts with the
  other: `ReprintIsNoConflict` is about paths without content address or with a sha256
  (`HasUsualCa`).
- A narinfo registered with an empty `Compression` is accepted as uncompressed and
  served as it is; Nix takes it for bzip2. No push client of this repository makes one.

The instance has hashes as `algorithm:digits`, SRI text and structured values in base16, nix32 and
base64, references in either order, a deriver or none, content addresses of sha256 and
of sha512 in both forms, and registrations and texts that each check refuses. Signatures that come with a
later registration of the same path are dropped, and an upstream text without
`References` or with a base16 hash is refused: both are as the code has it.

Commands: scripts with `--if-not-exists` and `--ignore-missing` end and achieve what
they are for, whatever is lost and whoever runs them at the same time
(`ScriptsAchieve`); and a milder profile keeps at least as much of every ref
(`MilderProfileKeepsMore`), through the rules and the choice among them.
Two faults allow a request and the answer of its repetition to be lost. Two readings
of the code that the model shows and no doc denies: `--keep-builds` with `--profile`
has no effect, and the product that makes seconds of a duration wraps at `U64`.

### Runs that find a disagreement

`Expectations` and `ApiExpectations` state what a test or an error message says; the
tests make one call after another with one way to write a date, and TLC finds the
interleaving or the input that refutes it.

| Run | Statement | What happens |
| --- | --- | --- |
| `published_available` | a published build has its objects | a collection deletes an object that `finalize_build` has already found |
| `newest_retained` | the build a ref shows is retained | `finalized_at` as text: `...5Z` sorts after `...51Z`, even with one request at a time |
| `expired_token` | an expired access token is rejected | `expires_at` is stored in the offset in which it was given and compared as text with the present in UTC: at a positive offset the token outlives its date by the offset (at a negative one it is refused before its date, by as much) |

With two requests (`Handlers = {h1, h2}`, `MaxClock = 2`) the statement of
`newest_retained` fails whatever the text:
`finalized_at` is read before the transaction, so two publications may commit in
another order than their times.

`published_available` is refuted even when every request and every
collection is shorter than the default grace period (`GraceOutlastsAll`), and
without a grace period of zero: a collection deletes what an earlier one
tombstoned. `SteadyNotCondemned`, `KeptServed` and
`HeldIsRevived` say exactly what the code does guarantee in spite of it.

### Fairness

`FairSpec` assumes that the runtime polls every request that can go on
(`WF Serve`), that time passes (`WF Ageing`), and that collections are started
again and again and go on (`WF Collect`). The last is an assumption about the
operator: the code has no scheduler, `depot-ctl gc` starts one collection. Clients
owe nothing: no fairness is given to requests, pins or policies, nor to failures.

In `Push`, `FairSpec` assumes that the client's runtime polls `push_paths` and each of
its tasks (`WF PushStep`, `WF TaskStep`), and that the server's polls each request
(`WF ServerStep`): a call that does not fail is answered. The model gives no fairness
to faults, and `PushSucceeds` asks for nothing once there was one.

`Reading` gives weak fairness to the steps of the read request (`WF ReadStep`), and
`WriteApi` to those of each request (`WF HandlerStep`): queries return, and a remote
cache or the identity provider answers or fails. The HTTP client of `OidcAuthorizer`
has no timeout, so a provider that does neither would keep a request for ever;
`RequestsEnd` assumes that the connection breaks then. Nothing is assumed of
administrators, other clients, providers, remote caches or collections.

In `Commands` each administrator goes on with the script and the server answers
(`WF Step`), and faults are bounded by `MaxFaults`: with a fault each time nothing
ever succeeds. In `pushing`, `api`, `expired_token` and `commands`, where one push, a
bounded number of requests, or scripts come to an end, the system may stop and
deadlock is not checked; nor is it in `newest_retained`, where no collection runs and
the one handler stops when all builds are published.

## Proofs

TLAPS checks, for every value of the constants under their named assumptions:

| Theorem | Statement |
| --- | --- |
| `TypeProofs!TypeCorrect` | `Spec => []TypeOK` |
| `DepotProofs!Inductive` | `Spec => []IInv` |
| `DepotProofs!SteadySafe` | `Spec => []SteadyNotCondemned` |
| `DepotProofs!KeptSafe` | `Spec => []KeptServed` |
| `PublicationProofs!LinkInductive` | `Spec => []LinkInv` |
| `PublicationProofs!PublicationSafe` | `Spec => []PublishedIsLinked` |
| `PublicationProofs!PublicationInductive` | `Spec => []PublicationInv` |
| `PublicationProofs!PublicationRefined` | `Spec => KeepsPublication`, the refinement |
| `PushProofs!PushInductive` | `Spec => []PushInv` |
| `PushProofs!WholeObjectsSafe` | `Spec => []WholeObjects` |
| `PushProofs!PushKeepsPromise` | `Spec => KeepsPromise`, the refinement |
| `PushProofs!DoneLeavesNothingSafe` | `Spec => []DoneLeavesNothing` |
| `PushProofs!FailedLeavesNothingSafe` | `Spec => []FailedLeavesNothing` |
| `ReadingProofs!ReadInductive`, `ReadTypes` | `Spec => []ReadInv`, `Spec => []TypeOK` |
| `ReadingProofs!NotFoundSafe` | `Spec => NotFoundIsTrue` |
| `ReadingProofs!LocalFirst` | `Spec => LocalComesFirst` |
| `ReadingProofs!HiddenSafe` | `Spec => HiddenStaysHidden` |
| `ReadingProofs!PublishedFound` | `Spec => PublishedIsFound` |
| `WriteApiProofs!ApiInductive`, `ApiTypes` | `Spec => []ApiInv`, `Spec => []TypeOK` |
| `WriteApiProofs!ActingSafe` | `NoDatesEast` implies `Spec => []EntitledWhenActing` |
| `WriteApiProofs!AdmittedSafe` | `Spec => []EntitledIsAdmitted` |
| `WriteApiProofs!UpsertedSafe` | `Spec => []UpsertedProjectHasKey` |
| `WriteApiProofs!NumbersSafe` | `Spec => []NumberedKeysDiffer` |
| `WriteApiProofs!SparedSafe` | `Spec => UpsertSparesKeys` |
| `WriteApiProofs!ScopeSafe` | `Spec => PinsStayInScope` |
| `WriteApiProofs!RulesSafe` | `Spec => PolicyHasRules` |
| `CommandsProofs!CommandsInductive`, `CommandsTypes` | `Spec => []CommandsInv`, `Spec => []TypeOK` |
| `CommandsProofs!MilderProfileSafe` | `Spec => MilderProfileKeepsMore` |
| `NarinfosProofs!NarinfosInductive`, `NarinfosTypes` | `Spec => []NarinfosInv`, `Spec => []TypeOK` |
| `NarinfosProofs!AcceptedIsServedSafe` | `Spec => []AcceptedIsServed` |
| `NarinfosProofs!ReprintIsNoConflictSafe` | `Spec => []ReprintIsNoConflict` |
| `NarinfosProofs!SignaturesVerifySafe` | `Spec => []SignaturesVerify` |
| `NarinfosProofs!RelayKeepsSourceSafe` | `Spec => []RelayKeepsSource` |

The assumptions are those that the modules name: `CatalogConstants`,
`IngestConstants`, `GcConstants`, `TimestampConstants`, `PushConstants`,
`ReadingConstants`, `AccessConstants`, `ApiConstants`, `CommandConstants`,
`RetentionConstants`, `FormatConstants` and `InputConstants`. They say what kind of
thing each constant is, and nothing of its size, but for two facts: the seconds of
180 days fit in a `U64`, and a digest has at least one byte. `InputConstants` says
what may come in from outside. Nix prints whole sha256 digests, each reference once, and
signatures that verify against what it prints. A client may register anything else of
the right kind, or hand in hashes that the server refuses, but its content address,
if it has the algorithm sha256, is whole and in nix32, it lists each reference once, and
its signatures verify against what it says; the code checks no signature. Content
addresses of other algorithms may have any form, but for structured ones in base16. The same holds of the text
of a foreign cache that a depot accepts, whose names lie in the store directory.
`Words` is any set of names that contains the ones the code uses. `NoDatesEast` says that no
expiry date of a token is written east of UTC; `expired_token` shows why `ActingSafe`
needs it. `AdmittedSafe` assumes nothing of the dates: what happens to those west of
UTC is exempted by the property itself. The bounds on builds, changes, requests and events are constants too,
so the theorems hold for every bound.

**Collecting.** `SteadyNotCondemned` alone is not inductive: it says nothing of a
collection that has not listed anything yet. `IInv` follows the path of each
steady hold through a collection.

1. `SteadyScanned`: wherever a root scan stands, it either has the path of the
   claim among its roots or will still come by it. A retained build is still to
   be found by its ref, or is in the list of builds, or its paths are roots; and if its
   ref is at hand, what the earlier queries read (the policy, the TTL, the limit) is
   what the claim goes by (`GoesByClaim`). For the two queries of a policy this takes
   that a policy whose row is there has its own rules. The claim has to name the policy
   and the TTL cut in force (`cut`): a scan decides by the `updated_at` and the limit
   it read before, so the claim of a retained build lapses when an
   older publication of the ref expires, or the policy changes. At `apply` all steady
   roots are there.
2. `SteadyCleared`: after the clear pass no steadily held object is tombstoned,
   because the roots contain its path and `live_objects` its object
   (`LivePaths` is monotone in the roots; rows of `path_infos` and `path_objects`
   never go away). No mark pass of any collection can tombstone it, by 1, so it
   is not ready when the list is made and never condemned.
3. `KeptShape`: what is kept is steady and served. Only a condemned object's blob
   or row is deleted, which 2 excludes, or one in a failed upload's cleanup,
   which `kept` leaves out.

A hold becomes steady only in a state without a running collection, where
`CollectorShape` makes 1 and 2 trivial, and `steady` can only lose members while
one runs. `DepotProofs` has one step for each action under each part.

**Publishing.** `LinkInv` adds the loop invariant of `finalize_build`: the listed
paths that are no longer to be visited are linked or upstream.
The rows of `path_objects` are never deleted, so no collection disturbs it.
`PublicationInv` adds `Founded`: what any request knows of its build and of the path at
hand. A registration has attached every path that it no longer has to visit, so
the path of its second loop belongs to the build, as does the path of an upload once
`validate_upload_target` has passed; that makes every link a link of some build's path.
It is needed for the refinement and for nothing before it: `PublicationRefined` maps
`BeginBuild` to `Begin`, `RegisterInfo` to `Know`, `RegisterAttach` to `Add`, `PersistLink` to
`Provide`, `ListBuildPaths` to `Attempt`, and `Publish` to `Publish`, whose guard
is `LinkInv` where nothing is left to visit. A request that ends otherwise is
`Abandon` or a stutter, every other step and every collection a stutter. Two
finalizations may be attempts at the same, so one that ends need not take its
attempt away.

**Pushing.** `PushInv` has two parts beside the types. `PiecesInOrder` says for each
place of an upload that the pieces at hand make up what was read so far: the
parts of the task, then those of the request, or the temporary file. `WholeAppend`
is the fact about sequences it rests on. With it `WholeObjects` is inductive.
`Joined` says that an upload that ended has been answered, and that past the
`JoinSet` all have: so nothing can discard an object after the publication. The
refinement follows: under `PushInv` the objects that the backend holds whole are all
it holds, `StoreObject` is `Store`, `CleanUpObject` is `Discard`, `Finalize` is `Publish` or
`Fail`, and every other step is `Fail` or a stutter. `Leftovers` is for
`DoneLeavesNothing` and `FailedLeavesNothing`: a push keeps to one kind of upload, a
request past the step that stores its object has neither an open multipart upload
nor a temporary file behind it, and a task that failed before any fault was
aborted first. With `Joined` every upload of a push that is done is such a request.

**Reading.** `ReadInv` says how far a request has come with what could have answered
it all along. `SteadyIsAhead`: each such source could answer it now; while rows are
tried the storages among them are still on the request's list; once upstreams are
asked no local source was there all along, and the upstreams that were are still
on the list. A list read once may become stale, but only by sources that were
*not* there all along, and those are not in `watch.steady`. `SeenIfLocal` keeps
visibility from the check to the answer. For `PublishedIsFound` two parts go with the
published build: `FoundIsLinked` and `ReliedIsThere` tie what `finalize_build` found
to the row of `path_objects` that readers join, and `RelyingHasSource` says that
while it is relied on it is one of the sources that could answer all along, so that
`NotFoundIsTrue` gives the rest.

**The write API.** `ApiInv` has one part for each thing a request finds out and uses
later. `Evidence`: the identity found by the authentication is true of the
credential; it stays true because keys once published and builds once begun never
go away in `everPublished` and `builds`. `EntitledNow`: while
`alwaysEntitled` says so, the credential is good at this moment. `Recognized`: keys that
the request itself fetched from a provider that published the credential's key
throughout contain that key, whatever other requests store in the cache. `Admitted`:
a credential good all along was not refused, unless its text had passed before its
date; a text that has passed stays so. `KeysOf`, `NumberOf` and
`KeyNumbers`: keys are only ever appended, and a number counted while no other
request makes a key is the place at which the key is then appended, so two such
numbers differ. `PolicyHasItsRules`: a stored policy has rules, which nothing
deletes. That a request acts only when entitled is carried from the authorization on
by `Acted`, in a second invariant of `ActingSafe`. One lemma for each part says that
a step of the request, of another request, or of the surroundings keeps it.

**Commands.** `CommandsInv`: an administrator who is within a command has one that
`depot-ctl` accepts, so every value it stores is of its type, and the rules stored with a
policy are the policy's own, since one transaction writes both. For
`MilderProfileKeepsMore` the patterns and priorities of the profiles and of the built-in
rules are the same, so the same entry of each table applies to a ref, and the entries
are compared one by one; `U64` must hold 180 days in seconds, or the product that makes
them would wrap and the property fail.

**Narinfos.** These properties rest on what functions of digits and of references
compute, for any number of either. The induction is written out: a set of numbers that
is not empty has a least one (`Least`), so the set of the places up to which a
statement holds is all of them (`UpTo`). With it:

1. `Nix32KeepsNumber`: the nix32 digits that the code takes five bits at a time from a digest,
   over byte boundaries and with the bits left over at the end, are digits of the
   same number (`FiveBits`, `Shifts`, `DigitTakes`, `NumberSums`), whatever the length; and
   `DigitsInjective`: digits of one base and length that make the same number are
   equal. So a hash is read as it was given (`NormalizedHash`), and two forms of
   one hash are stored alike (`SameHash`).
2. `SortingExists`, `TextOrderCanonical`: every list can be sorted, and two lists of the
   same references, each once, are sorted alike. `InTextOrder` chooses a permutation
   that sorts, as the code's `sort` finds one.
3. `RenderedIsRead`, `RenderedIsParsed`: what is rendered of a row is read by Nix, and by
   another depot, as the row says it; `SignedVerifies` is the same for signatures.
4. `NarinfosInv`: rows are valid and normalized (`RowsPresentable`) and say what was
   registered (`RowsSayWhatWasRegistered`), and what was served or relayed is
   read alike by Nix and by a depot (`ReadAlike`), with signatures that verify. One lemma
   for each of push, registration, answer and relay says that it is kept.

`AcceptedIsServed` follows from 3 and the rows, and `ReprintIsNoConflict` from `SameHash`,
`SameCa` and `TextOrderCanonical`: whatever Nix prints another time of a path without
content address, or with one of sha256, is compatible with the row. For the other
algorithms `CaWritten` is what remains: method and digest keep their values.

**Only model-checked**: the liveness properties (`GarbageIsReclaimed`, `HeldIsRevived`,
`PushEnds`, `PushSucceeds`, `RequestsEnd` of `Reading` and of `WriteApi`, `ScriptsAchieve`), as
fairness is out of the prover's reach; and, being false, the statements of
`Expectations` and `ApiExpectations`.

## What the models leave out

- A blob whose row was never written (the server stopped between the upload and
  `upsert_storage_object`) is never reclaimed: no collection looks at blobs
  without a row. `GarbageIsReclaimed` is about rows.
- A build whose client gave up stays pending, and a root, for ever: no operation
  and no timeout ends it.
- `object_delete_grace_seconds` of a project is stored and never read; the collector
  uses a constant unless the request names a grace period.
- The multipart uploads of a plan that cannot be completed on the server, and those of
  tasks that are dropped, waiting or at work, when another fails, are never aborted:
  they stay open in S3 until a rule of the bucket removes them.
- A handler that is dropped during `put_stream` leaves its temporary file behind.
- The S3 backend's own multipart upload (`put_stream_multipart`), which clients of this
  repository never cause, as an S3 backend always gives them an upload of their own.
- A ref whose TTL has passed is still shown to readers.
- An access token whose expiry was written west of UTC is refused before that date:
  `Access` has this, and `EntitledIsAdmitted` exempts it.
- A collection that a change of policy overlaps may miss a build that is retained
  before and after it: `Gc` has this, and the properties leave it out (see
  `SteadyNotCondemned` above).
- A registration that looked at the status before the build was finalized attaches
  its paths afterwards, to a build that is published: `Ingest` has this, and no
  property forbids it, since no check of the code does.
- A path whose content address has another algorithm than sha256 may be stored and
  served in a form that Nix cannot read, and one registered with an empty compression is
  served so: `Narinfos` has both, and its properties exempt them (see above).
- In `Narinfos`, store paths nested below a store path, duplicate references, and the
  name `bz2` for bzip2 are not among the inputs.
- Base64, JSON, compression, URLs, cryptography, the encryption of keys at rest, and the
  reading of configuration and arguments beyond what the commands do with them.
- The lists that only answer a client; the migrations; the connection pool.
- The key pair files of `depot-ctl keys generate`, its output, and the calls of `nix`
  and `git` that a push makes.

## Plan

Readers, placement, signing keys, access tokens and authorization, the cache of
provider keys, retention rules, upstreams and the Nix formats of the first plan are
done. What is left, in this order:

1. `ServerUpload`: `put_stream_multipart` of the S3 backend, against `WholeObjects`.
2. The validation of the configuration at the start of the server.
3. An abstract statement of what a reader sees, which `Reading` implements, and the
   same for the authorization in `WriteApi`.
