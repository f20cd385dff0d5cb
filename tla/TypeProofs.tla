----------------------------- MODULE TypeProofs -----------------------------
(***************************************************************************)
(* Type correctness of Depot, for every value of its constants.            *)
(***************************************************************************)
EXTENDS Depot, TLAPS

\* Every statement of the catalog leaves well-typed tables.
LEMMA CatalogInitType == CatalogInit => CatalogTypeOK
  BY DEF CatalogInit, CatalogTypeOK, RowStates, Statuses

LEMMA InsertBuildType ==
  ASSUME NEW b \in Builds, CatalogTypeOK, InsertBuild(b)
  PROVE  CatalogTypeOK'
  BY DEF CatalogTypeOK, InsertBuild, Statuses

LEMMA UpsertPathInfoType ==
  ASSUME NEW p \in Paths, CatalogTypeOK, UpsertPathInfo(p)
  PROVE  CatalogTypeOK'
  BY DEF CatalogTypeOK, UpsertPathInfo

LEMMA AttachBuildPathType ==
  ASSUME NEW b \in Builds, NEW p \in Paths, CatalogTypeOK, AttachBuildPath(b, p)
  PROVE  CatalogTypeOK'
  BY DEF CatalogTypeOK, AttachBuildPath

LEMMA SetRowType ==
  ASSUME NEW newRow \in [Nars -> RowStates], CatalogTypeOK, SetRow(newRow)
  PROVE  CatalogTypeOK'
  BY DEF CatalogTypeOK, SetRow

LEMMA UpsertStorageObjectType ==
  ASSUME NEW n \in Nars, CatalogTypeOK, UpsertStorageObject(n)
  PROVE  CatalogTypeOK'
  BY DEF CatalogTypeOK, UpsertStorageObject, RowStates

LEMMA LinkPathObjectType ==
  ASSUME NEW p \in Paths, CatalogTypeOK, LinkPathObject(p)
  PROVE  CatalogTypeOK'
  BY DEF CatalogTypeOK, LinkPathObject

LEMMA ReadClockType ==
  ASSUME CatalogTypeOK, NEW t, ReadClock(t)
  PROVE  CatalogTypeOK'
  BY CatalogConstants DEF CatalogTypeOK, ReadClock

LEMMA PublishBuildToRefType ==
  ASSUME NEW b \in Builds, NEW t \in Nat, CatalogTypeOK, PublishBuildToRef(b, t)
  PROVE  CatalogTypeOK'
  <1>. RefOf[b] \in Refs
    BY CatalogConstants
  <1>. QED
    BY DEF CatalogTypeOK, PublishBuildToRef, Statuses

LEMMA CollectingStatementsType ==
  ASSUME NEW S, CatalogTypeOK,
         ClearDeletedStateForLive(S) \/ MarkStale(S) \/ DeleteRows(S)
  PROVE  CatalogTypeOK'
  <1>1. ASSUME NEW newRow \in [Nars -> RowStates], SetRow(newRow)
        PROVE  CatalogTypeOK'
    BY <1>1, SetRowType
  <1>2. row \in [Nars -> RowStates]
    BY DEF CatalogTypeOK
  <1>3. CASE ClearDeletedStateForLive(S)
    <2>. DEFINE new == [n \in Nars |-> IF row[n] \in Tombstoned /\ n \in LiveObjects(S)
                                       THEN "live" ELSE row[n]]
    <2>1. new \in [Nars -> RowStates]
      BY <1>2 DEF RowStates
    <2>. QED
      BY <2>1, <1>1, <1>3 DEF ClearDeletedStateForLive
  <1>4. CASE MarkStale(S)
    <2>. DEFINE new == [n \in Nars |-> IF row[n] = "live" /\ n \notin LiveObjects(S)
                                       THEN "fresh" ELSE row[n]]
    <2>1. new \in [Nars -> RowStates]
      BY <1>2 DEF RowStates, Tombstoned
    <2>. QED
      BY <2>1, <1>1, <1>4 DEF MarkStale
  <1>5. CASE DeleteRows(S)
    <2>. DEFINE new == [n \in Nars |-> IF n \in S THEN "none" ELSE row[n]]
    <2>1. new \in [Nars -> RowStates]
      BY <1>2 DEF RowStates
    <2>. QED
      BY <2>1, <1>1, <1>5 DEF DeleteRows
  <1>. QED
    BY <1>3, <1>4, <1>5

LEMMA SetPinType ==
  ASSUME NEW x \in PinNames, NEW p \in Paths \cup {NoPath}, CatalogTypeOK, SetPin(x, p)
  PROVE  CatalogTypeOK'
  BY DEF CatalogTypeOK, SetPin

LEMMA PolicyType ==
  ASSUME NEW project \in Projects, CatalogTypeOK,
         \/ \E policy \in Policies : ReplaceRetentionPolicy(project, policy)
         \/ DeleteRetentionPolicy(project)
  PROVE  CatalogTypeOK'
  BY DEF CatalogTypeOK, ReplaceRetentionPolicy, DeleteRetentionPolicy

LEMMA BlobType ==
  ASSUME NEW n \in Nars, CatalogTypeOK, PutBlob(n) \/ DeleteBlob(n)
  PROVE  CatalogTypeOK'
  BY DEF CatalogTypeOK, PutBlob, DeleteBlob

LEMMA AgeType ==
  ASSUME NEW n \in Nars, CatalogTypeOK, Age(n)
  PROVE  CatalogTypeOK'
  BY DEF CatalogTypeOK, Age, SetRow, RowStates, Tombstoned

LEMMA ExpirePublicationsType ==
  ASSUME NEW r \in Refs, NEW ttl \in Ttls, NEW t \in Nat, CatalogTypeOK,
         ExpirePublications(r, ttl, t)
  PROVE  CatalogTypeOK'
  BY DEF CatalogTypeOK, ExpirePublications

LEMMA CatalogUnchangedType ==
  ASSUME CatalogTypeOK, UNCHANGED catalogVars
  PROVE  CatalogTypeOK'
  BY DEF CatalogTypeOK, catalogVars

-----------------------------------------------------------------------------
(* The publishing service *)

LEMMA GoesType ==
  ASSUME NEW h \in Handlers, NEW pc, NEW s \in HandlerStates, IngestTypeOK, Goes(h, pc, s)
  PROVE  IngestTypeOK'
  BY DEF IngestTypeOK, Goes

LEMMA IdleType == Idle \in HandlerStates
  BY DEF Idle, HandlerStates, Shaped

LEMMA HandlerType ==
  ASSUME NEW h \in Handlers, IngestTypeOK
  PROVE  handler[h] \in HandlerStates
  BY DEF IngestTypeOK

LEMMA VisitedType ==
  ASSUME NEW h \in Handlers, NEW p, IngestTypeOK, handler[h].pc # "idle"
  PROVE  Visited(h, p) \in HandlerStates
  BY IdleType, HandlerType DEF Visited, HandlerStates, Shaped

\* The steps of register_paths.
LEMMA RegisterPathsType ==
  ASSUME NEW h \in Handlers, NEW b \in Builds, NEW ps \in SUBSET Paths,
         CatalogTypeOK, IngestTypeOK, RegisterPaths(h, b, ps)
  PROVE  CatalogTypeOK' /\ IngestTypeOK'
  <1>1. [Idle EXCEPT !.pc = "info", !.op = "register", !.build = b, !.paths = ps,
                     !.todo = ps] \in HandlerStates
    BY DEF Idle, HandlerStates, Shaped
  <1>. QED
    BY <1>1, GoesType, CatalogUnchangedType DEF RegisterPaths

LEMMA RegisterInfoType ==
  ASSUME NEW h \in Handlers, NEW p \in Paths, CatalogTypeOK, IngestTypeOK, RegisterInfo(h, p)
  PROVE  CatalogTypeOK' /\ IngestTypeOK'
  <1>1. [handler[h] EXCEPT !.pc = "attach", !.path = p] \in HandlerStates
    BY HandlerType DEF HandlerStates, Shaped, RegisterInfo, Goes
  <1>. QED
    BY <1>1, GoesType, UpsertPathInfoType DEF RegisterInfo

LEMMA RegisterAttachType ==
  ASSUME NEW h \in Handlers, CatalogTypeOK, IngestTypeOK, RegisterAttach(h)
  PROVE  CatalogTypeOK' /\ IngestTypeOK'
  <1>. DEFINE left == handler[h].todo \ {handler[h].path}
              more == [handler[h] EXCEPT !.pc = "info", !.path = NoPath, !.todo = left]
              done == [handler[h] EXCEPT !.pc = "head", !.path = NoPath,
                                         !.todo = handler[h].paths]
  <1>1. handler[h].pc = "attach" /\ handler[h] \in HandlerStates
    BY HandlerType DEF RegisterAttach, Goes
  <1>2. handler[h].build \in Builds /\ handler[h].path \in Paths
    BY <1>1 DEF HandlerStates, Shaped
  <1>3. more \in HandlerStates /\ done \in HandlerStates
    BY <1>1, <1>2 DEF HandlerStates, Shaped
  <1>4. CatalogTypeOK'
    BY <1>2, AttachBuildPathType DEF RegisterAttach
  <1>5. Goes(h, "attach", more) \/ Goes(h, "attach", done)
    BY DEF RegisterAttach
  <1>6. IngestTypeOK'
    BY <1>3, <1>5, GoesType
  <1>. QED
    BY <1>4, <1>6

\* The steps that storage.head decides.
LEMMA HeadType ==
  ASSUME NEW h \in Handlers, NEW p \in Paths, CatalogTypeOK, IngestTypeOK,
         HeadFound(h, p) \/ HeadPassedOver(h, p) \/ FinalizeRejected(h, p)
  PROVE  CatalogTypeOK' /\ IngestTypeOK'
  <1>1. handler[h].pc = "head" /\ UNCHANGED catalogVars
    BY DEF HeadFound, HeadPassedOver, FinalizeRejected, Goes
  <1>2. [handler[h] EXCEPT !.pc = "row", !.path = p] \in HandlerStates
    BY <1>1, HandlerType DEF HandlerStates, Shaped
  <1>3. Visited(h, p) \in HandlerStates
    BY <1>1, VisitedType
  <1>4. IngestTypeOK'
    BY <1>2, <1>3, IdleType, GoesType DEF HeadFound, HeadPassedOver, FinalizeRejected
  <1>. QED
    BY <1>1, <1>4, CatalogUnchangedType

LEMMA PersistType ==
  ASSUME NEW h \in Handlers, CatalogTypeOK, IngestTypeOK, PersistRow(h) \/ PersistLink(h)
  PROVE  CatalogTypeOK' /\ IngestTypeOK'
  <1>1. handler[h].pc \in {"row", "link"} /\ handler[h] \in HandlerStates
    BY HandlerType DEF PersistRow, PersistLink, Goes
  <1>2. handler[h].path \in Paths /\ NarOf[handler[h].path] \in Nars
    BY <1>1, CatalogConstants DEF HandlerStates, Shaped
  <1>3. CatalogTypeOK'
    BY <1>2, UpsertStorageObjectType, LinkPathObjectType DEF PersistRow, PersistLink
  <1>4. [handler[h] EXCEPT !.pc = "link"] \in HandlerStates
    BY <1>1, <1>2 DEF HandlerStates, Shaped
  <1>5. Visited(h, handler[h].path) \in HandlerStates
    BY <1>1, VisitedType
  <1>6. IngestTypeOK'
    BY <1>4, <1>5, IdleType, GoesType DEF PersistRow, PersistLink
  <1>. QED
    BY <1>3, <1>6

\* The steps of upload_object.
LEMMA UploadType ==
  ASSUME NEW h \in Handlers, CatalogTypeOK, IngestTypeOK,
         \/ \E b \in Builds, p \in Paths : UploadObject(h, b, p)
         \/ PutObject(h) \/ UploadRejected(h) \/ PersistFails(h) \/ CleanUpUpload(h)
  PROVE  CatalogTypeOK' /\ IngestTypeOK'
  <1>. handler[h] \in HandlerStates
    BY HandlerType
  <1>1. ASSUME NEW b \in Builds, NEW p \in Paths, UploadObject(h, b, p)
        PROVE  CatalogTypeOK' /\ IngestTypeOK'
    <2>1. [Idle EXCEPT !.pc = "put", !.op = "upload", !.build = b, !.path = p]
            \in HandlerStates
      BY DEF Idle, HandlerStates, Shaped
    <2>. QED
      BY <1>1, <2>1, GoesType, CatalogUnchangedType DEF UploadObject
  <1>2. CASE PutObject(h)
    <2>1. NarOf[handler[h].path] \in Nars
      BY <1>2, CatalogConstants DEF PutObject, Goes, HandlerStates, Shaped
    <2>2. [handler[h] EXCEPT !.pc = "row"] \in HandlerStates
      BY <1>2 DEF PutObject, Goes, HandlerStates, Shaped
    <2>. QED
      BY <1>2, <2>1, <2>2, GoesType, BlobType DEF PutObject
  <1>3. CASE UploadRejected(h)
    BY <1>3, IdleType, GoesType, CatalogUnchangedType DEF UploadRejected
  <1>4. CASE PersistFails(h)
    <2>1. [handler[h] EXCEPT !.pc = "cleanup"] \in HandlerStates
      BY <1>4 DEF PersistFails, HandlerStates, Shaped
    <2>2. IngestTypeOK'
      BY <1>4, <2>1 DEF PersistFails, IngestTypeOK
    <2>. QED
      BY <1>4, <2>2, CatalogUnchangedType DEF PersistFails
  <1>5. CASE CleanUpUpload(h)
    <2>1. NarOf[handler[h].path] \in Nars
      BY <1>5, CatalogConstants DEF CleanUpUpload, Goes, HandlerStates, Shaped
    <2>. QED
      BY <1>5, <2>1, IdleType, GoesType, BlobType DEF CleanUpUpload
  <1>. QED
    BY <1>1, <1>2, <1>3, <1>4, <1>5

\* The steps of finalize_build outside its loop.
LEMMA FinalizeType ==
  ASSUME NEW h \in Handlers, CatalogTypeOK, IngestTypeOK,
         \/ \E b \in Builds : FinalizeBuild(h, b)
         \/ ListBuildPaths(h) \/ (\E t \in (clock + 1) .. MaxClock : StampBuild(h, t)) \/ Publish(h)
  PROVE  CatalogTypeOK' /\ IngestTypeOK'
  <1>. handler[h] \in HandlerStates
    BY HandlerType
  <1>1. ASSUME NEW b \in Builds, FinalizeBuild(h, b)
        PROVE  CatalogTypeOK' /\ IngestTypeOK'
    <2>1. [Idle EXCEPT !.pc = "list", !.op = "finalize", !.build = b] \in HandlerStates
      BY DEF Idle, HandlerStates, Shaped
    <2>. QED
      BY <1>1, <2>1, GoesType, CatalogUnchangedType DEF FinalizeBuild
  <1>2. CASE ListBuildPaths(h)
    <2>. DEFINE listed == buildPaths[handler[h].build]
    <2>1. handler[h].build \in Builds
      BY <1>2 DEF ListBuildPaths, Goes, HandlerStates, Shaped
    <2>2. listed \in SUBSET Paths
      BY <2>1 DEF CatalogTypeOK
    <2>3. [handler[h] EXCEPT !.pc = "head", !.paths = listed, !.todo = listed]
            \in HandlerStates
      BY <2>1, <2>2 DEF HandlerStates, Shaped
    <2>. QED
      BY <1>2, <2>3, IdleType, GoesType, CatalogUnchangedType DEF ListBuildPaths
  <1>3. ASSUME NEW t \in (clock + 1) .. MaxClock, StampBuild(h, t)
        PROVE  CatalogTypeOK' /\ IngestTypeOK'
    <2>1. [handler[h] EXCEPT !.pc = "commit", !.at = t] \in HandlerStates
      <3>1. t \in Nat
        BY CatalogConstants DEF CatalogTypeOK
      <3>2. handler[h].pc = "stamp"
        BY <1>3 DEF StampBuild, Goes
      <3>. QED
        BY <3>1, <3>2 DEF HandlerStates, Shaped
    <2>. QED
      BY <1>3, <2>1, GoesType, ReadClockType DEF StampBuild
  <1>4. CASE Publish(h)
    <2>1. handler[h].build \in Builds /\ handler[h].at \in Nat
      BY <1>4 DEF Publish, Goes, HandlerStates, Shaped
    <2>. QED
      BY <1>4, <2>1, IdleType, GoesType, PublishBuildToRefType DEF Publish
  <1>. QED
    BY <1>1, <1>2, <1>3, <1>4

LEMMA DropRequestType ==
  ASSUME NEW h \in Handlers, CatalogTypeOK, IngestTypeOK, DropRequest(h)
  PROVE  CatalogTypeOK' /\ IngestTypeOK'
  BY IdleType, CatalogUnchangedType DEF DropRequest, IngestTypeOK

LEMMA IngestNextType ==
  ASSUME CatalogTypeOK, IngestTypeOK, IngestNext
  PROVE  CatalogTypeOK' /\ IngestTypeOK'
  <1>1. ASSUME NEW b \in Builds, BeginBuild(b)
        PROVE  CatalogTypeOK' /\ IngestTypeOK'
    BY <1>1, InsertBuildType DEF BeginBuild, ingestVars, IngestTypeOK
  <1>2. ASSUME NEW h \in Handlers, Request(h) \/ HandlerStep(h) \/ DropRequest(h)
        PROVE  CatalogTypeOK' /\ IngestTypeOK'
    BY <1>2, RegisterPathsType, RegisterInfoType, RegisterAttachType, HeadType,
       PersistType, UploadType, FinalizeType, DropRequestType
       DEF Request, HandlerStep
  <1>3. ASSUME NEW x \in PinNames, DeletePin(x) \/ \E p \in Paths : CreatePin(x, p)
        PROVE  CatalogTypeOK' /\ IngestTypeOK'
    BY <1>3, SetPinType DEF DeletePin, CreatePin, ingestVars, IngestTypeOK
  <1>. QED
    BY <1>1, <1>2, <1>3 DEF IngestNext

-----------------------------------------------------------------------------
(* The garbage collector *)

LEMMA MovesType ==
  ASSUME NEW c \in Collectors, NEW pc, NEW s \in CollectorStates, GcTypeOK, Moves(c, pc, s)
  PROVE  GcTypeOK'
  BY DEF GcTypeOK, Moves

LEMMA RestingType == Resting \in CollectorStates
  BY DEF Resting, CollectorStates

LEMMA NewestBuildsType ==
  ASSUME NEW r, NEW limit
  PROVE  NewestBuilds(r, limit) \subseteq Builds
  BY DEF NewestBuilds

LEMMA DoneType ==
  ASSUME NEW c, NEW r \in Refs, NEW bs \in SUBSET Builds, collector[c] \in CollectorStates
  PROVE  Done(c, r, bs) \in CollectorStates
  BY DEF Done, CollectorStates

LEMMA RuleType ==
  ASSUME NEW policy \in Policies \cup {NoPolicy}, NEW stored \in Policies \cup {NoPolicy},
         NEW r \in Refs, r \in DOMAIN RuleFor[stored]
  PROVE  /\ RuleFor[stored][r].ttl \in Ttls \cup {Forever}
         /\ Limit(policy, RuleFor[stored][r]) \in Nat
  <1>1. RuleFor[stored][r] \in [builds : Nat \cup {Latest}, ttl : Ttls \cup {Forever}]
    BY CatalogConstants
  <1>2. KeepLatest[policy] \in Nat
    BY CatalogConstants
  <1>. QED
    BY <1>1, <1>2 DEF Limit

LEMMA ByRuleType ==
  ASSUME NEW c, NEW r \in Refs, NEW policy \in Policies \cup {NoPolicy},
         NEW stored \in Policies \cup {NoPolicy}, r \in DOMAIN RuleFor[stored],
         collector[c] \in CollectorStates
  PROVE  ByRule(c, r, policy, stored) \in CollectorStates
  <1>. DEFINE rule == RuleFor[stored][r]
  <1>1. rule.ttl \in Ttls \cup {Forever} /\ Limit(policy, rule) \in Nat
    BY RuleType
  <1>. HIDE DEF rule
  <1>. QED
    BY <1>1 DEF ByRule, rule, CollectorStates

\* The queries of list_retained_build_ids_for_gc for one ref.
LEMMA RefType ==
  ASSUME NEW c \in Collectors, NEW r \in Refs, CatalogTypeOK, GcTypeOK,
         \/ GetDefaultPolicy(c, r) \/ GetCustomPolicy(c, r) \/ ListRules(c, r)
         \/ JudgeRef(c, r) \/ ListNewestBuilds(c, r)
  PROVE  CatalogTypeOK' /\ GcTypeOK'
  <1>1. collector[c] \in CollectorStates
    BY DEF GcTypeOK
  <1>2. ASSUME NEW bs \in SUBSET Builds
        PROVE  Done(c, r, bs) \in CollectorStates
    BY <1>1, DoneType
  <1>3. /\ ProjectOf[r] \in Projects
        /\ PolicyOf(r) \in Policies \cup {NoPolicy}
        /\ rules[ProjectOf[r]] \in Policies \cup {NoPolicy}
    BY CatalogConstants DEF CatalogTypeOK, PolicyOf
  <1>4. CASE GetDefaultPolicy(c, r)
    <2>1. ByRule(c, r, NoPolicy, NoPolicy) \in CollectorStates
      BY <1>1, ByRuleType, CatalogConstants
    <2>. QED
      BY <1>4, <2>1, MovesType, CatalogUnchangedType DEF GetDefaultPolicy
  <1>5. CASE GetCustomPolicy(c, r)
    <2>1. [collector[c] EXCEPT !.pc = "rules", !.ref = r, !.policy = PolicyOf(r)]
            \in CollectorStates
      BY <1>1, <1>3 DEF CollectorStates
    <2>. QED
      BY <1>5, <2>1, MovesType, CatalogUnchangedType DEF GetCustomPolicy
  <1>6. CASE ListRules(c, r)
    <2>. DEFINE stored == rules[ProjectOf[r]]
    <2>1. collector[c].policy \in Policies \cup {NoPolicy}
      BY <1>1 DEF CollectorStates
    <2>2. r \in DOMAIN RuleFor[stored] => ByRule(c, r, collector[c].policy, stored) \in CollectorStates
      BY <1>1, <1>3, <2>1, ByRuleType
    <2>. QED
      BY <1>2, <1>6, <2>2, MovesType, CatalogUnchangedType DEF ListRules
  <1>7. CASE JudgeRef(c, r)
    <2>1. [collector[c] EXCEPT !.pc = "newest", !.ttl = Forever] \in CollectorStates
      BY <1>1 DEF CollectorStates
    <2>. QED
      BY <1>2, <1>7, <2>1, MovesType, CatalogUnchangedType DEF JudgeRef
  <1>8. CASE ListNewestBuilds(c, r)
    BY <1>2, <1>8, NewestBuildsType, MovesType, CatalogUnchangedType DEF ListNewestBuilds
  <1>. QED
    BY <1>4, <1>5, <1>6, <1>7, <1>8

\* The root scan, which changes no table.
LEMMA ScanType ==
  ASSUME NEW c \in Collectors, CatalogTypeOK, GcTypeOK,
         \/ \E immediate \in GraceZero : RunGc(c, immediate)
         \/ ListRefs(c)
         \/ \E r \in Refs : \/ GetDefaultPolicy(c, r) \/ GetCustomPolicy(c, r)
                           \/ ListRules(c, r) \/ JudgeRef(c, r) \/ ListNewestBuilds(c, r)
         \/ \E b \in Builds : ListRetainedPaths(c, b)
         \/ ListPendingPaths(c) \/ ListPinnedPaths(c)
  PROVE  CatalogTypeOK' /\ GcTypeOK'
  <1>1. collector[c] \in CollectorStates
    BY DEF GcTypeOK
  <1>2. ASSUME NEW immediate \in GraceZero, RunGc(c, immediate)
        PROVE  CatalogTypeOK' /\ GcTypeOK'
    <2>1. [Resting EXCEPT !.pc = "refs", !.immediate = immediate] \in CollectorStates
      BY RestingType, GcConstants DEF CollectorStates
    <2>. QED
      BY <1>2, <2>1, MovesType, CatalogUnchangedType DEF RunGc
  <1>3. CASE ListRefs(c)
    <2>. DEFINE seen == [r \in Refs |-> IF refs[r] = NoBuild THEN 0 ELSE updatedAt[r]]
    <2>1. seen \in [Refs -> Nat]
      BY DEF CatalogTypeOK
    <2>2. [collector[c] EXCEPT !.pc = "builds", !.listed = seen] \in CollectorStates
      BY <1>1, <2>1 DEF CollectorStates
    <2>. QED
      BY <1>3, <2>2, MovesType, CatalogUnchangedType DEF ListRefs
  <1>4. ASSUME NEW r \in Refs,
               \/ GetDefaultPolicy(c, r) \/ GetCustomPolicy(c, r) \/ ListRules(c, r)
               \/ JudgeRef(c, r) \/ ListNewestBuilds(c, r)
        PROVE  CatalogTypeOK' /\ GcTypeOK'
    BY <1>4, RefType
  <1>5. ASSUME NEW b \in Builds, ListRetainedPaths(c, b)
        PROVE  CatalogTypeOK' /\ GcTypeOK'
    <2>1. buildPaths[b] \subseteq Paths
      BY DEF CatalogTypeOK
    <2>2. [collector[c] EXCEPT !.builds = @ \ {b}, !.roots = @ \cup buildPaths[b]]
            \in CollectorStates
      BY <1>1, <2>1 DEF CollectorStates
    <2>. QED
      BY <1>5, <2>2, MovesType, CatalogUnchangedType DEF ListRetainedPaths
  <1>6. CASE ListPendingPaths(c)
    <2>1. PathsOf(PendingBuilds) \subseteq Paths
      BY DEF PathsOf, PendingBuilds, CatalogTypeOK
    <2>2. [collector[c] EXCEPT !.pc = "pins", !.roots = @ \cup PathsOf(PendingBuilds)]
            \in CollectorStates
      BY <1>1, <2>1 DEF CollectorStates
    <2>. QED
      BY <1>6, <2>2, MovesType, CatalogUnchangedType DEF ListPendingPaths
  <1>7. CASE ListPinnedPaths(c)
    <2>1. PinnedPaths \subseteq Paths
      BY DEF PinnedPaths, CatalogTypeOK
    <2>2. [collector[c] EXCEPT !.pc = "apply", !.roots = @ \cup PinnedPaths]
            \in CollectorStates
      BY <1>1, <2>1 DEF CollectorStates
    <2>. QED
      BY <1>7, <2>2, MovesType, CatalogUnchangedType DEF ListPinnedPaths
  <1>. QED
    BY <1>2, <1>3, <1>4, <1>5, <1>6, <1>7

\* The passes and the deletion.
LEMMA SweepType ==
  ASSUME NEW c \in Collectors, CatalogTypeOK, GcTypeOK,
         \/ ClearTombstones(c) \/ MarkStaleObjects(c) \/ ListReady(c)
         \/ \E n \in Nars : DeleteObject(c, n)
         \/ DeleteObjectRows(c) \/ AbandonGc(c)
  PROVE  CatalogTypeOK' /\ GcTypeOK'
  <1>1. collector[c] \in CollectorStates
    BY DEF GcTypeOK
  <1>2. CASE ClearTombstones(c)
    <2>1. [collector[c] EXCEPT !.pc = "refs", !.pass = "mark", !.roots = {}]
            \in CollectorStates
      BY <1>1 DEF CollectorStates
    <2>. QED
      BY <1>2, <2>1, MovesType, CollectingStatementsType DEF ClearTombstones
  <1>3. CASE MarkStaleObjects(c)
    <2>1. [collector[c] EXCEPT !.pc = "ready", !.roots = {}] \in CollectorStates
      BY <1>1 DEF CollectorStates
    <2>. QED
      BY <1>3, <2>1, MovesType, CollectingStatementsType DEF MarkStaleObjects
  <1>4. CASE ListReady(c)
    <2>1. ReadyForDeletion(collector[c].immediate) \subseteq Nars
      BY DEF ReadyForDeletion
    <2>2. [collector[c] EXCEPT !.pc = "delete",
             !.ready = ReadyForDeletion(collector[c].immediate)] \in CollectorStates
      BY <1>1, <2>1 DEF CollectorStates
    <2>. QED
      BY <1>4, <2>2, MovesType, CatalogUnchangedType DEF ListReady
  <1>5. ASSUME NEW n \in Nars, DeleteObject(c, n)
        PROVE  CatalogTypeOK' /\ GcTypeOK'
    <2>1. [collector[c] EXCEPT !.ready = @ \ {n}, !.deleted = @ \cup {n}]
            \in CollectorStates
      BY <1>1 DEF CollectorStates
    <2>. QED
      BY <1>5, <2>1, MovesType, BlobType DEF DeleteObject
  <1>6. CASE DeleteObjectRows(c)
    BY <1>6, RestingType, MovesType, CollectingStatementsType DEF DeleteObjectRows
  <1>7. CASE AbandonGc(c)
    BY <1>7, RestingType, CatalogUnchangedType DEF AbandonGc, GcTypeOK
  <1>. QED
    BY <1>2, <1>3, <1>4, <1>5, <1>6, <1>7

LEMMA CollectType ==
  ASSUME NEW c \in Collectors, CatalogTypeOK, GcTypeOK, Collect(c)
  PROVE  CatalogTypeOK' /\ GcTypeOK'
  BY ScanType, SweepType DEF Collect, CollectorStep

-----------------------------------------------------------------------------

LEMMA InitType == Init => TypeOK
  <1>1. CatalogInit => CatalogTypeOK
    BY CatalogInitType
  <1>2. IngestInit => IngestTypeOK
    BY IdleType DEF IngestInit, IngestTypeOK
  <1>3. GcInit => GcTypeOK
    BY RestingType DEF GcInit, GcTypeOK
  <1>. QED
    BY <1>1, <1>2, <1>3 DEF Init, TypeOK

LEMMA NextType == TypeOK /\ [Next]_vars => TypeOK'
  <1>. SUFFICES ASSUME TypeOK, [Next]_vars
                PROVE  TypeOK'
    OBVIOUS
  <1>. CatalogTypeOK /\ IngestTypeOK /\ GcTypeOK
    BY DEF TypeOK
  <1>1. CASE IngestNext /\ UNCHANGED collector
    BY <1>1, IngestNextType DEF TypeOK, GcTypeOK
  <1>2. ASSUME NEW c \in Collectors, Collect(c)
        PROVE  TypeOK'
    BY <1>2, CollectType DEF Collect, TypeOK, IngestTypeOK, ingestVars
  <1>3. ASSUME NEW c \in Collectors, DropGc(c)
        PROVE  TypeOK'
    BY <1>3, SweepType DEF DropGc, TypeOK, IngestTypeOK
  <1>4. ASSUME NEW n \in Nars, Ageing(n)
        PROVE  TypeOK'
    BY <1>4, AgeType DEF Ageing, TypeOK, IngestTypeOK, GcTypeOK, ingestVars
  <1>5. ASSUME NEW r \in Refs, NEW ttl \in Ttls, NEW t \in 1 .. updatedAt[r],
               ExpirePublications(r, ttl, t), UNCHANGED <<ingestVars, collector>>
        PROVE  TypeOK'
    <2>1. t \in Nat
      BY DEF CatalogTypeOK
    <2>. QED
      BY <1>5, <2>1, ExpirePublicationsType DEF TypeOK, IngestTypeOK, GcTypeOK, ingestVars
  <1>6. ASSUME NEW project \in Projects,
               \/ \E policy \in Policies : ReplacePolicy(project, policy)
               \/ DeletePolicy(project),
               UNCHANGED <<ingestVars, collector>>
        PROVE  TypeOK'
    BY <1>6, PolicyType
       DEF ReplacePolicy, DeletePolicy, TypeOK, IngestTypeOK, GcTypeOK, ingestVars
  <1>7. CASE UNCHANGED vars
    BY <1>7, CatalogUnchangedType DEF vars, TypeOK, IngestTypeOK, GcTypeOK, ingestVars
  <1>. QED
    BY <1>1, <1>2, <1>3, <1>4, <1>5, <1>6, <1>7 DEF Next

\* Type correctness of the database, the handlers and the collections, whatever
\* requests and collections overlap.
THEOREM TypeCorrect == Spec => []TypeOK
  BY InitType, NextType, PTL DEF Spec
=============================================================================
