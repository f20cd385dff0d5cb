------------------------- MODULE PublicationProofs --------------------------
(***************************************************************************)
(* The invariant LinkInv is inductive: a finalization that has come as far *)
(* as the publication has linked every local object of the paths it        *)
(* listed, for any number of builds, paths and overlapping requests.  With *)
(* what each request knows of its build besides, the server implements     *)
(* what Publication promises.                                              *)
(***************************************************************************)
EXTENDS DepotInvariant, TypeProofs

\* What LinkInv says of the state s of one handler, apart from its type.
Sound(s) ==
  /\ (s.op = "finalize" /\ s.pc \notin {"idle", "list"}) =>
       /\ s.paths # {}
       /\ s.paths \subseteq buildPaths[s.build]
       /\ s.todo \subseteq s.paths
       /\ \A p \in s.paths \ s.todo : p \in links \/ NarOf[p] \in Upstream
  /\ s.pc \in {"info", "attach"} => s.op = "register"
  /\ s.pc \in {"stamp", "commit"} => s.op = "finalize" /\ s.todo = {}

LEMMA LinkInvSound == LinkInv <=> TypeOK /\ \A h \in Handlers : Sound(handler[h])
  BY DEF LinkInv, Settled, Verified, Sound

\* Paths are only ever attached to builds and linked to objects.
Grows ==
  /\ links \subseteq links'
  /\ \A b \in Builds : buildPaths[b] \subseteq buildPaths'[b]

LEMMA SoundStays ==
  ASSUME Grows, TypeOK, NEW h \in Handlers, Sound(handler[h]), handler'[h] = handler[h]
  PROVE  Sound(handler[h])'
  <1>1. handler[h] \in HandlerStates
    BY DEF TypeOK, IngestTypeOK
  <1>2. handler[h].pc # "idle" => handler[h].build \in Builds
    BY <1>1 DEF HandlerStates, Shaped
  <1>. QED
    BY <1>2 DEF Sound, Grows

\* A step of one handler preserves the invariant when it leaves that one sound.
LEMMA GoesPreserves ==
  ASSUME LinkInv, TypeOK', Grows, NEW h \in Handlers, Sound(handler[h])',
         \A g \in Handlers : g = h \/ handler'[g] = handler[g]
  PROVE  LinkInv'
  <1>1. \A g \in Handlers : Sound(handler[g])'
    BY LinkInvSound, SoundStays DEF LinkInv, Sound
  <1>. QED
    BY <1>1, LinkInvSound DEF Sound, LinkInv, Settled, Verified

LEMMA GoesFacts ==
  ASSUME LinkInv, NEW h \in Handlers, NEW pc, NEW s, Goes(h, pc, s)
  PROVE  /\ handler[h].pc = pc
         /\ handler'[h] = s
         /\ \A g \in Handlers : g = h \/ handler'[g] = handler[g]
         /\ handler[h] \in HandlerStates
         /\ handler[h].pc # "idle" => handler[h].build \in Builds
         /\ Sound(handler[h])
  <1>1. handler \in [Handlers -> HandlerStates]
    BY DEF LinkInv, TypeOK, IngestTypeOK
  <1>2. handler[h] \in HandlerStates
    BY <1>1
  <1>3. handler[h].pc # "idle" => handler[h].build \in Builds
    BY <1>2 DEF HandlerStates, Shaped
  <1>. QED
    BY <1>1, <1>2, <1>3, LinkInvSound DEF Goes

LEMMA CatalogGrows ==
  ASSUME TypeOK, UNCHANGED <<links, buildPaths>>
  PROVE  Grows
  BY DEF Grows

\* A loop that passes the linked or upstream path p leaves the handler sound.
LEMMA VisitedSound ==
  ASSUME LinkInv, TypeOK', Grows, NEW h \in Handlers, NEW p,
         handler[h] \in HandlerStates, Sound(handler[h]), handler[h].build \in Builds,
         handler[h].pc \in {"head", "row", "link"},
         handler[h].op = "finalize" => p \in links' \/ NarOf[p] \in Upstream,
         handler'[h] = Visited(h, p)
  PROVE  Sound(handler[h])'
  <1>. DEFINE left == handler[h].todo \ {p}
  <1>1. CASE left # {}
    <2>1. handler'[h] = [handler[h] EXCEPT !.pc = "head", !.path = NoPath, !.todo = left]
      BY <1>1 DEF Visited
    <2>. QED
      BY <2>1 DEF Sound, Grows, HandlerStates
  <1>2. CASE left = {} /\ handler[h].op = "finalize"
    <2>1. handler'[h] = [handler[h] EXCEPT !.pc = "stamp", !.path = NoPath, !.todo = {}]
      BY <1>2 DEF Visited
    <2>. QED
      BY <1>2, <2>1 DEF Sound, Grows, HandlerStates
  <1>3. CASE left = {} /\ handler[h].op # "finalize"
    <2>1. handler'[h] = Idle
      BY <1>3 DEF Visited
    <2>. QED
      BY <2>1 DEF Sound, Idle
  <1>. QED
    BY <1>1, <1>2, <1>3

-----------------------------------------------------------------------------
(* Each step leaves the handler that takes it sound *)

LEMMA LoopKeeps ==
  ASSUME LinkInv, TypeOK', NEW h \in Handlers, NEW p \in Paths,
         HeadFound(h, p) \/ HeadPassedOver(h, p) \/ FinalizeRejected(h, p)
  PROVE  LinkInv'
  <1>. TypeOK
    BY DEF LinkInv
  <1>1. Grows
    BY CatalogGrows DEF HeadFound, HeadPassedOver, FinalizeRejected, catalogVars
  <1>2. CASE HeadFound(h, p)
    <2>1. Goes(h, "head", [handler[h] EXCEPT !.pc = "row", !.path = p])
      BY <1>2 DEF HeadFound
    <2>2. /\ handler'[h] = [handler[h] EXCEPT !.pc = "row", !.path = p]
          /\ handler[h].pc = "head"
          /\ handler[h] \in HandlerStates
          /\ handler[h].build \in Builds
          /\ Sound(handler[h])
      BY <2>1, GoesFacts
    <2>3. Sound(handler[h])'
      BY <1>1, <2>2 DEF Sound, Grows, HandlerStates
    <2>. QED
      BY <1>1, <2>1, <2>3, GoesFacts, GoesPreserves
  <1>3. CASE HeadPassedOver(h, p)
    <2>1. /\ Goes(h, "head", Visited(h, p))
          /\ handler[h].op = "register" \/ NarOf[p] \in Upstream
      BY <1>3 DEF HeadPassedOver
    <2>2. /\ handler[h] \in HandlerStates
          /\ Sound(handler[h])
          /\ handler[h].pc = "head"
          /\ handler[h].build \in Builds
          /\ handler'[h] = Visited(h, p)
      BY <2>1, GoesFacts
    <2>3. Sound(handler[h])'
      <3>1. handler[h].op = "finalize" => NarOf[p] \in Upstream
        BY <2>1
      <3>2. handler[h].pc \in {"head", "row", "link"}
        BY <2>2
      <3>. QED
        BY <1>1, <2>2, <3>1, <3>2, VisitedSound
    <2>. QED
      BY <1>1, <2>1, <2>3, GoesFacts, GoesPreserves
  <1>4. CASE FinalizeRejected(h, p)
    <2>1. Goes(h, "head", Idle)
      BY <1>4 DEF FinalizeRejected
    <2>2. Sound(handler[h])'
      BY <2>1, GoesFacts DEF Sound, Idle
    <2>. QED
      BY <1>1, <2>1, <2>2, GoesFacts, GoesPreserves
  <1>. QED
    BY <1>2, <1>3, <1>4

LEMMA PersistKeeps ==
  ASSUME LinkInv, TypeOK', NEW h \in Handlers, PersistRow(h) \/ PersistLink(h)
  PROVE  LinkInv'
  <1>. TypeOK
    BY DEF LinkInv
  <1>1. CASE PersistRow(h)
    <2>1. Goes(h, "row", [handler[h] EXCEPT !.pc = "link"])
      BY <1>1 DEF PersistRow
    <2>2. Grows
      BY <1>1, CatalogGrows DEF PersistRow, UpsertStorageObject
    <2>3. Sound(handler[h])'
      BY <2>1, <2>2, GoesFacts DEF Sound, Grows, HandlerStates
    <2>. QED
      BY <2>1, <2>2, <2>3, GoesFacts, GoesPreserves
  <1>2. CASE PersistLink(h)
    <2>1. /\ Goes(h, "link", IF handler[h].op = "upload" THEN Idle
                             ELSE Visited(h, handler[h].path))
          /\ links' = links \cup {handler[h].path}
          /\ buildPaths' = buildPaths
      BY <1>2 DEF PersistLink, LinkPathObject
    <2>2. Grows
      BY <2>1 DEF Grows
    <2>3. Sound(handler[h])'
      <3>1. CASE handler[h].op = "upload"
        <4>1. handler'[h] = Idle
          BY <2>1, <3>1, GoesFacts
        <4>. QED
          BY <4>1 DEF Sound, Idle
      <3>2. CASE handler[h].op # "upload"
        <4>1. handler'[h] = Visited(h, handler[h].path)
          BY <2>1, <3>2, GoesFacts
        <4>2. handler[h].path \in links'
          BY <2>1
        <4>3. /\ handler[h] \in HandlerStates
              /\ Sound(handler[h])
              /\ handler[h].pc = "link"
              /\ handler[h].build \in Builds
          BY <2>1, GoesFacts
        <4>. QED
          BY <2>2, <4>1, <4>2, <4>3, VisitedSound
      <3>. QED
        BY <3>1, <3>2
    <2>. QED
      BY <2>1, <2>2, <2>3, GoesFacts, GoesPreserves
  <1>. QED
    BY <1>1, <1>2

LEMMA RegisterKeeps ==
  ASSUME LinkInv, TypeOK', NEW h \in Handlers,
         RegisterAttach(h) \/ \E p \in Paths : RegisterInfo(h, p)
  PROVE  LinkInv'
  <1>. TypeOK
    BY DEF LinkInv
  <1>1. handler \in [Handlers -> HandlerStates]
    BY DEF TypeOK, IngestTypeOK
  <1>2. Grows
    <2>1. CASE RegisterAttach(h)
      BY <2>1 DEF RegisterAttach, AttachBuildPath, Grows, TypeOK, CatalogTypeOK
    <2>2. CASE \E p \in Paths : RegisterInfo(h, p)
      BY <2>2, CatalogGrows DEF RegisterInfo, UpsertPathInfo
    <2>. QED
      BY <2>1, <2>2
  <1>3. handler[h].pc \in {"info", "attach"} /\ Sound(handler[h])
    BY LinkInvSound DEF RegisterAttach, RegisterInfo, Goes
  <1>4. handler[h] \in HandlerStates /\ handler[h].op = "register"
    BY <1>1, <1>3 DEF Sound
  <1>5. /\ \A g \in Handlers : g = h \/ handler'[g] = handler[g]
        /\ handler'[h].op = "register"
        /\ handler'[h].pc \in {"info", "attach", "head"}
    <2>1. CASE RegisterAttach(h)
      <3>1. PICK s : /\ Goes(h, "attach", s)
                     /\ \/ s = [handler[h] EXCEPT !.pc = "info", !.path = NoPath,
                                                 !.todo = @ \ {handler[h].path}]
                        \/ s = [handler[h] EXCEPT !.pc = "head", !.path = NoPath,
                                                 !.todo = handler[h].paths]
        BY <2>1 DEF RegisterAttach
      <3>2. s.op = "register" /\ s.pc \in {"info", "head"}
        BY <1>4, <3>1 DEF HandlerStates
      <3>. QED
        BY <3>1, <3>2, GoesFacts
    <2>2. CASE \E p \in Paths : RegisterInfo(h, p)
      <3>1. PICK p \in Paths : Goes(h, "info", [handler[h] EXCEPT !.pc = "attach", !.path = p])
        BY <2>2 DEF RegisterInfo
      <3>2. handler'[h] = [handler[h] EXCEPT !.pc = "attach", !.path = p]
        BY <3>1, GoesFacts
      <3>3. handler'[h].op = "register" /\ handler'[h].pc = "attach"
        BY <1>4, <3>2 DEF HandlerStates
      <3>. QED
        BY <3>1, <3>3, GoesFacts
    <2>. QED
      BY <2>1, <2>2
  <1>6. Sound(handler[h])'
    BY <1>5 DEF Sound
  <1>. QED
    BY <1>2, <1>5, <1>6, GoesPreserves

LEMMA UploadKeeps ==
  ASSUME LinkInv, TypeOK', NEW h \in Handlers,
         PutObject(h) \/ UploadRejected(h) \/ PersistFails(h) \/ CleanUpUpload(h)
  PROVE  LinkInv'
  <1>. TypeOK
    BY DEF LinkInv
  <1>1. Grows
    BY CatalogGrows DEF PutObject, PutBlob, UploadRejected, PersistFails, CleanUpUpload,
       DeleteBlob, catalogVars
  <1>2. CASE PutObject(h)
    <2>1. Goes(h, "put", [handler[h] EXCEPT !.pc = "row"])
      BY <1>2 DEF PutObject
    <2>2. /\ handler'[h] = [handler[h] EXCEPT !.pc = "row"]
          /\ handler[h].pc = "put"
          /\ handler[h] \in HandlerStates
          /\ handler[h].build \in Builds
          /\ Sound(handler[h])
      BY <2>1, GoesFacts
    <2>3. Sound(handler[h])'
      BY <1>1, <2>2 DEF Sound, Grows, HandlerStates
    <2>. QED
      BY <1>1, <2>1, <2>3, GoesFacts, GoesPreserves
  <1>3. CASE UploadRejected(h) \/ CleanUpUpload(h)
    <2>1. Goes(h, "put", Idle) \/ Goes(h, "cleanup", Idle)
      BY <1>3 DEF UploadRejected, CleanUpUpload
    <2>2. Sound(handler[h])'
      BY <2>1, GoesFacts DEF Sound, Idle
    <2>. QED
      BY <1>1, <2>1, <2>2, GoesFacts, GoesPreserves
  <1>4. CASE PersistFails(h)
    <2>1. handler \in [Handlers -> HandlerStates]
      BY DEF TypeOK, IngestTypeOK
    <2>2. /\ handler[h].op = "upload"
          /\ handler'[h] = [handler[h] EXCEPT !.pc = "cleanup"]
          /\ handler[h] \in HandlerStates
          /\ \A g \in Handlers : g = h \/ handler'[g] = handler[g]
      BY <1>4, <2>1 DEF PersistFails
    <2>3. handler'[h].op = "upload" /\ handler'[h].pc = "cleanup"
      BY <2>2 DEF HandlerStates
    <2>4. Sound(handler[h])'
      BY <2>3 DEF Sound
    <2>. QED
      BY <1>1, <2>2, <2>4, GoesPreserves
  <1>. QED
    BY <1>2, <1>3, <1>4

LEMMA FinalizeKeeps ==
  ASSUME LinkInv, TypeOK', NEW h \in Handlers,
         ListBuildPaths(h) \/ (\E t \in (clock + 1) .. MaxClock : StampBuild(h, t)) \/ Publish(h)
  PROVE  LinkInv'
  <1>. TypeOK
    BY DEF LinkInv
  <1>1. Grows
    BY CatalogGrows DEF ListBuildPaths, StampBuild, ReadClock, Publish, PublishBuildToRef,
       catalogVars
  <1>2. CASE ListBuildPaths(h)
    <2>. DEFINE listed == buildPaths[handler[h].build]
    <2>1. /\ Goes(h, "list", IF listed = {} THEN Idle
                             ELSE [handler[h] EXCEPT !.pc = "head", !.paths = listed,
                                                     !.todo = listed])
          /\ buildPaths' = buildPaths
      BY <1>2 DEF ListBuildPaths, catalogVars
    <2>2. handler[h] \in HandlerStates
      BY <2>1, GoesFacts
    <2>3. CASE listed = {}
      <3>1. handler'[h] = Idle
        BY <2>1, <2>3, GoesFacts
      <3>2. Sound(handler[h])'
        BY <3>1 DEF Sound, Idle
      <3>. QED
        BY <1>1, <2>1, <3>2, GoesFacts, GoesPreserves
    <2>4. CASE listed # {}
      <3>1. handler'[h] = [handler[h] EXCEPT !.pc = "head", !.paths = listed, !.todo = listed]
        BY <2>1, <2>4, GoesFacts
      <3>2. Sound(handler[h])'
        BY <2>1, <2>2, <2>4, <3>1 DEF Sound, HandlerStates
      <3>. QED
        BY <1>1, <2>1, <3>2, GoesFacts, GoesPreserves
    <2>. QED
      BY <2>3, <2>4
  <1>3. ASSUME NEW t \in (clock + 1) .. MaxClock, StampBuild(h, t)
        PROVE  LinkInv'
    <2>1. Goes(h, "stamp", [handler[h] EXCEPT !.pc = "commit", !.at = t])
      BY <1>3 DEF StampBuild
    <2>2. /\ handler'[h] = [handler[h] EXCEPT !.pc = "commit", !.at = t]
          /\ handler[h].pc = "stamp"
          /\ handler[h] \in HandlerStates
          /\ handler[h].build \in Builds
          /\ Sound(handler[h])
      BY <2>1, GoesFacts
    <2>3. Sound(handler[h])'
      BY <1>1, <2>2 DEF Sound, Grows, HandlerStates
    <2>. QED
      BY <1>1, <2>1, <2>3, GoesFacts, GoesPreserves
  <1>4. CASE Publish(h)
    <2>1. Goes(h, "commit", Idle)
      BY <1>4 DEF Publish
    <2>2. Sound(handler[h])'
      BY <2>1, GoesFacts DEF Sound, Idle
    <2>. QED
      BY <1>1, <2>1, <2>2, GoesFacts, GoesPreserves
  <1>. QED
    BY <1>2, <1>3, <1>4

LEMMA RequestKeeps ==
  ASSUME LinkInv, TypeOK', NEW h \in Handlers, Request(h) \/ DropRequest(h)
  PROVE  LinkInv'
  <1>. TypeOK
    BY DEF LinkInv
  <1>1. handler \in [Handlers -> HandlerStates]
    BY DEF TypeOK, IngestTypeOK
  <1>2. Grows
    BY CatalogGrows DEF Request, RegisterPaths, UploadObject, FinalizeBuild, DropRequest,
       catalogVars
  <1>3. /\ \A g \in Handlers : g = h \/ handler'[g] = handler[g]
        /\ \/ handler'[h].pc = "info" /\ handler'[h].op = "register"
           \/ handler'[h].pc \in {"put", "idle"} /\ handler'[h].op # "finalize"
           \/ handler'[h].pc = "list"
    <2>1. CASE DropRequest(h)
      BY <1>1, <2>1 DEF DropRequest, Idle
    <2>2. ASSUME NEW b \in Builds, NEW ps, RegisterPaths(h, b, ps)
          PROVE  <1>3!1 /\ handler'[h].pc = "info" /\ handler'[h].op = "register"
      BY <1>1, <2>2 DEF RegisterPaths, Goes, Idle
    <2>3. ASSUME NEW b \in Builds, NEW p, UploadObject(h, b, p)
          PROVE  <1>3!1 /\ handler'[h].pc = "put" /\ handler'[h].op # "finalize"
      BY <1>1, <2>3 DEF UploadObject, Goes, Idle
    <2>4. ASSUME NEW b \in Builds, FinalizeBuild(h, b)
          PROVE  <1>3!1 /\ handler'[h].pc = "list"
      BY <1>1, <2>4 DEF FinalizeBuild, Goes, Idle
    <2>. QED
      BY <2>1, <2>2, <2>3, <2>4 DEF Request
  <1>4. Sound(handler[h])'
    BY <1>3 DEF Sound
  <1>. QED
    BY <1>2, <1>3, <1>4, GoesPreserves

-----------------------------------------------------------------------------
(* The theorem *)

LEMMA OthersKeep ==
  ASSUME LinkInv, TypeOK', UNCHANGED <<handler, links, buildPaths>>
  PROVE  LinkInv'
  BY DEF LinkInv, Settled, Verified

LEMMA IngestKeeps ==
  ASSUME LinkInv, TypeOK', IngestNext
  PROVE  LinkInv'
  <1>1. ASSUME NEW b \in Builds, BeginBuild(b)
        PROVE  LinkInv'
    BY <1>1, OthersKeep DEF BeginBuild, InsertBuild, ingestVars
  <1>2. ASSUME NEW h \in Handlers, Request(h) \/ DropRequest(h)
        PROVE  LinkInv'
    BY <1>2, RequestKeeps
  <1>3. ASSUME NEW h \in Handlers, HandlerStep(h)
        PROVE  LinkInv'
    BY <1>3, LoopKeeps, PersistKeeps, RegisterKeeps, UploadKeeps, FinalizeKeeps
       DEF HandlerStep
  <1>4. ASSUME NEW x \in PinNames, DeletePin(x) \/ \E p \in Paths : CreatePin(x, p)
        PROVE  LinkInv'
    BY <1>4, OthersKeep DEF DeletePin, CreatePin, SetPin, ingestVars
  <1>. QED
    BY <1>1, <1>2, <1>3, <1>4 DEF IngestNext

LEMMA CollectKeeps ==
  ASSUME LinkInv, TypeOK', NEW c \in Collectors, Collect(c) \/ DropGc(c)
  PROVE  LinkInv'
  <1>1. UNCHANGED handler
    BY DEF Collect, DropGc, ingestVars
  <1>2. UNCHANGED <<links, buildPaths>>
    BY DEF Collect, CollectorStep, RunGc, ListRefs, GetDefaultPolicy, GetCustomPolicy,
       ListRules, JudgeRef, ListNewestBuilds, ListRetainedPaths,
       ListPendingPaths, ListPinnedPaths, ClearTombstones, ClearDeletedStateForLive,
       MarkStaleObjects, MarkStale, ListReady, DeleteObject, DeleteBlob, DeleteObjectRows,
       DeleteRows, SetRow, DropGc, AbandonGc, catalogVars
  <1>. QED
    BY <1>1, <1>2, OthersKeep

LEMMA InitLink == Init => LinkInv
  <1>. SUFFICES ASSUME Init PROVE LinkInv
    OBVIOUS
  <1>1. TypeOK
    BY InitType
  <1>2. \A h \in Handlers : handler[h].pc = "idle" /\ handler[h].op = "none"
    BY DEF Init, IngestInit, Idle
  <1>. QED
    BY <1>1, <1>2 DEF LinkInv, Verified

LEMMA NextLink == LinkInv /\ [Next]_vars => LinkInv'
  <1>. SUFFICES ASSUME LinkInv, [Next]_vars PROVE LinkInv'
    OBVIOUS
  <1>. TypeOK'
    BY NextType DEF LinkInv
  <1>1. CASE UNCHANGED vars
    BY <1>1, OthersKeep DEF vars, catalogVars, ingestVars
  <1>2. CASE IngestNext
    BY <1>2, IngestKeeps
  <1>3. ASSUME NEW c \in Collectors, Collect(c) \/ DropGc(c)
        PROVE  LinkInv'
    BY <1>3, CollectKeeps
  <1>4. ASSUME NEW n \in Nars, Ageing(n)
        PROVE  LinkInv'
    BY <1>4, OthersKeep DEF Ageing, Age, SetRow, ingestVars
  <1>5. ASSUME NEW r, NEW ttl, NEW t, ExpirePublications(r, ttl, t), UNCHANGED ingestVars
        PROVE  LinkInv'
    BY <1>5, OthersKeep DEF ExpirePublications, ingestVars
  <1>6. ASSUME NEW project, DeletePolicy(project) \/ \E policy : ReplacePolicy(project, policy),
               UNCHANGED ingestVars
        PROVE  LinkInv'
    BY <1>6, OthersKeep DEF ReplacePolicy, ReplaceRetentionPolicy, DeletePolicy,
       DeleteRetentionPolicy, ingestVars
  <1>. QED
    BY <1>1, <1>2, <1>3, <1>4, <1>5, <1>6 DEF Next

\* What finalize_build knows of the paths it listed, at each place in its loop.
THEOREM LinkInductive == Spec => []LinkInv
  BY InitLink, NextLink, PTL DEF Spec

\* Every finalize_build that reaches publish_build_to_ref has linked each local
\* object of the paths it listed, whatever is registered, uploaded, finalized or
\* collected at the same time.
THEOREM PublicationSafe == Spec => []PublishedIsLinked
  <1>1. LinkInv => PublishedIsLinked
    BY DEF LinkInv, Settled, Verified, PublishedIsLinked
  <1>. QED
    BY <1>1, LinkInductive, PTL

-----------------------------------------------------------------------------
(* The refinement: what a request knows of its build and its paths *)

\* Builds that were begun and paths that were registered or attached stay.
Monotone ==
  /\ pathInfos \subseteq pathInfos'
  /\ \A b \in Builds : /\ buildPaths[b] \subseteq buildPaths'[b]
                       /\ status[b] # "absent" => status'[b] # "absent"

LEMMA FoundedStays ==
  ASSUME Monotone, NEW s \in HandlerStates, Founded(s)
  PROVE  Founded(s)'
  <1>1. s.pc # "idle" => s.build \in Builds
    BY DEF HandlerStates, Shaped
  <1>. QED
    BY <1>1 DEF Founded, Monotone

LEMMA KnownHandler ==
  ASSUME PublicationInv, NEW h \in Handlers
  PROVE  /\ handler[h] \in HandlerStates
         /\ handler[h].pc # "idle" => handler[h].build \in Builds
         /\ Sound(handler[h]) /\ Founded(handler[h])
         /\ CatalogTypeOK
  <1>1. handler[h] \in HandlerStates /\ CatalogTypeOK
    BY DEF PublicationInv, LinkInv, TypeOK, IngestTypeOK
  <1>2. handler[h].pc # "idle" => handler[h].build \in Builds
    BY <1>1 DEF HandlerStates, Shaped
  <1>. QED
    BY <1>1, <1>2, LinkInvSound DEF PublicationInv

\* Handler h goes on to the state s, and the tables grow.
MovesTo(h, s) ==
  /\ Monotone
  /\ handler'[h] = s
  /\ \A g \in Handlers : g = h \/ handler'[g] = handler[g]

LEMMA MovesKeeps ==
  ASSUME PublicationInv, LinkInv', NEW h \in Handlers, NEW s, MovesTo(h, s), Founded(s)'
  PROVE  PublicationInv'
  <1>1. ASSUME NEW g \in Handlers
        PROVE  Founded(handler[g])'
    <2>1. CASE g = h
      BY <2>1 DEF MovesTo, Founded
    <2>2. CASE g # h
      <3>1. handler'[g] = handler[g]
        BY <2>2 DEF MovesTo
      <3>2. Founded(handler[g])'
        BY KnownHandler, FoundedStays DEF MovesTo, Founded
      <3>. QED
        BY <3>1, <3>2 DEF Founded
    <2>. QED
      BY <2>1, <2>2
  <1>. QED
    BY <1>1 DEF PublicationInv, Founded

-----------------------------------------------------------------------------
(* The refinement: attempts at a publication *)

FinalizingAt(s) == s.op = "finalize" /\ s.pc \notin {"idle", "list"}

LEMMA AttemptsStay ==
  ASSUME NEW h \in Handlers, NEW s, MovesTo(h, s), FinalizingAt(s) <=> Finalizing(h),
         Finalizing(h) => s.build = handler[h].build /\ s.paths = handler[h].paths
  PROVE  Attempts' = Attempts
  <1>1. \A g \in Handlers : Finalizing(g)' <=> Finalizing(g)
    BY DEF MovesTo, FinalizingAt, Finalizing
  <1>2. \A g \in Handlers : Finalizing(g) => Attempt(g)' = Attempt(g)
    BY DEF MovesTo, Attempt
  <1>. QED
    BY <1>1, <1>2 DEF Attempts

LEMMA AttemptsElements ==
  /\ \A x : x \in Attempts <=> \E g \in Handlers : Finalizing(g) /\ x = Attempt(g)
  /\ \A x : x \in Attempts' <=> \E g \in Handlers : Finalizing(g)' /\ x = Attempt(g)'
  <1>1. \A x : x \in Attempts <=> \E g \in Handlers : Finalizing(g) /\ x = Attempt(g)
    BY DEF Attempts
  <1>2. \A x : x \in Attempts' <=> \E g \in Handlers : Finalizing(g)' /\ x = Attempt(g)'
    BY DEF Attempts
  <1>. QED
    BY <1>1, <1>2

LEMMA OtherAttempts ==
  ASSUME NEW h \in Handlers, NEW s, MovesTo(h, s), NEW g \in Handlers, g # h
  PROVE  (Finalizing(g)' <=> Finalizing(g)) /\ Attempt(g)' = Attempt(g)
  BY DEF MovesTo, Finalizing, Attempt

LEMMA AttemptEnds ==
  ASSUME NEW h \in Handlers, NEW s, MovesTo(h, s), ~FinalizingAt(s), Finalizing(h)
  PROVE  /\ Attempt(h) \in Attempts
         /\ Attempts' \in {Attempts, Attempts \ {Attempt(h)}}
  <1>1. ~Finalizing(h)'
    BY DEF MovesTo, FinalizingAt, Finalizing
  <1>2. Attempt(h) \in Attempts
    BY AttemptsElements
  <1>3. Attempts' \subseteq Attempts
    BY <1>1, AttemptsElements, OtherAttempts
  <1>4. \A x \in Attempts : x = Attempt(h) \/ x \in Attempts'
    BY AttemptsElements, OtherAttempts
  <1>. HIDE DEF Attempts, Attempt
  <1>. QED
    BY <1>2, <1>3, <1>4

LEMMA AttemptBegins ==
  ASSUME NEW h \in Handlers, NEW s, MovesTo(h, s), FinalizingAt(s), ~Finalizing(h)
  PROVE  Attempts' = Attempts \cup {[build |-> s.build, paths |-> s.paths]}
  <1>1. Finalizing(h)' /\ Attempt(h)' = [build |-> s.build, paths |-> s.paths]
    BY DEF MovesTo, FinalizingAt, Finalizing, Attempt
  <1>2. [build |-> s.build, paths |-> s.paths] \in Attempts'
    BY <1>1, AttemptsElements
  <1>3. Attempts \subseteq Attempts'
    BY AttemptsElements, OtherAttempts
  <1>4. \A x \in Attempts' : x = [build |-> s.build, paths |-> s.paths] \/ x \in Attempts
    BY <1>1, AttemptsElements, OtherAttempts
  <1>. QED
    BY <1>2, <1>3, <1>4

\* A step of the abstract specification, or none.
Refined == [Published!Next]_(Published!vars)

\* The tables that publishing promises something of.
TablesStay == UNCHANGED <<status, buildPaths, pathInfos, links, refs>>

LEMMA Silent ==
  ASSUME TablesStay, Attempts' = Attempts
  PROVE  Refined
  BY DEF TablesStay, Refined, Published!vars

LEMMA Abandons ==
  ASSUME TablesStay, NEW h \in Handlers, NEW s, MovesTo(h, s), ~FinalizingAt(s), Finalizing(h)
  PROVE  Refined
  <1>1. Attempt(h) \in Attempts /\ Attempts' \in {Attempts, Attempts \ {Attempt(h)}}
    BY AttemptEnds
  <1>2. CASE Attempts' = Attempts
    BY <1>2, Silent
  <1>3. CASE Attempts' = Attempts \ {Attempt(h)}
    <2>1. Published!Abandon(Attempt(h))
      BY <1>3 DEF Published!Abandon, TablesStay
    <2>. QED
      BY <1>1, <2>1 DEF Refined, Published!Next
  <1>. QED
    BY <1>1, <1>2, <1>3

LEMMA Rests ==
  ASSUME PublicationInv, LinkInv', TablesStay, NEW h \in Handlers, MovesTo(h, Idle)
  PROVE  PublicationInv' /\ Refined
  <1>1. ~FinalizingAt(Idle)
    BY DEF FinalizingAt, Idle
  <1>2. Founded(Idle)'
    BY DEF Founded, Idle
  <1>3. Finalizing(h) => Refined
    BY <1>1, Abandons
  <1>4. ~Finalizing(h) => Refined
    BY <1>1, AttemptsStay, Silent
  <1>. QED
    BY <1>2, <1>3, <1>4, MovesKeeps

\* A step of one handler that publishing promises nothing of.
LEMMA MovesSilently ==
  ASSUME PublicationInv, LinkInv', TablesStay, NEW h \in Handlers, NEW s, MovesTo(h, s),
         Founded(s)', FinalizingAt(s) <=> Finalizing(h),
         Finalizing(h) => s.build = handler[h].build /\ s.paths = handler[h].paths
  PROVE  PublicationInv' /\ Refined
  BY AttemptsStay, Silent, MovesKeeps

LEMMA GoesMoves ==
  ASSUME PublicationInv, Monotone, NEW h \in Handlers, NEW pc, NEW s, Goes(h, pc, s)
  PROVE  /\ MovesTo(h, s)
         /\ handler[h].pc = pc
         /\ handler[h] \in HandlerStates
         /\ handler[h].pc # "idle" => handler[h].build \in Builds
         /\ Sound(handler[h]) /\ Founded(handler[h])
         /\ CatalogTypeOK
  BY KnownHandler, GoesFacts DEF PublicationInv, MovesTo

LEMMA TablesMonotone ==
  ASSUME UNCHANGED <<pathInfos, buildPaths, status>>
  PROVE  Monotone
  BY DEF Monotone

\* A request past its attachments stays founded as long as it keeps what it is about.
LEMMA VisitedKept ==
  ASSUME Monotone, NEW h \in Handlers, handler[h] \in HandlerStates,
         handler[h].pc \in {"head", "row", "link"}, handler[h].op # "upload",
         Founded(handler[h]), NEW s, s.pc \in {"head", "stamp"}, s.op = handler[h].op,
         s.build = handler[h].build, s.paths = handler[h].paths, s.todo \subseteq handler[h].todo
  PROVE  /\ Founded(s)'
         /\ FinalizingAt(s) <=> Finalizing(h)
  <1>1. handler[h].build \in Builds
    BY DEF HandlerStates, Shaped
  <1>. QED
    BY <1>1 DEF Founded, Monotone, FinalizingAt, Finalizing

LEMMA VisitedFounded ==
  ASSUME Monotone, NEW h \in Handlers, NEW p, handler[h] \in HandlerStates,
         handler[h].pc \in {"head", "row", "link"}, handler[h].op # "upload",
         Founded(handler[h]), NEW s, s = Visited(h, p)
  PROVE  /\ Founded(s)'
         /\ FinalizingAt(s) <=> Finalizing(h)
         /\ Finalizing(h) => s.build = handler[h].build /\ s.paths = handler[h].paths
  <1>. DEFINE left == handler[h].todo \ {p}
  <1>1. CASE left # {}
    <2>1. s = [handler[h] EXCEPT !.pc = "head", !.path = NoPath, !.todo = left]
      BY <1>1 DEF Visited
    <2>2. /\ s.pc = "head"
          /\ s.op = handler[h].op
          /\ s.build = handler[h].build
          /\ s.paths = handler[h].paths
          /\ s.todo = left
      BY <2>1 DEF HandlerStates
    <2>. HIDE DEF left
    <2>. QED
      BY <2>2, VisitedKept DEF left
  <1>2. CASE left = {} /\ handler[h].op = "finalize"
    <2>1. s = [handler[h] EXCEPT !.pc = "stamp", !.path = NoPath, !.todo = {}]
      BY <1>2 DEF Visited
    <2>2. /\ s.pc = "stamp"
          /\ s.op = handler[h].op
          /\ s.build = handler[h].build
          /\ s.paths = handler[h].paths
          /\ s.todo = {}
      BY <2>1 DEF HandlerStates
    <2>. QED
      BY <2>2, VisitedKept
  <1>3. CASE left = {} /\ handler[h].op # "finalize"
    <2>1. s = Idle
      BY <1>3 DEF Visited
    <2>. QED
      BY <1>3, <2>1 DEF Founded, FinalizingAt, Finalizing, Idle
  <1>. QED
    BY <1>1, <1>2, <1>3

-----------------------------------------------------------------------------
(* The refinement: each step of the server *)

\* Handler h starts on a request for build b, at the state s.
Starts(h, b, s) ==
  /\ Goes(h, "idle", s)
  /\ status[b] = "pending"
  /\ UNCHANGED catalogVars
  /\ s.build = b
  /\ \/ s.pc = "info" /\ s.op = "register" /\ s.todo = s.paths
     \/ s.pc = "put" /\ s.op = "upload"
     \/ s.pc = "list" /\ s.op = "finalize"

LEMMA StartsRefine ==
  ASSUME PublicationInv, LinkInv', NEW h \in Handlers, Request(h)
  PROVE  PublicationInv' /\ Refined
  <1>1. \E b \in Builds : \E s : Starts(h, b, s)
    <2>1. ASSUME NEW b \in Builds, NEW ps, RegisterPaths(h, b, ps)
          PROVE  \E s : Starts(h, b, s)
      <3>. DEFINE s == [Idle EXCEPT !.pc = "info", !.op = "register", !.build = b,
                                    !.paths = ps, !.todo = ps]
      <3>1. /\ s.build = b /\ s.pc = "info" /\ s.op = "register"
            /\ s.todo = s.paths
        BY DEF Idle
      <3>2. Goes(h, "idle", s) /\ status[b] = "pending" /\ UNCHANGED catalogVars
        BY <2>1 DEF RegisterPaths
      <3>. HIDE DEF s
      <3>. QED
        BY <3>1, <3>2 DEF Starts
    <2>2. ASSUME NEW b \in Builds, NEW p, UploadObject(h, b, p)
          PROVE  \E s : Starts(h, b, s)
      <3>. DEFINE s == [Idle EXCEPT !.pc = "put", !.op = "upload", !.build = b, !.path = p]
      <3>1. s.build = b /\ s.pc = "put" /\ s.op = "upload"
        BY DEF Idle
      <3>2. Goes(h, "idle", s) /\ status[b] = "pending" /\ UNCHANGED catalogVars
        BY <2>2 DEF UploadObject
      <3>. HIDE DEF s
      <3>. QED
        BY <3>1, <3>2 DEF Starts
    <2>3. ASSUME NEW b \in Builds, FinalizeBuild(h, b)
          PROVE  \E s : Starts(h, b, s)
      <3>. DEFINE s == [Idle EXCEPT !.pc = "list", !.op = "finalize", !.build = b]
      <3>1. s.build = b /\ s.pc = "list" /\ s.op = "finalize"
        BY DEF Idle
      <3>2. Goes(h, "idle", s) /\ status[b] = "pending" /\ UNCHANGED catalogVars
        BY <2>3 DEF FinalizeBuild
      <3>. HIDE DEF s
      <3>. QED
        BY <3>1, <3>2 DEF Starts
    <2>. QED
      BY <2>1, <2>2, <2>3 DEF Request
  <1>2. PICK b \in Builds : \E s : Starts(h, b, s)
    BY <1>1
  <1>3. PICK s : Starts(h, b, s)
    BY <1>2
  <1>4. TablesStay /\ Monotone
    BY <1>3, TablesMonotone DEF Starts, catalogVars, TablesStay
  <1>5. MovesTo(h, s) /\ handler[h].pc = "idle"
    BY <1>3, <1>4, GoesMoves DEF Starts
  <1>6. Founded(s)'
    BY <1>3, <1>4 DEF Starts, Founded, TablesStay
  <1>7. ~FinalizingAt(s) /\ ~Finalizing(h)
    BY <1>3, <1>5 DEF Starts, FinalizingAt, Finalizing
  <1>. QED
    BY <1>4, <1>5, <1>6, <1>7, MovesSilently

LEMMA LoopRefines ==
  ASSUME PublicationInv, LinkInv', NEW h \in Handlers, NEW p \in Paths,
         HeadFound(h, p) \/ HeadPassedOver(h, p) \/ FinalizeRejected(h, p)
  PROVE  PublicationInv' /\ Refined
  <1>1. TablesStay /\ Monotone
    BY TablesMonotone DEF HeadFound, HeadPassedOver, FinalizeRejected, catalogVars, TablesStay
  <1>2. CASE HeadFound(h, p)
    <2>1. PICK s : s = [handler[h] EXCEPT !.pc = "row", !.path = p]
      OBVIOUS
    <2>2. Goes(h, "head", s) /\ p \in handler[h].todo
      BY <1>2, <2>1 DEF HeadFound
    <2>3. /\ MovesTo(h, s)
          /\ handler[h].pc = "head"
          /\ handler[h] \in HandlerStates
          /\ handler[h].build \in Builds
          /\ Sound(handler[h]) /\ Founded(handler[h])
      BY <1>1, <2>2, GoesMoves
    <2>4. /\ s.pc = "row" /\ s.path = p
          /\ s.op = handler[h].op
          /\ s.build = handler[h].build
          /\ s.paths = handler[h].paths
          /\ s.todo = handler[h].todo
      BY <2>1, <2>3 DEF HandlerStates
    <2>5. p \in buildPaths[handler[h].build]
      <3>1. handler[h].op \in {"register", "finalize"}
        BY <2>3 DEF Founded, HandlerStates
      <3>. QED
        BY <2>2, <2>3, <3>1 DEF Sound, Founded
    <2>6. Founded(s)'
      BY <1>1, <2>3, <2>4, <2>5 DEF Founded, Monotone
    <2>7. FinalizingAt(s) <=> Finalizing(h)
      BY <2>3, <2>4 DEF FinalizingAt, Finalizing
    <2>. QED
      BY <1>1, <2>3, <2>4, <2>6, <2>7, MovesSilently
  <1>3. CASE HeadPassedOver(h, p)
    <2>1. PICK s : s = Visited(h, p)
      OBVIOUS
    <2>2. Goes(h, "head", s)
      BY <1>3, <2>1 DEF HeadPassedOver
    <2>3. /\ MovesTo(h, s)
          /\ handler[h].pc = "head"
          /\ handler[h] \in HandlerStates
          /\ Founded(handler[h])
      BY <1>1, <2>2, GoesMoves
    <2>4. handler[h].op # "upload"
      BY <2>3 DEF Founded
    <2>5. /\ Founded(s)'
          /\ FinalizingAt(s) <=> Finalizing(h)
          /\ Finalizing(h) => s.build = handler[h].build /\ s.paths = handler[h].paths
      BY <1>1, <2>1, <2>3, <2>4, VisitedFounded
    <2>. QED
      BY <1>1, <2>3, <2>5, MovesSilently
  <1>4. CASE FinalizeRejected(h, p)
    <2>1. MovesTo(h, Idle)
      BY <1>1, <1>4, GoesMoves DEF FinalizeRejected
    <2>. QED
      BY <1>1, <2>1, Rests
  <1>. QED
    BY <1>2, <1>3, <1>4

LEMMA RegisterInfoRefines ==
  ASSUME PublicationInv, LinkInv', NEW h \in Handlers, NEW p \in Paths, RegisterInfo(h, p)
  PROVE  PublicationInv' /\ Refined
  <1>1. PICK s : s = [handler[h] EXCEPT !.pc = "attach", !.path = p]
    OBVIOUS
  <1>2. /\ p \in handler[h].todo
        /\ Goes(h, "info", s)
        /\ pathInfos' = pathInfos \cup {p}
        /\ UNCHANGED <<status, buildPaths, links, refs>>
    BY <1>1 DEF RegisterInfo, UpsertPathInfo
  <1>3. Monotone
    BY <1>2 DEF Monotone
  <1>4. /\ MovesTo(h, s)
        /\ handler[h].pc = "info"
        /\ handler[h] \in HandlerStates
        /\ Sound(handler[h]) /\ Founded(handler[h])
    BY <1>2, <1>3, GoesMoves
  <1>5. handler[h].op = "register"
    BY <1>4 DEF Sound
  <1>6. /\ s.pc = "attach" /\ s.path = p
        /\ s.op = "register"
        /\ s.build = handler[h].build
        /\ s.paths = handler[h].paths
        /\ s.todo = handler[h].todo
    BY <1>1, <1>4, <1>5 DEF HandlerStates
  <1>7. Founded(s)'
    BY <1>2, <1>4, <1>5, <1>6 DEF Founded
  <1>8. PublicationInv'
    BY <1>4, <1>7, MovesKeeps
  <1>9. Attempts' = Attempts
    BY <1>4, <1>5, <1>6, AttemptsStay DEF FinalizingAt, Finalizing
  <1>10. Published!Know(p)
    BY <1>2, <1>9 DEF Published!Know
  <1>. QED
    BY <1>8, <1>10 DEF Refined, Published!Next

LEMMA RegisterAttachRefines ==
  ASSUME PublicationInv, LinkInv', NEW h \in Handlers, RegisterAttach(h)
  PROVE  PublicationInv' /\ Refined
  <1>. DEFINE p == handler[h].path
              b == handler[h].build
              left == handler[h].todo \ {p}
  <1>1. PICK s : s = IF left # {}
                     THEN [handler[h] EXCEPT !.pc = "info", !.path = NoPath, !.todo = left]
                     ELSE [handler[h] EXCEPT !.pc = "head", !.path = NoPath,
                                             !.todo = handler[h].paths]
    OBVIOUS
  <1>2. /\ Goes(h, "attach", s)
        /\ buildPaths' = [buildPaths EXCEPT ![b] = @ \cup {p}]
        /\ UNCHANGED <<status, pathInfos, links, refs>>
    BY <1>1 DEF RegisterAttach, AttachBuildPath
  <1>3. buildPaths \in [Builds -> SUBSET Paths]
    BY KnownHandler DEF CatalogTypeOK
  <1>4. Monotone
    BY <1>2, <1>3 DEF Monotone
  <1>5. /\ MovesTo(h, s)
        /\ handler[h].pc = "attach"
        /\ handler[h] \in HandlerStates
        /\ b \in Builds
        /\ Sound(handler[h]) /\ Founded(handler[h])
    BY <1>2, <1>4, GoesMoves
  <1>6. handler[h].op = "register" /\ p \in Paths
    BY <1>5 DEF Sound, HandlerStates, Shaped
  <1>7. buildPaths'[b] = buildPaths[b] \cup {p}
    BY <1>2, <1>3, <1>5
  <1>8. /\ s.op = "register"
        /\ s.build = b
        /\ s.paths = handler[h].paths
        /\ \/ s.pc = "info" /\ s.todo = left
           \/ s.pc = "head" /\ s.todo = s.paths /\ left = {}
    <2>1. CASE left # {}
      <3>1. s = [handler[h] EXCEPT !.pc = "info", !.path = NoPath, !.todo = left]
        BY <1>1, <2>1
      <3>. HIDE DEF left, b
      <3>. QED
        BY <1>5, <1>6, <3>1 DEF HandlerStates, b
    <2>2. CASE left = {}
      <3>1. s = [handler[h] EXCEPT !.pc = "head", !.path = NoPath, !.todo = handler[h].paths]
        BY <1>1, <2>2
      <3>. QED
        BY <1>5, <1>6, <2>2, <3>1 DEF HandlerStates
    <2>. QED
      BY <2>1, <2>2
  <1>9. /\ status[b] # "absent" /\ p \in pathInfos
        /\ handler[h].todo \subseteq handler[h].paths
        /\ handler[h].paths \subseteq buildPaths[b] \cup handler[h].todo
    BY <1>5, <1>6 DEF Founded
  <1>10. Founded(s)'
    BY <1>2, <1>7, <1>8, <1>9 DEF Founded
  <1>11. PublicationInv'
    BY <1>5, <1>10, MovesKeeps
  <1>12. Attempts' = Attempts
    BY <1>5, <1>6, <1>8, AttemptsStay DEF FinalizingAt, Finalizing
  <1>13. Published!Add(b, p)
    BY <1>2, <1>9, <1>12 DEF Published!Add
  <1>. QED
    BY <1>5, <1>6, <1>11, <1>13 DEF Refined, Published!Next

LEMMA PersistRowRefines ==
  ASSUME PublicationInv, LinkInv', NEW h \in Handlers, PersistRow(h)
  PROVE  PublicationInv' /\ Refined
  <1>1. TablesStay /\ Monotone
    BY TablesMonotone DEF PersistRow, UpsertStorageObject, TablesStay
  <1>2. PICK s : s = [handler[h] EXCEPT !.pc = "link"]
    OBVIOUS
  <1>3. Goes(h, "row", s)
    BY <1>2 DEF PersistRow
  <1>4. /\ MovesTo(h, s)
        /\ handler[h].pc = "row"
        /\ handler[h] \in HandlerStates
        /\ handler[h].build \in Builds
        /\ Founded(handler[h])
    BY <1>1, <1>3, GoesMoves
  <1>5. /\ s.pc = "link" /\ s.path = handler[h].path
        /\ s.op = handler[h].op
        /\ s.build = handler[h].build
        /\ s.paths = handler[h].paths
        /\ s.todo = handler[h].todo
    BY <1>2, <1>4 DEF HandlerStates
  <1>6. Founded(s)'
    BY <1>1, <1>4, <1>5 DEF Founded, Monotone
  <1>7. FinalizingAt(s) <=> Finalizing(h)
    BY <1>4, <1>5 DEF FinalizingAt, Finalizing
  <1>. QED
    BY <1>1, <1>4, <1>5, <1>6, <1>7, MovesSilently

LEMMA PersistLinkRefines ==
  ASSUME PublicationInv, LinkInv', NEW h \in Handlers, PersistLink(h)
  PROVE  PublicationInv' /\ Refined
  <1>1. PICK s : s = IF handler[h].op = "upload" THEN Idle ELSE Visited(h, handler[h].path)
    OBVIOUS
  <1>2. /\ Goes(h, "link", s)
        /\ links' = links \cup {handler[h].path}
        /\ UNCHANGED <<status, buildPaths, pathInfos, refs>>
    BY <1>1 DEF PersistLink, LinkPathObject
  <1>3. Monotone
    BY <1>2, TablesMonotone
  <1>4. /\ MovesTo(h, s)
        /\ handler[h].pc = "link"
        /\ handler[h] \in HandlerStates
        /\ handler[h].build \in Builds
        /\ Founded(handler[h])
    BY <1>2, <1>3, GoesMoves
  <1>5. /\ Founded(s)'
        /\ FinalizingAt(s) <=> Finalizing(h)
        /\ Finalizing(h) => s.build = handler[h].build /\ s.paths = handler[h].paths
    <2>1. CASE handler[h].op = "upload"
      <3>1. s = Idle
        BY <1>1, <2>1
      <3>. QED
        BY <2>1, <3>1 DEF Founded, FinalizingAt, Finalizing, Idle
    <2>2. CASE handler[h].op # "upload"
      <3>1. s = Visited(h, handler[h].path)
        BY <1>1, <2>2
      <3>. QED
        BY <1>3, <1>4, <2>2, <3>1, VisitedFounded
    <2>. QED
      BY <2>1, <2>2
  <1>6. PublicationInv'
    BY <1>4, <1>5, MovesKeeps
  <1>7. Attempts' = Attempts
    BY <1>4, <1>5, AttemptsStay
  <1>8. handler[h].path \in Paths /\ handler[h].path \in buildPaths[handler[h].build]
    BY <1>4 DEF Founded, HandlerStates, Shaped
  <1>9. Published!Provide(handler[h].path)
    BY <1>2, <1>4, <1>7, <1>8 DEF Published!Provide
  <1>. QED
    BY <1>6, <1>8, <1>9 DEF Refined, Published!Next

LEMMA UploadRefines ==
  ASSUME PublicationInv, LinkInv', NEW h \in Handlers,
         PutObject(h) \/ UploadRejected(h) \/ PersistFails(h) \/ CleanUpUpload(h)
  PROVE  PublicationInv' /\ Refined
  <1>1. TablesStay /\ Monotone
    BY TablesMonotone DEF PutObject, PutBlob, UploadRejected, PersistFails, CleanUpUpload,
       DeleteBlob, catalogVars, TablesStay
  <1>2. CASE PutObject(h)
    <2>1. PICK s : s = [handler[h] EXCEPT !.pc = "row"]
      OBVIOUS
    <2>2. Goes(h, "put", s) /\ handler[h].path \in buildPaths[handler[h].build]
      BY <1>2, <2>1 DEF PutObject
    <2>3. /\ MovesTo(h, s)
          /\ handler[h].pc = "put"
          /\ handler[h] \in HandlerStates
          /\ handler[h].build \in Builds
          /\ Founded(handler[h])
      BY <1>1, <2>2, GoesMoves
    <2>4. /\ s.pc = "row" /\ s.path = handler[h].path
          /\ s.op = handler[h].op
          /\ s.build = handler[h].build
          /\ s.paths = handler[h].paths
          /\ s.todo = handler[h].todo
      BY <2>1, <2>3 DEF HandlerStates
    <2>5. Founded(s)'
      BY <1>1, <2>2, <2>3, <2>4 DEF Founded, Monotone
    <2>6. FinalizingAt(s) <=> Finalizing(h)
      BY <2>3, <2>4 DEF FinalizingAt, Finalizing
    <2>. QED
      BY <1>1, <2>3, <2>4, <2>5, <2>6, MovesSilently
  <1>3. CASE UploadRejected(h) \/ CleanUpUpload(h)
    <2>1. MovesTo(h, Idle)
      BY <1>1, <1>3, GoesMoves DEF UploadRejected, CleanUpUpload
    <2>. QED
      BY <1>1, <2>1, Rests
  <1>4. CASE PersistFails(h)
    <2>1. PICK s : s = [handler[h] EXCEPT !.pc = "cleanup"]
      OBVIOUS
    <2>2. handler \in [Handlers -> HandlerStates]
      BY DEF PublicationInv, LinkInv, TypeOK, IngestTypeOK
    <2>3. /\ MovesTo(h, s)
          /\ handler[h].op = "upload"
          /\ handler[h].pc \in {"row", "link"}
      BY <1>1, <1>4, <2>1, <2>2 DEF PersistFails, MovesTo
    <2>4. s.pc = "cleanup" /\ s.op = "upload" /\ s.build = handler[h].build
      BY <2>1, <2>2, <2>3 DEF HandlerStates
    <2>5. Founded(handler[h])
      BY KnownHandler
    <2>6. Founded(s)'
      BY <1>1, <2>3, <2>4, <2>5 DEF Founded, TablesStay
    <2>7. ~FinalizingAt(s) /\ ~Finalizing(h)
      BY <2>3, <2>4 DEF FinalizingAt, Finalizing
    <2>. QED
      BY <1>1, <2>3, <2>6, <2>7, MovesSilently
  <1>. QED
    BY <1>2, <1>3, <1>4

LEMMA ListRefines ==
  ASSUME PublicationInv, LinkInv', NEW h \in Handlers, ListBuildPaths(h)
  PROVE  PublicationInv' /\ Refined
  <1>. DEFINE b == handler[h].build
              listed == buildPaths[b]
  <1>1. TablesStay /\ Monotone
    BY TablesMonotone DEF ListBuildPaths, catalogVars, TablesStay
  <1>2. PICK s : s = IF listed = {} THEN Idle
                     ELSE [handler[h] EXCEPT !.pc = "head", !.paths = listed, !.todo = listed]
    OBVIOUS
  <1>3. Goes(h, "list", s)
    BY <1>2 DEF ListBuildPaths
  <1>4. /\ MovesTo(h, s)
        /\ handler[h].pc = "list"
        /\ handler[h] \in HandlerStates
        /\ b \in Builds
        /\ Founded(handler[h])
    BY <1>1, <1>3, GoesMoves
  <1>5. CASE listed = {}
    BY <1>1, <1>2, <1>4, <1>5, Rests
  <1>6. CASE listed # {}
    <2>1. s = [handler[h] EXCEPT !.pc = "head", !.paths = listed, !.todo = listed]
      BY <1>2, <1>6
    <2>2. handler[h].op = "finalize" /\ status[b] # "absent"
      BY <1>4 DEF Founded
    <2>. HIDE DEF b, listed
    <2>3. s.pc = "head" /\ s.op = "finalize" /\ s.build = b /\ s.paths = listed
      BY <1>4, <2>1, <2>2 DEF HandlerStates, b
    <2>4. Founded(s)'
      BY <1>1, <2>2, <2>3 DEF Founded, TablesStay
    <2>5. PublicationInv'
      BY <1>4, <2>4, MovesKeeps
    <2>6. FinalizingAt(s) /\ ~Finalizing(h)
      BY <1>4, <2>3 DEF FinalizingAt, Finalizing
    <2>7. Attempts' = Attempts \cup {[build |-> b, paths |-> listed]}
      BY <1>4, <2>3, <2>6, AttemptBegins
    <2>8. Published!Attempt(b)
      BY <1>1, <1>6, <2>2, <2>7 DEF Published!Attempt, TablesStay, listed
    <2>. QED
      BY <1>4, <2>5, <2>8 DEF Refined, Published!Next
  <1>. QED
    BY <1>5, <1>6

LEMMA StampRefines ==
  ASSUME PublicationInv, LinkInv', NEW h \in Handlers, NEW t, StampBuild(h, t)
  PROVE  PublicationInv' /\ Refined
  <1>1. TablesStay /\ Monotone
    BY TablesMonotone DEF StampBuild, ReadClock, TablesStay
  <1>2. PICK s : s = [handler[h] EXCEPT !.pc = "commit", !.at = t]
    OBVIOUS
  <1>3. Goes(h, "stamp", s)
    BY <1>2 DEF StampBuild
  <1>4. /\ MovesTo(h, s)
        /\ handler[h].pc = "stamp"
        /\ handler[h] \in HandlerStates
        /\ Sound(handler[h]) /\ Founded(handler[h])
    BY <1>1, <1>3, GoesMoves
  <1>5. /\ s.pc = "commit"
        /\ s.op = handler[h].op
        /\ s.build = handler[h].build
        /\ s.paths = handler[h].paths
        /\ s.todo = handler[h].todo
    BY <1>2, <1>4 DEF HandlerStates
  <1>6. handler[h].op = "finalize"
    BY <1>4 DEF Sound
  <1>7. Founded(s)'
    BY <1>1, <1>4, <1>5, <1>6 DEF Founded, TablesStay
  <1>8. FinalizingAt(s) /\ Finalizing(h)
    BY <1>4, <1>5, <1>6 DEF FinalizingAt, Finalizing
  <1>. QED
    BY <1>1, <1>4, <1>5, <1>7, <1>8, MovesSilently

\* The publication: its attempt is complete, since the loop has left no path.
LEMMA PublishRefines ==
  ASSUME PublicationInv, LinkInv', NEW h \in Handlers, Publish(h)
  PROVE  PublicationInv' /\ Refined
  <1>. DEFINE b == handler[h].build
  <1>1. /\ Goes(h, "commit", Idle)
        /\ status' = [status EXCEPT ![b] = "finalized"]
        /\ refs' = [refs EXCEPT ![RefOf[b]] = b]
        /\ UNCHANGED <<buildPaths, pathInfos, links>>
    BY DEF Publish, PublishBuildToRef
  <1>2. Monotone
    <2>1. status \in [Builds -> {"absent", "pending", "finalized"}]
      BY KnownHandler DEF CatalogTypeOK, Statuses
    <2>. HIDE DEF b
    <2>2. \A c \in Builds : status[c] # "absent" => status'[c] # "absent"
      BY <1>1, <2>1
    <2>. QED
      BY <1>1, <2>2 DEF Monotone
  <1>3. /\ MovesTo(h, Idle)
        /\ handler[h].pc = "commit"
        /\ handler[h] \in HandlerStates
        /\ b \in Builds
        /\ Sound(handler[h]) /\ Founded(handler[h])
    BY <1>1, <1>2, GoesMoves
  <1>4. Founded(Idle)'
    BY DEF Founded, Idle
  <1>5. PublicationInv'
    BY <1>3, <1>4, MovesKeeps
  <1>6. ~FinalizingAt(Idle) /\ Finalizing(h)
    BY <1>3 DEF FinalizingAt, Finalizing, Sound, Idle
  <1>7. Attempt(h) \in Attempts /\ Attempts' \in {Attempts, Attempts \ {Attempt(h)}}
    BY <1>3, <1>6, AttemptEnds
  <1>8. Published!Complete(Attempt(h))
    <2>1. \A p \in handler[h].paths : p \in links \/ NarOf[p] \in Upstream
      BY <1>3, <1>6 DEF Sound, Finalizing
    <2>2. handler[h].paths \subseteq Paths
      BY <1>3 DEF HandlerStates
    <2>. QED
      BY <2>1, <2>2 DEF Published!Complete, Attempt
  <1>9. Attempt(h).build = b
    BY DEF Attempt
  <1>10. Published!Publish(Attempt(h))
    BY <1>1, <1>7, <1>8, <1>9 DEF Published!Publish
  <1>. QED
    BY <1>5, <1>7, <1>10 DEF Refined, Published!Next

LEMMA DropRefines ==
  ASSUME PublicationInv, LinkInv', NEW h \in Handlers, DropRequest(h)
  PROVE  PublicationInv' /\ Refined
  <1>1. TablesStay /\ Monotone
    BY TablesMonotone DEF DropRequest, catalogVars, TablesStay
  <1>2. handler \in [Handlers -> HandlerStates]
    BY DEF PublicationInv, LinkInv, TypeOK, IngestTypeOK
  <1>3. MovesTo(h, Idle)
    BY <1>1, <1>2 DEF DropRequest, MovesTo
  <1>. QED
    BY <1>1, <1>3, Rests

LEMMA BeginRefines ==
  ASSUME PublicationInv, LinkInv', NEW b \in Builds, BeginBuild(b)
  PROVE  PublicationInv' /\ Refined
  <1>1. /\ status[b] = "absent"
        /\ status' = [status EXCEPT ![b] = "pending"]
        /\ UNCHANGED <<handler, buildPaths, pathInfos, links, refs>>
    BY DEF BeginBuild, InsertBuild, ingestVars
  <1>2. Monotone
    <2>1. status \in [Builds -> {"absent", "pending", "finalized"}]
      BY DEF PublicationInv, LinkInv, TypeOK, CatalogTypeOK, Statuses
    <2>2. \A c \in Builds : status[c] # "absent" => status'[c] # "absent"
      BY <1>1, <2>1
    <2>. QED
      BY <1>1, <2>2 DEF Monotone
  <1>3. \A g \in Handlers : Founded(handler[g])'
    <2>1. ASSUME NEW g \in Handlers
          PROVE  Founded(handler[g])'
      <3>1. PICK s : s = handler[g]
        OBVIOUS
      <3>2. Founded(s)'
        BY <1>2, <3>1, KnownHandler, FoundedStays
      <3>. QED
        BY <1>1, <3>1, <3>2 DEF Founded
    <2>. QED
      BY <2>1
  <1>4. Attempts' = Attempts
    BY <1>1 DEF Attempts, Attempt, Finalizing
  <1>5. Published!Begin(b)
    BY <1>1, <1>4 DEF Published!Begin
  <1>. QED
    BY <1>3, <1>5 DEF PublicationInv, Refined, Published!Next

LEMMA OthersRefine ==
  ASSUME PublicationInv, LinkInv', TablesStay, UNCHANGED handler
  PROVE  PublicationInv' /\ Refined
  <1>1. \A g \in Handlers : Founded(handler[g])'
    BY DEF PublicationInv, TablesStay, Founded
  <1>2. Attempts' = Attempts
    BY DEF Attempts, Attempt, Finalizing
  <1>. QED
    BY <1>1, <1>2, Silent DEF PublicationInv

-----------------------------------------------------------------------------
(* The refinement: the theorem *)

LEMMA IngestRefines ==
  ASSUME PublicationInv, LinkInv', IngestNext
  PROVE  PublicationInv' /\ Refined
  <1>1. ASSUME NEW h \in Handlers, HandlerStep(h)
        PROVE  PublicationInv' /\ Refined
    BY <1>1, RegisterInfoRefines, LoopRefines, RegisterAttachRefines, PersistRowRefines,
       PersistLinkRefines, UploadRefines, ListRefines, StampRefines, PublishRefines
       DEF HandlerStep
  <1>2. ASSUME NEW x \in PinNames, DeletePin(x) \/ \E p \in Paths : CreatePin(x, p)
        PROVE  PublicationInv' /\ Refined
    BY <1>2, OthersRefine DEF DeletePin, CreatePin, SetPin, ingestVars, TablesStay
  <1>. QED
    BY <1>1, <1>2, BeginRefines, StartsRefine, DropRefines DEF IngestNext

LEMMA CollectRefines ==
  ASSUME PublicationInv, LinkInv', NEW c \in Collectors, Collect(c) \/ DropGc(c)
  PROVE  PublicationInv' /\ Refined
  <1>1. UNCHANGED handler
    BY DEF Collect, DropGc, ingestVars
  <1>2. TablesStay
    BY DEF Collect, CollectorStep, RunGc, ListRefs, GetDefaultPolicy, GetCustomPolicy,
       ListRules, JudgeRef, ListNewestBuilds, ListRetainedPaths,
       ListPendingPaths, ListPinnedPaths, ClearTombstones, ClearDeletedStateForLive,
       MarkStaleObjects, MarkStale, ListReady, DeleteObject, DeleteBlob, DeleteObjectRows,
       DeleteRows, SetRow, DropGc, AbandonGc, catalogVars, TablesStay
  <1>. QED
    BY <1>1, <1>2, OthersRefine

LEMMA NextPublication == PublicationInv /\ [Next]_vars => PublicationInv' /\ Refined
  <1>. SUFFICES ASSUME PublicationInv, [Next]_vars PROVE PublicationInv' /\ Refined
    OBVIOUS
  <1>. LinkInv'
    BY NextLink DEF PublicationInv
  <1>1. CASE UNCHANGED vars
    BY <1>1, OthersRefine DEF vars, catalogVars, ingestVars, TablesStay
  <1>2. CASE IngestNext
    BY <1>2, IngestRefines
  <1>3. ASSUME NEW c \in Collectors, Collect(c) \/ DropGc(c)
        PROVE  PublicationInv' /\ Refined
    BY <1>3, CollectRefines
  <1>4. ASSUME NEW n \in Nars, Ageing(n)
        PROVE  PublicationInv' /\ Refined
    BY <1>4, OthersRefine DEF Ageing, Age, SetRow, ingestVars, TablesStay
  <1>5. ASSUME NEW r, NEW ttl, NEW t, ExpirePublications(r, ttl, t), UNCHANGED ingestVars
        PROVE  PublicationInv' /\ Refined
    BY <1>5, OthersRefine DEF ExpirePublications, ingestVars, TablesStay
  <1>6. ASSUME NEW project, DeletePolicy(project) \/ \E policy : ReplacePolicy(project, policy),
               UNCHANGED ingestVars
        PROVE  PublicationInv' /\ Refined
    BY <1>6, OthersRefine DEF ReplacePolicy, ReplaceRetentionPolicy, DeletePolicy,
       DeleteRetentionPolicy, ingestVars, TablesStay
  <1>. QED
    BY <1>1, <1>2, <1>3, <1>4, <1>5, <1>6 DEF Next

LEMMA InitPublication == Init => PublicationInv /\ Published!Init
  <1>. SUFFICES ASSUME Init PROVE PublicationInv /\ Published!Init
    OBVIOUS
  <1>1. \A h \in Handlers : handler[h] = Idle
    BY DEF Init, IngestInit
  <1>2. PublicationInv
    BY <1>1, InitLink DEF PublicationInv, Founded, Idle
  <1>3. Attempts = {}
    BY <1>1 DEF Attempts, Finalizing, Idle
  <1>. QED
    BY <1>2, <1>3 DEF Init, CatalogInit, Published!Init

\* What register_paths, the uploads and finalize_build know of their build and of
\* its paths, at each of their steps.
THEOREM PublicationInductive == Spec => []PublicationInv
  BY InitPublication, NextPublication, PTL DEF Spec

\* The server implements what publishing promises: whatever is registered, uploaded,
\* finalized, dropped and collected at the same time, a ref shows a build only after
\* every path that its finalize_build listed has its object here or upstream.
THEOREM PublicationRefined == Spec => KeepsPublication
  <1>1. Init => Published!Init
    BY InitPublication
  <1>2. PublicationInv /\ [Next]_vars => [Published!Next]_(Published!vars)
    BY NextPublication DEF Refined
  <1>. QED
    BY <1>1, <1>2, PublicationInductive, PTL DEF Spec, KeepsPublication, Published!Spec
=============================================================================
