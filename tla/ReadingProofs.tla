---------------------------- MODULE ReadingProofs ----------------------------
(***************************************************************************)
(* What a request for a narinfo or a NAR is answered is right, for any     *)
(* number of storages, upstreams, builds and changes from outside: the     *)
(* invariant ReadInv, that it is inductive, and what follows from it.      *)
(***************************************************************************)
EXTENDS Reading, TLAPS

\* What could answer the request now.
Good == GoodSources(request.view, request.kind)

\* A finalization that found the object in a storage has linked it when it
\* publishes (finalize_build, upsert_storage_object, link_path_object).
FoundIsLinked ==
  finalize.pc = "publish" /\ finalize.found \in LocalSources => linked

\* The source the published build relies on is there.
ReliedIsThere ==
  relied # NoSource =>
    /\ published
    /\ relied \in SourcesThere
    /\ relied \in LocalSources => linked

\* How far the request has come with what could have answered it all along: the
\* storages are among the rows still to be tried, or nothing local is left and the
\* upstreams are among those still to be asked.
SteadyIsAhead ==
  /\ ~At("idle") => watch.steady \subseteq Good
  /\ At("fetch") => \A s \in Storages : Storage(s) \in watch.steady => s \in request.rows
  /\ request.pc \in {"upstreams", "ask", "sign upstream"} =>
       watch.steady \cap LocalSources = {}
  /\ At("ask") => \A u \in Upstreams : Upstream(u) \in watch.steady => u \in request.upstreams

\* The view held the path when the request went on to the catalog or the storages.
SeenIfLocal ==
  /\ request.pc \in {"visible", "placement", "rows", "fetch"} => request.kind = "nar"
  /\ request.pc \in {"resolve", "sign local"} => request.kind = "narinfo"
  /\ request.pc \in {"placement", "rows", "fetch", "sign local"} => watch.seen

\* What the published build relies on could have answered a request for the NAR,
\* and the catalog itself one for the narinfo.
Reliable == IF request.kind = "narinfo" /\ relied \in LocalSources THEN Rows ELSE relied

RelyingHasSource ==
  watch.relying =>
    /\ relied # NoSource
    /\ request.view = "project"
    /\ Reliable \in watch.steady

ReadInv ==
  /\ TypeOK
  /\ FoundIsLinked
  /\ ReliedIsThere
  /\ SteadyIsAhead
  /\ SeenIfLocal
  /\ RelyingHasSource

-----------------------------------------------------------------------------
(* Sources *)

LEMMA SourcesDiffer ==
  ASSUME NEW s, NEW t, NEW u
  PROVE  /\ Storage(s) # Upstream(u)
         /\ Storage(s) # Rows
         /\ Storage(s) # NoSource
         /\ Upstream(u) # Rows
         /\ Upstream(u) # NoSource
         /\ Rows # NoSource
         /\ Storage(s) = Storage(t) => s = t
         /\ Upstream(s) = Upstream(t) => s = t
BY DEF Storage, Upstream, Rows, NoSource

LEMMA LocalOrNot ==
  /\ \A u : Upstream(u) \notin LocalSources
  /\ NoSource \notin LocalSources
  /\ NoSource \notin Sources
  /\ \A s \in Storages : Storage(s) \in LocalSources
  /\ \A x \in Sources : \/ \E s \in Storages : x = Storage(s)
                        \/ x = Rows
                        \/ \E u \in Upstreams : x = Upstream(u)
BY SourcesDiffer DEF LocalSources, Sources

\* What could answer after a step, read backwards.
LEMMA GoodStorage ==
  ASSUME NEW s \in Storages, Storage(s) \in Good'
  PROVE  request'.kind = "nar" /\ Serves(s)' /\ ObjectVisible(request.view)'
BY SourcesDiffer DEF Good, GoodSources

LEMMA GoodRows ==
  ASSUME Rows \in Good'
  PROVE  request'.kind = "narinfo" /\ PathVisible(request.view)'
<1>1. \E k \in {"narinfo"} \cap (IF PathVisible(request.view)' THEN {request'.kind} ELSE {}) : TRUE
  BY SourcesDiffer DEF Good, GoodSources
<1> QED
  BY <1>1

LEMMA GoodUpstream ==
  ASSUME NEW u \in Upstreams, Upstream(u) \in Good'
  PROVE  Answers(u, request.view)'
BY SourcesDiffer DEF Good, GoodSources

\* A view that has the path in no way leaves nothing local.
LEMMA NothingLocal ==
  ASSUME \/ ~PathVisible(request.view)'
         \/ request'.kind = "nar" /\ ~ObjectVisible(request.view)'
  PROVE  Good' \cap LocalSources = {}
<1> SUFFICES ASSUME NEW x \in LocalSources, x \in Good'
             PROVE  FALSE
  OBVIOUS
<1>1. CASE x = Rows
  BY <1>1, GoodRows
<1>2. CASE \E s \in Storages : x = Storage(s)
  BY <1>2, GoodStorage DEF ObjectVisible
<1> QED
  BY <1>1, <1>2 DEF LocalSources
-----------------------------------------------------------------------------
(* Types *)

RequestStates ==
  [pc : ReadPlaces, view : Views, kind : Kinds, preferred : Storages,
   rows : SUBSET Storages, upstreams : SUBSET Upstreams, answer : Outcomes \cup {"none"}]

\* TypeOK but for the history.
WorldTyped ==
  /\ configured \subseteq Storages
  /\ placement \in Storages
  /\ public \in BOOLEAN
  /\ pins \subseteq Scopes
  /\ pending \in BOOLEAN
  /\ published \in BOOLEAN
  /\ linked \in BOOLEAN
  /\ row \in [Storages -> {"none", "live", "tombstone"}]
  /\ blob \subseteq Storages
  /\ condemned \subseteq Storages
  /\ deleted \subseteq Storages
  /\ enabled \subseteq Upstreams
  /\ projectUpstreams \subseteq Upstreams
  /\ holds \subseteq Upstreams
  /\ failing \subseteq Upstreams
  /\ upload \in [pc : {"idle", "put", "row", "link"}, storage : Storages]
  /\ finalize \in [pc : {"idle", "placement", "head", "row", "link", "ask", "publish"},
                   storage : Storages, upstreams : SUBSET Upstreams,
                   found : Sources \cup {NoSource}]
  /\ request \in RequestStates
  /\ builds \in 0..MaxBuilds
  /\ changes \in 0..MaxChanges

HistoryTyped ==
  /\ relied \in Sources \cup {NoSource}
  /\ watch \in [steady : SUBSET Sources, seen : BOOLEAN, relying : BOOLEAN]

LEMMA TypeParts == TypeOK <=> WorldTyped /\ HistoryTyped
BY DEF TypeOK, WorldTyped, HistoryTyped, RequestStates

LEMMA IdleTyped == Idle \in RequestStates /\ Idle.pc = "idle" /\ Idle.answer = "none"
BY ReadingConstants DEF Idle, RequestStates, ReadPlaces, Views, Kinds

LEMMA AnswerTyped ==
  ASSUME NEW a \in Outcomes, Answer(a)
  PROVE  request' \in RequestStates /\ request'.pc = "idle" /\ request'.answer = a
BY IdleTyped DEF Answer, RequestStates

LEMMA GotoTyped ==
  ASSUME WorldTyped, NEW pc \in ReadPlaces, Goto(pc)
  PROVE  request' \in RequestStates
BY DEF WorldTyped, Goto, RequestStates

LEMMA ChangeTyped ==
  ASSUME WorldTyped, Change
  PROVE  changes' \in 0..MaxChanges
BY ReadingConstants DEF WorldTyped, Change

\* A step that only moves the request, and perhaps counts as a change.
LEMMA RequestMoves ==
  ASSUME WorldTyped, request' \in RequestStates, changes' \in 0..MaxChanges,
         UNCHANGED <<catalogVars, remoteVars, upload, finalize>>
  PROVE  WorldTyped'
BY DEF WorldTyped, catalogVars, remoteVars

LEMMA StartTyped ==
  ASSUME WorldTyped, NEW view \in Views, NEW kind \in Kinds, StartRequest(view, kind)
  PROVE  WorldTyped'
<1>1. request' \in RequestStates
  BY IdleTyped DEF StartRequest, RequestStates, ReadPlaces, Views, Kinds
<1> QED
  BY <1>1, RequestMoves DEF StartRequest, ReadUnchanged, WorldTyped

LEMMA ReadOnlyReads ==
  ASSUME ReadStep
  PROVE  UNCHANGED <<catalogVars, remoteVars, upload, finalize>>
BY DEF ReadStep, ResolveNarinfo, CheckVisible, ReadPlacement, ListRows, PassRow,
       FetchBlob, FetchBreaks, NoRowLeft, ListUpstreams, PassUpstream, FetchUpstream,
       UpstreamBreaks, NoUpstreamLeft, SignNarinfo, SigningBreaks, ReadUnchanged

LEMMA ReadTyped ==
  ASSUME WorldTyped, ReadStep
  PROVE  WorldTyped'
<1>1. request' \in RequestStates
  <2>1. CASE ResolveNarinfo
    BY <2>1, GotoTyped DEF ResolveNarinfo, ReadPlaces
  <2>2. CASE CheckVisible
    BY <2>2, GotoTyped DEF CheckVisible, ReadPlaces
  <2>3. CASE ReadPlacement
    BY <2>3, ReadingConstants
       DEF ReadPlacement, PreferredStorage, WorldTyped, RequestStates, ReadPlaces
  <2>4. CASE ListRows
    BY <2>4 DEF ListRows, LiveRows, WorldTyped, RequestStates, ReadPlaces
  <2>5. CASE PassRow
    BY <2>5 DEF PassRow, WorldTyped, RequestStates, ReadPlaces
  <2>6. CASE FetchBlob
    BY <2>6, AnswerTyped DEF FetchBlob, Outcomes
  <2>7. CASE FetchBreaks
    BY <2>7, AnswerTyped DEF FetchBreaks, Outcomes
  <2>8. CASE NoRowLeft
    BY <2>8, GotoTyped DEF NoRowLeft, ReadPlaces
  <2>9. CASE ListUpstreams
    BY <2>9 DEF ListUpstreams, UpstreamsForView, WorldTyped, RequestStates, ReadPlaces
  <2>10. CASE PassUpstream
    BY <2>10 DEF PassUpstream, WorldTyped, RequestStates, ReadPlaces
  <2>11. CASE FetchUpstream
    BY <2>11, GotoTyped, AnswerTyped DEF FetchUpstream, ReadPlaces, Outcomes
  <2>12. CASE UpstreamBreaks
    BY <2>12, AnswerTyped DEF UpstreamBreaks, Outcomes
  <2>13. CASE NoUpstreamLeft
    BY <2>13, AnswerTyped DEF NoUpstreamLeft, Outcomes
  <2>14. CASE SignNarinfo
    BY <2>14, AnswerTyped DEF SignNarinfo, Outcomes
  <2>15. CASE SigningBreaks
    BY <2>15, AnswerTyped DEF SigningBreaks, Outcomes
  <2> QED
    BY <2>1, <2>2, <2>3, <2>4, <2>5, <2>6, <2>7, <2>8, <2>9, <2>10, <2>11, <2>12, <2>13,
       <2>14, <2>15 DEF ReadStep
<1>2. UNCHANGED <<catalogVars, remoteVars, upload, finalize>>
  BY ReadOnlyReads
<1>3. changes' \in 0..MaxChanges
  <2>1. changes' = changes \/ Change
    BY DEF ReadStep, ResolveNarinfo, CheckVisible, ReadPlacement, ListRows, PassRow,
           FetchBlob, FetchBreaks, NoRowLeft, ListUpstreams, PassUpstream, FetchUpstream,
           UpstreamBreaks, NoUpstreamLeft, SignNarinfo, SigningBreaks, ReadUnchanged
  <2> QED
    BY <2>1, ChangeTyped DEF WorldTyped
<1> QED
  BY <1>1, <1>2, <1>3, RequestMoves
LEMMA NoFinalizeTyped ==
  /\ NoFinalize.pc = "idle" /\ NoFinalize.storage \in Storages
  /\ NoFinalize.found = NoSource
  /\ NoFinalize \in [pc : {"idle", "placement", "head", "row", "link", "ask", "publish"},
                     storage : Storages, upstreams : SUBSET Upstreams,
                     found : Sources \cup {NoSource}]
  /\ NoUpload \in [pc : {"idle", "put", "row", "link"}, storage : Storages]
BY ReadingConstants DEF NoFinalize, NoUpload

LEMMA PublishTyped ==
  ASSUME WorldTyped, PublishStep
  PROVE  WorldTyped'
<1> USE DEF WorldTyped, PublishUnchanged, remoteVars
<1>1. CASE BeginBuild
  BY <1>1, ReadingConstants DEF BeginBuild
<1>2. CASE ValidateUpload
  BY <1>2, ReadingConstants DEF ValidateUpload
<1>3. CASE PutBlob
  BY <1>3 DEF PutBlob
<1>4. CASE UpsertUploaded
  BY <1>4 DEF UpsertUploaded
<1>5. CASE LinkUploaded
  BY <1>5, NoFinalizeTyped DEF LinkUploaded
<1>6. CASE PersistBreaks
  BY <1>6, NoFinalizeTyped DEF PersistBreaks
<1>7. CASE FinalizeUpstreams
  BY <1>7, ReadingConstants DEF FinalizeUpstreams, NoFinalize, UpstreamsForView
<1>8. CASE FinalizePlacement
  BY <1>8, NoFinalizeTyped DEF FinalizePlacement
<1>9. CASE FinalizeHead
  BY <1>9, LocalOrNot DEF FinalizeHead, Sources, LocalSources
<1>10. CASE UpsertFound
  BY <1>10 DEF UpsertFound
<1>11. CASE LinkFound
  BY <1>11 DEF LinkFound
<1>12. CASE FinalizeAsk
  BY <1>12, NoFinalizeTyped DEF FinalizeAsk, Sources
<1>13. CASE Publish
  BY <1>13, NoFinalizeTyped DEF Publish
<1> QED
  BY <1>1, <1>2, <1>3, <1>4, <1>5, <1>6, <1>7, <1>8, <1>9, <1>10, <1>11, <1>12, <1>13
     DEF PublishStep

LEMMA CollectTyped ==
  ASSUME WorldTyped, CollectStep
  PROVE  WorldTyped'
<1> USE DEF WorldTyped, CollectUnchanged, remoteVars
<1>1. CASE MarkGarbage
  BY <1>1 DEF MarkGarbage
<1>2. CASE Revive
  BY <1>2 DEF Revive
<1>3. CASE ListCondemned
  BY <1>3 DEF ListCondemned
<1>4. CASE \E s \in Storages : DeleteBlob(s)
  BY <1>4 DEF DeleteBlob
<1>5. CASE DeleteRows
  BY <1>5 DEF DeleteRows
<1> QED
  BY <1>1, <1>2, <1>3, <1>4, <1>5 DEF CollectStep

LEMMA OutsideTyped ==
  ASSUME WorldTyped, ChangeStep
  PROVE  WorldTyped'
<1> USE DEF WorldTyped, ChangeUnchanged, remoteVars
<1>1. ASSUME NEW visibility \in BOOLEAN, NEW s \in Storages, UpsertProject(visibility, s)
      PROVE  WorldTyped'
  BY <1>1, ChangeTyped DEF UpsertProject
<1>2. ASSUME NEW scope \in Scopes, ChangePin(scope)
      PROVE  WorldTyped'
  BY <1>2, ChangeTyped DEF ChangePin
<1>3. CASE Supersede
  BY <1>3, ChangeTyped DEF Supersede
<1>4. ASSUME NEW u \in Upstreams, SetUpstreamEnabled(u)
      PROVE  WorldTyped'
  BY <1>4, ChangeTyped DEF SetUpstreamEnabled
<1>5. ASSUME NEW u \in Upstreams, LinkUpstream(u)
      PROVE  WorldTyped'
  BY <1>5, ChangeTyped DEF LinkUpstream
<1>6. ASSUME NEW u \in Upstreams, RemoteChanges(u)
      PROVE  WorldTyped'
  BY <1>6, ChangeTyped DEF RemoteChanges
<1>7. ASSUME NEW backends \in SUBSET Storages, Restart(backends)
      PROVE  WorldTyped'
  BY <1>7, ChangeTyped, IdleTyped, NoFinalizeTyped DEF Restart
<1> QED
  BY <1>1, <1>2, <1>3, <1>4, <1>5, <1>6, <1>7 DEF ChangeStep

LEMMA HistoryKept ==
  ASSUME TypeOK, WorldTyped', Remember
  PROVE  HistoryTyped'
<1>1. Good' \subseteq Sources
  BY DEF Good, GoodSources, Sources, LocalSources
<1>2. relied' \in Sources \cup {NoSource}
  BY DEF Remember, TypeOK
<1>3. /\ PathVisible(request.view)' \in BOOLEAN
      /\ watch.steady \subseteq Sources
      /\ watch.seen \in BOOLEAN
      /\ watch.relying \in BOOLEAN
  BY DEF TypeOK, WorldTyped, PathVisible
<1>4. watch' \in [steady : SUBSET Sources, seen : BOOLEAN, relying : BOOLEAN]
  BY <1>1, <1>3 DEF Remember, NoWatch, Good
<1> QED
  BY <1>2, <1>4 DEF HistoryTyped

LEMMA InitTyped == Init => TypeOK
<1> SUFFICES ASSUME Init
             PROVE  TypeOK
  OBVIOUS
<1>1. PICK c \in Settings : /\ configured = c.configured
                          /\ row = [s \in Storages |-> IF s \in c.stored THEN "live" ELSE "none"]
                          /\ blob = c.stored
                          /\ linked = (c.stored # {})
                          /\ placement = c.placement
                          /\ public = c.public
                          /\ projectUpstreams = c.projectUpstreams
                          /\ holds = c.holds
  BY DEF Init
<1>2. /\ configured \subseteq Storages /\ placement \in Storages /\ public \in BOOLEAN
      /\ blob \subseteq Storages /\ linked \in BOOLEAN
      /\ projectUpstreams \subseteq Upstreams /\ holds \subseteq Upstreams
  BY <1>1, ReadingConstants
<1>3. row \in [Storages -> {"none", "live", "tombstone"}]
  BY <1>1
<1>4. relied \in Sources \cup {NoSource}
  BY DEF Init
<1>5. watch \in [steady : SUBSET Sources, seen : BOOLEAN, relying : BOOLEAN]
  BY DEF Init, NoWatch
<1>6. builds \in 0..MaxBuilds /\ changes \in 0..MaxChanges
  BY ReadingConstants DEF Init
<1>7. WorldTyped
  BY <1>2, <1>3, <1>6, IdleTyped, NoFinalizeTyped DEF Init, WorldTyped
<1> QED
  BY <1>4, <1>5, <1>7, TypeParts DEF HistoryTyped

LEMMA NextTyped == TypeOK /\ [Next]_vars => TypeOK'
<1> SUFFICES ASSUME TypeOK, [Next]_vars
             PROVE  TypeOK'
  OBVIOUS
<1>1. WorldTyped
  BY TypeParts
<1>2. CASE Next
  <2>1. WorldTyped'
    BY <1>1, <1>2, StartTyped, ReadTyped, PublishTyped, CollectTyped, OutsideTyped DEF Next
  <2>2. HistoryTyped'
    BY <1>2, <2>1, HistoryKept DEF Next
  <2> QED
    BY <2>1, <2>2 DEF TypeOK, WorldTyped, HistoryTyped, RequestStates
<1>3. CASE UNCHANGED vars
  BY <1>3 DEF vars, catalogVars, remoteVars, TypeOK
<1> QED
  BY <1>2, <1>3
-----------------------------------------------------------------------------
(* The published build *)

LEMMA NextWorld ==
  ASSUME Next
  PROVE  /\ linked => linked'
         /\ published' /\ ~published =>
              finalize.pc = "publish" /\ finalize' = NoFinalize
         /\ \/ UNCHANGED <<linked, published, finalize>>
            \/ finalize' = NoFinalize
            \/ PublishStep
            \/ Supersede
<1>1. CASE \E view \in Views, kind \in Kinds : StartRequest(view, kind)
  BY <1>1 DEF StartRequest, ReadUnchanged, catalogVars
<1>2. CASE ReadStep
  BY <1>2, ReadOnlyReads DEF catalogVars
<1>3. CASE PublishStep
  BY <1>3 DEF PublishStep, BeginBuild, ValidateUpload, PutBlob, UpsertUploaded, LinkUploaded,
         PersistBreaks, FinalizeUpstreams, FinalizePlacement, FinalizeHead, UpsertFound,
         LinkFound, FinalizeAsk, Publish
<1>4. CASE CollectStep
  BY <1>4 DEF CollectStep, MarkGarbage, Revive, ListCondemned, DeleteBlob, DeleteRows,
         CollectUnchanged
<1>5. CASE ChangeStep
  BY <1>5 DEF ChangeStep, UpsertProject, ChangePin, Supersede, SetUpstreamEnabled, LinkUpstream,
         RemoteChanges, Restart, ChangeUnchanged
<1> QED
  BY <1>1, <1>2, <1>3, <1>4, <1>5 DEF Next

LEMMA FoundKept ==
  ASSUME TypeOK, FoundIsLinked, [Next]_vars
  PROVE  FoundIsLinked'
<1>1. CASE UNCHANGED vars
  BY <1>1 DEF vars, catalogVars, FoundIsLinked
<1>2. CASE Next /\ finalize' = NoFinalize
  BY <1>2, NoFinalizeTyped DEF FoundIsLinked
<1>3. CASE Next /\ UNCHANGED <<linked, published, finalize>>
  BY <1>3 DEF FoundIsLinked
<1>4. CASE Supersede
  BY <1>4 DEF Supersede, ChangeUnchanged, FoundIsLinked
<1>5. CASE PublishStep
  <2>1. CASE FinalizeAsk
    BY <2>1, LocalOrNot, NoFinalizeTyped DEF FinalizeAsk, FoundIsLinked, TypeOK
  <2>2. CASE FinalizeUpstreams
    BY <2>2, NoFinalizeTyped DEF FinalizeUpstreams, FoundIsLinked
  <2>3. CASE FinalizePlacement
    BY <2>3, NoFinalizeTyped DEF FinalizePlacement, FoundIsLinked, TypeOK
  <2>4. CASE FinalizeHead
    BY <2>4 DEF FinalizeHead, FoundIsLinked, TypeOK
  <2>5. CASE UpsertFound
    BY <2>5 DEF UpsertFound, FoundIsLinked, TypeOK
  <2>6. CASE LinkFound
    BY <2>6 DEF LinkFound, FoundIsLinked
  <2>7. CASE Publish
    BY <2>7, NoFinalizeTyped DEF Publish, FoundIsLinked
  <2>8. CASE \/ BeginBuild \/ ValidateUpload \/ PutBlob \/ UpsertUploaded \/ LinkUploaded
             \/ PersistBreaks
    BY <2>8 DEF BeginBuild, ValidateUpload, PutBlob, UpsertUploaded, LinkUploaded,
                PersistBreaks, FoundIsLinked
  <2> QED
    BY <1>5, <2>1, <2>2, <2>3, <2>4, <2>5, <2>6, <2>7, <2>8 DEF PublishStep
<1> QED
  BY <1>1, <1>2, <1>3, <1>4, <1>5, NextWorld

LEMMA NoSourceThere == NoSource \notin SourcesThere
BY SourcesDiffer DEF SourcesThere

LEMMA ReliedKept ==
  ASSUME FoundIsLinked, ReliedIsThere, [Next]_vars
  PROVE  ReliedIsThere'
<1>1. CASE UNCHANGED vars
  BY <1>1 DEF vars, catalogVars, remoteVars, ReliedIsThere, SourcesThere, Serves, Answers,
              UpstreamsForView
<1>2. CASE Next
  <2>1. CASE published' /\ ~published /\ finalize.found \in SourcesThere'
    <3>1. relied' = finalize.found
      BY <1>2, <2>1 DEF Next, Remember
    <3>2. finalize.pc = "publish" /\ (linked => linked')
      BY <1>2, <2>1, NextWorld
    <3> QED
      BY <2>1, <3>1, <3>2 DEF ReliedIsThere, FoundIsLinked
  <2>2. CASE /\ ~(published' /\ ~published /\ finalize.found \in SourcesThere')
             /\ published' /\ relied \in SourcesThere'
    <3>1. relied' = relied
      BY <1>2, <2>2 DEF Next, Remember
    <3>2. CASE relied # NoSource
      BY <1>2, <2>2, <3>1, <3>2, NextWorld DEF ReliedIsThere
    <3>3. CASE relied = NoSource
      BY <3>1, <3>3 DEF ReliedIsThere
    <3> QED
      BY <3>2, <3>3
  <2>3. CASE /\ ~(published' /\ ~published /\ finalize.found \in SourcesThere')
             /\ ~(published' /\ relied \in SourcesThere')
    <3>1. relied' = NoSource
      BY <1>2, <2>3 DEF Next, Remember
    <3> QED
      BY <3>1 DEF ReliedIsThere
  <2> QED
    BY <2>1, <2>2, <2>3
<1> QED
  BY <1>1, <1>2
-----------------------------------------------------------------------------
(* The request *)

\* Whatever else happens leaves the request alone, or loses it in a restart.
LEMMA OthersLeaveRequest ==
  ASSUME PublishStep \/ CollectStep \/ ChangeStep
  PROVE  request' = request \/ request' = Idle
<1>1. CASE PublishStep
  BY <1>1 DEF PublishStep, BeginBuild, ValidateUpload, PutBlob, UpsertUploaded, LinkUploaded,
         PersistBreaks, FinalizeUpstreams, FinalizePlacement, FinalizeHead, UpsertFound,
         LinkFound, FinalizeAsk, Publish, PublishUnchanged
<1>2. CASE CollectStep
  BY <1>2 DEF CollectStep, MarkGarbage, Revive, ListCondemned, DeleteBlob, DeleteRows,
         CollectUnchanged
<1>3. CASE ChangeStep
  BY <1>3 DEF ChangeStep, UpsertProject, ChangePin, Supersede, SetUpstreamEnabled, LinkUpstream,
         RemoteChanges, Restart
<1> QED
  BY <1>1, <1>2, <1>3

\* The history while a request runs.
LEMMA WatchGoesOn ==
  ASSUME TypeOK, Remember, ~At("idle"), request'.pc # "idle"
  PROVE  /\ watch'.steady = watch.steady \cap Good'
         /\ watch'.seen <=> watch.seen \/ PathVisible(request.view)'
         /\ watch'.relying <=> watch.relying /\ relied' = relied
BY DEF TypeOK, Remember, At, Good

LEMMA WatchBegins ==
  ASSUME Remember, At("idle"), request'.pc # "idle"
  PROVE  /\ watch'.steady = Good'
         /\ watch'.relying <=> relied # NoSource /\ request'.view = "project"
BY DEF Remember, At, Good

LEMMA IdleRequest ==
  ASSUME Remember, request'.pc = "idle"
  PROVE  SteadyIsAhead' /\ SeenIfLocal' /\ RelyingHasSource'
<1>1. watch' = NoWatch
  BY DEF Remember
<1>2. ~watch'.relying
  BY <1>1 DEF NoWatch
<1> QED
  BY <1>2 DEF SteadyIsAhead, SeenIfLocal, RelyingHasSource, At

LEMMA RequestStays ==
  ASSUME TypeOK, SteadyIsAhead, SeenIfLocal, Remember, request' = request
  PROVE  SteadyIsAhead' /\ SeenIfLocal'
<1>1. CASE request'.pc = "idle"
  BY <1>1, IdleRequest
<1>2. CASE request'.pc # "idle"
  BY <1>2, WatchGoesOn DEF SteadyIsAhead, SeenIfLocal, At
<1> QED
  BY <1>1, <1>2

LEMMA StartKeeps ==
  ASSUME Remember, NEW view \in Views, NEW kind \in Kinds, StartRequest(view, kind)
  PROVE  SteadyIsAhead' /\ SeenIfLocal'
<1>1. /\ request'.kind = kind
      /\ request'.pc = IF kind = "nar" THEN "visible" ELSE "resolve"
  BY DEF StartRequest, Idle
<1>2. watch'.steady = Good'
  BY <1>1, WatchBegins DEF StartRequest
<1> QED
  BY <1>1, <1>2 DEF SteadyIsAhead, SeenIfLocal, At, Kinds
\* Whatever could have answered all along is still ahead of each step of the code.
LEMMA ReadKeeps ==
  ASSUME TypeOK, SteadyIsAhead, SeenIfLocal, ReadStep, Remember
  PROVE  SteadyIsAhead' /\ SeenIfLocal'
<1>1. CASE request'.pc = "idle"
  BY <1>1, IdleRequest
<1>2. CASE request'.pc # "idle"
  <2> USE DEF At
  <2>1. request \in RequestStates /\ Storages \subseteq Nat
    BY ReadingConstants DEF TypeOK, RequestStates
  <2>2. ~At("idle")
    BY DEF ReadStep, ResolveNarinfo, CheckVisible, ReadPlacement, ListRows, PassRow,
           FetchBlob, FetchBreaks, NoRowLeft, ListUpstreams, PassUpstream, FetchUpstream,
           UpstreamBreaks, NoUpstreamLeft, SignNarinfo, SigningBreaks
  <2>3. /\ watch'.steady = watch.steady \cap Good'
        /\ watch'.seen <=> watch.seen \/ PathVisible(request.view)'
    BY <1>2, <2>2, WatchGoesOn
  <2>4. UNCHANGED <<catalogVars, remoteVars>>
    BY ReadOnlyReads
  <2>5. CASE ResolveNarinfo
    <3>1. /\ request.kind = "narinfo" /\ request'.kind = "narinfo"
          /\ request'.view = request.view
          /\ request'.pc = IF PathVisible(request.view) THEN "sign local" ELSE "upstreams"
      BY <2>1, <2>5 DEF ResolveNarinfo, Goto, RequestStates, SeenIfLocal
    <3>2. PathVisible(request.view)' <=> PathVisible(request.view)
      BY <2>4, <3>1 DEF PathVisible, catalogVars
    <3>3. request'.pc = "upstreams" => Good' \cap LocalSources = {}
      BY <3>1, <3>2, NothingLocal
    <3> QED
      BY <2>3, <3>1, <3>2, <3>3 DEF SteadyIsAhead, SeenIfLocal
  <2>6. CASE CheckVisible
    <3>1. /\ request.kind = "nar" /\ request'.kind = "nar"
          /\ request'.view = request.view
          /\ request'.pc = IF ObjectVisible(request.view) THEN "placement" ELSE "upstreams"
      BY <2>1, <2>6 DEF CheckVisible, Goto, RequestStates, SeenIfLocal
    <3>2. ObjectVisible(request.view)' <=> ObjectVisible(request.view)
      BY <2>4, <3>1 DEF PathVisible, ObjectVisible, catalogVars
    <3>3. request'.pc = "upstreams" => Good' \cap LocalSources = {}
      BY <3>1, <3>2, NothingLocal
    <3>4. request'.pc = "placement" => PathVisible(request.view)'
      BY <3>1, <3>2 DEF ObjectVisible
    <3> QED
      BY <2>3, <3>1, <3>3, <3>4 DEF SteadyIsAhead, SeenIfLocal
  <2>7. CASE ReadPlacement
    <3>1. request'.pc = "rows" /\ request'.kind = request.kind /\ request.pc = "placement"
      BY <2>1, <2>7 DEF ReadPlacement, RequestStates
    <3> QED
      BY <2>3, <3>1 DEF SteadyIsAhead, SeenIfLocal
  <2>8. CASE ListRows
    <3>1. /\ request'.pc = "fetch" /\ request'.kind = request.kind /\ request.pc = "rows"
          /\ request'.rows = LiveRows
      BY <2>1, <2>8 DEF ListRows, RequestStates
    <3>2. ASSUME NEW s \in Storages, Storage(s) \in Good'
          PROVE  s \in request'.rows
      BY <2>4, <3>1, <3>2, GoodStorage DEF Serves, LiveRows, catalogVars
    <3> QED
      BY <2>3, <3>1, <3>2 DEF SteadyIsAhead, SeenIfLocal
  <2>9. CASE PassRow
    <3>1. /\ request'.pc = "fetch" /\ request'.kind = request.kind /\ request.pc = "fetch"
          /\ request'.rows = request.rows \ {ThisRow}
          /\ ThisRow \notin configured \cap blob
      BY <2>1, <2>9 DEF PassRow, RequestStates
    <3>2. ASSUME NEW s \in Storages, Storage(s) \in Good'
          PROVE  s # ThisRow
      BY <2>4, <3>1, <3>2, GoodStorage DEF Serves, catalogVars
    <3> QED
      BY <2>3, <3>1, <3>2 DEF SteadyIsAhead, SeenIfLocal
  <2>10. CASE NoRowLeft
    <3>1. /\ request'.pc = "upstreams" /\ request.pc = "fetch" /\ request.rows = {}
          /\ request'.kind = request.kind
      BY <2>1, <2>10 DEF NoRowLeft, Goto, RequestStates
    <3>2. request.kind = "nar"
      BY <3>1 DEF SeenIfLocal
    <3>3. watch'.steady \cap LocalSources = {}
      <4>1. \A s \in Storages : Storage(s) \notin watch'.steady
        BY <2>3, <3>1 DEF SteadyIsAhead
      <4>2. Rows \notin watch'.steady
        BY <2>3, <3>1, <3>2, GoodRows
      <4> QED
        BY <4>1, <4>2 DEF LocalSources
    <3> QED
      BY <2>3, <3>1, <3>3 DEF SteadyIsAhead, SeenIfLocal
  <2>11. CASE ListUpstreams
    <3>1. /\ request'.pc = "ask" /\ request.pc = "upstreams"
          /\ request'.view = request.view
          /\ request'.upstreams = UpstreamsForView(request.view)
      BY <2>1, <2>11 DEF ListUpstreams, RequestStates
    <3>2. ASSUME NEW u \in Upstreams, Upstream(u) \in Good'
          PROVE  u \in request'.upstreams
      BY <2>4, <3>1, <3>2, GoodUpstream DEF Answers, UpstreamsForView, remoteVars
    <3> QED
      BY <2>3, <3>1, <3>2 DEF SteadyIsAhead, SeenIfLocal
  <2>12. CASE PassUpstream
    <3>1. /\ request'.pc = "ask" /\ request.pc = "ask"
          /\ request'.upstreams = request.upstreams \ {ThisUpstream}
          /\ ThisUpstream \notin holds
      BY <2>1, <2>12 DEF PassUpstream, RequestStates
    <3>2. ASSUME NEW u \in Upstreams, Upstream(u) \in Good'
          PROVE  u # ThisUpstream
      BY <2>4, <3>1, <3>2, GoodUpstream DEF Answers, remoteVars
    <3> QED
      BY <2>3, <3>1, <3>2 DEF SteadyIsAhead, SeenIfLocal
  <2>13. CASE FetchUpstream
    <3>1. request'.pc = "sign upstream" /\ request.pc = "ask"
      BY <1>2, <2>1, <2>13 DEF FetchUpstream, Goto, Answer, Idle, RequestStates
    <3> QED
      BY <2>3, <3>1 DEF SteadyIsAhead, SeenIfLocal
  <2>14. CASE \/ FetchBlob \/ FetchBreaks \/ UpstreamBreaks \/ NoUpstreamLeft \/ SignNarinfo
              \/ SigningBreaks
    <3>1. request'.pc = "idle"
      BY <2>14 DEF FetchBlob, FetchBreaks, UpstreamBreaks, NoUpstreamLeft, SignNarinfo,
                   SigningBreaks, Answer, Idle
    <3> QED
      BY <1>2, <3>1
  <2> QED
    BY <2>5, <2>6, <2>7, <2>8, <2>9, <2>10, <2>11, <2>12, <2>13, <2>14 DEF ReadStep
<1> QED
  BY <1>1, <1>2

LEMMA AheadKept ==
  ASSUME TypeOK, SteadyIsAhead, SeenIfLocal, [Next]_vars
  PROVE  SteadyIsAhead' /\ SeenIfLocal'
<1>1. CASE Next
  <2>1. Remember
    BY <1>1 DEF Next
  <2>2. CASE request' = request
    BY <2>1, <2>2, RequestStays
  <2>3. CASE request' = Idle
    BY <2>1, <2>3, IdleTyped, IdleRequest
  <2> QED
    BY <1>1, <2>1, <2>2, <2>3, StartKeeps, ReadKeeps, OthersLeaveRequest DEF Next
<1>2. CASE UNCHANGED vars
  BY <1>2 DEF vars, catalogVars, remoteVars, SteadyIsAhead, SeenIfLocal, At, Good, GoodSources,
              PathVisible, ObjectVisible, Serves, Answers, UpstreamsForView
<1> QED
  BY <1>1, <1>2
-----------------------------------------------------------------------------
(* What the published build relies on *)

\* A step that neither begins nor ends the request keeps its question.
LEMMA SameQuestion ==
  ASSUME TypeOK, Next, ~At("idle"), request'.pc # "idle"
  PROVE  request'.view = request.view /\ request'.kind = request.kind
<1>1. request \in RequestStates
  BY DEF TypeOK, RequestStates
<1>2. CASE ReadStep
  <2>1. CASE \/ FetchBlob \/ FetchBreaks \/ UpstreamBreaks \/ NoUpstreamLeft \/ SignNarinfo
             \/ SigningBreaks
    BY <2>1 DEF FetchBlob, FetchBreaks, UpstreamBreaks, NoUpstreamLeft, SignNarinfo,
                SigningBreaks, Answer, Idle
  <2>2. CASE ResolveNarinfo \/ CheckVisible \/ NoRowLeft
    BY <1>1, <2>2 DEF ResolveNarinfo, CheckVisible, NoRowLeft, Goto, RequestStates
  <2>3. CASE ReadPlacement \/ ListRows \/ PassRow
    BY <1>1, <2>3 DEF ReadPlacement, ListRows, PassRow, RequestStates
  <2>4. CASE ListUpstreams \/ PassUpstream
    BY <1>1, <2>4 DEF ListUpstreams, PassUpstream, RequestStates
  <2>5. CASE FetchUpstream
    BY <1>1, <2>5 DEF FetchUpstream, Goto, Answer, Idle, RequestStates
  <2> QED
    BY <1>2, <2>1, <2>2, <2>3, <2>4, <2>5 DEF ReadStep
<1>3. CASE \E view \in Views, kind \in Kinds : StartRequest(view, kind)
  BY <1>3 DEF StartRequest
<1> QED
  BY <1>2, <1>3, OthersLeaveRequest, IdleTyped DEF Next

LEMMA ReliableIsGood ==
  ASSUME WorldTyped', ReliedIsThere', relied' # NoSource, request'.view = "project"
  PROVE  Reliable' \in Good'
<1>1. PathVisible(request.view)' /\ relied' \in SourcesThere'
  BY DEF ReliedIsThere, PathVisible
<1>2. request'.kind \in Kinds
  BY DEF WorldTyped, RequestStates
<1>3. CASE \E s \in Storages : relied' = Storage(s) /\ Serves(s)'
  <2>1. relied' \in LocalSources /\ linked'
    BY <1>3, LocalOrNot DEF ReliedIsThere
  <2>2. CASE request'.kind = "narinfo"
    BY <1>1, <2>1, <2>2 DEF Reliable, Good, GoodSources
  <2>3. CASE request'.kind = "nar"
    BY <1>1, <1>3, <2>1, <2>3 DEF Reliable, Good, GoodSources, ObjectVisible
  <2> QED
    BY <1>2, <2>2, <2>3 DEF Kinds
<1>4. CASE \E u \in Upstreams : relied' = Upstream(u) /\ Answers(u, "project")'
  <2>1. relied' \notin LocalSources
    BY <1>4, LocalOrNot
  <2> QED
    BY <1>4, <2>1 DEF Reliable, Good, GoodSources, Answers, UpstreamsForView
<1> QED
  BY <1>1, <1>3, <1>4 DEF SourcesThere

LEMMA RelyingKept ==
  ASSUME TypeOK, TypeOK', ReliedIsThere, ReliedIsThere', RelyingHasSource, [Next]_vars
  PROVE  RelyingHasSource'
<1>1. CASE UNCHANGED vars
  BY <1>1 DEF vars, RelyingHasSource, Reliable
<1>2. CASE Next
  <2> SUFFICES ASSUME watch'.relying
               PROVE  /\ relied' # NoSource
                      /\ request'.view = "project"
                      /\ Reliable' \in watch'.steady
    BY DEF RelyingHasSource
  <2>1. Remember /\ WorldTyped'
    BY <1>2, TypeParts DEF Next, TypeOK, WorldTyped, RequestStates
  <2>2. request'.pc # "idle"
    <3>1. CASE request'.pc = "idle"
      <4>1. watch' = NoWatch
        BY <2>1, <3>1 DEF Remember
      <4> QED
        BY <4>1 DEF NoWatch
    <3> QED
      BY <3>1
  <2>3. CASE At("idle")
    <3>1. PICK view \in Views, kind \in Kinds : StartRequest(view, kind)
      BY <1>2, <2>2, <2>3, OthersLeaveRequest, IdleTyped
         DEF Next, At, ReadStep, ResolveNarinfo, CheckVisible, ReadPlacement, ListRows, PassRow,
             FetchBlob, FetchBreaks, NoRowLeft, ListUpstreams, PassUpstream, FetchUpstream,
             UpstreamBreaks, NoUpstreamLeft, SignNarinfo, SigningBreaks
    <3>2. /\ watch'.steady = Good'
          /\ relied # NoSource /\ request'.view = "project"
      BY <2>1, <2>2, <2>3, WatchBegins
    <3>3. published' = published /\ SourcesThere' = SourcesThere
      BY <3>1 DEF StartRequest, ReadUnchanged, catalogVars, remoteVars, SourcesThere, Serves,
                  Answers, UpstreamsForView
    <3>4. relied' = relied
      BY <2>1, <3>2, <3>3 DEF Remember, ReliedIsThere
    <3> QED
      BY <2>1, <3>2, <3>4, ReliableIsGood
  <2>4. CASE ~At("idle")
    <3>1. /\ watch'.steady = watch.steady \cap Good'
          /\ watch.relying /\ relied' = relied
      BY <2>1, <2>2, <2>4, WatchGoesOn
    <3>2. request'.view = request.view /\ request'.kind = request.kind
      BY <1>2, <2>2, <2>4, SameQuestion
    <3>3. /\ relied # NoSource /\ request.view = "project"
          /\ Reliable \in watch.steady /\ Reliable' = Reliable
      BY <3>1, <3>2 DEF RelyingHasSource, Reliable
    <3> QED
      BY <2>1, <3>1, <3>2, <3>3, ReliableIsGood
  <2> QED
    BY <2>3, <2>4
<1> QED
  BY <1>1, <1>2

-----------------------------------------------------------------------------
(* The theorems *)

LEMMA InitRead == Init => ReadInv
<1> SUFFICES ASSUME Init
             PROVE  ReadInv
  OBVIOUS
<1>1. FoundIsLinked
  BY NoFinalizeTyped DEF Init, FoundIsLinked
<1>2. ReliedIsThere
  BY DEF Init, ReliedIsThere
<1>3. request.pc = "idle" /\ ~watch.relying
  BY IdleTyped DEF Init, NoWatch
<1>4. SteadyIsAhead /\ SeenIfLocal /\ RelyingHasSource
  BY <1>3 DEF SteadyIsAhead, SeenIfLocal, RelyingHasSource, At
<1> QED
  BY <1>1, <1>2, <1>4, InitTyped DEF ReadInv

LEMMA NextRead == ReadInv /\ [Next]_vars => ReadInv'
BY NextTyped, FoundKept, ReliedKept, AheadKept, RelyingKept DEF ReadInv

\* The inductive invariant of the read service.
THEOREM ReadInductive == Spec => []ReadInv
BY InitRead, NextRead, PTL DEF Spec

\* Every state of the catalog, the backends and the requests has its type.
THEOREM ReadTypes == Spec => []TypeOK
<1>1. ReadInv => TypeOK
  BY DEF ReadInv
<1> QED
  BY <1>1, ReadInductive, PTL

\* An answer is given by a step of the request itself.
LEMMA AnsweredByRead ==
  ASSUME [Next]_vars, Answered
  PROVE  ReadStep
<1>1. request' # request /\ request' # Idle
  BY IdleTyped DEF Answered, AnsweredWith, At, Outcomes
<1>2. Next
  BY <1>1 DEF vars
<1>3. CASE \E view \in Views, kind \in Kinds : StartRequest(view, kind)
  BY <1>3 DEF StartRequest, Answered, AnsweredWith
<1> QED
  BY <1>1, <1>2, <1>3, OthersLeaveRequest DEF Next

\* Which step gives which answer.
LEMMA AnswerOf ==
  ASSUME TypeOK, [Next]_vars, Answered
  PROVE  /\ AnsweredWith({"missing"}) => NoUpstreamLeft
         /\ AnsweredWith({"local", "broken"}) \/ request.pc \in {"ask", "sign upstream"}
         /\ AnsweredWith({"local"}) => request.pc \in {"fetch", "sign local"}
<1>0. request \in RequestStates
  BY DEF TypeOK, RequestStates
<1>1. ReadStep
  BY AnsweredByRead
<1>2. CASE FetchBlob
  BY <1>2, AnswerTyped DEF FetchBlob, Answered, AnsweredWith, At, Outcomes
<1>3. CASE FetchBreaks
  BY <1>3, AnswerTyped DEF FetchBreaks, Answered, AnsweredWith, At, Outcomes
<1>4. CASE FetchUpstream
  <2>1. request.pc = "ask" /\ (request'.pc = "sign upstream" \/ Answer("upstream"))
    BY <1>0, <1>4 DEF FetchUpstream, Goto, At, RequestStates
  <2>2. request'.answer = "upstream"
    BY <2>1, AnswerTyped DEF Answered, AnsweredWith, Outcomes
  <2> QED
    BY <2>1, <2>2 DEF AnsweredWith
<1>5. CASE UpstreamBreaks
  BY <1>5, AnswerTyped DEF UpstreamBreaks, Answered, AnsweredWith, At, Outcomes
<1>6. CASE NoUpstreamLeft
  BY <1>6, AnswerTyped DEF NoUpstreamLeft, Answered, AnsweredWith, At, Outcomes
<1>7. CASE SignNarinfo
  BY <1>7, AnswerTyped DEF SignNarinfo, Answered, AnsweredWith, At, Outcomes
<1>8. CASE SigningBreaks
  BY <1>8, AnswerTyped DEF SigningBreaks, Answered, AnsweredWith, At, Outcomes
<1>9. CASE \/ ResolveNarinfo \/ CheckVisible \/ ReadPlacement \/ ListRows \/ PassRow
           \/ NoRowLeft \/ ListUpstreams \/ PassUpstream
  <2>1. request'.pc # "idle"
    <3>1. CASE ResolveNarinfo \/ CheckVisible \/ NoRowLeft
      BY <1>0, <3>1 DEF ResolveNarinfo, CheckVisible, NoRowLeft, Goto, RequestStates
    <3>2. CASE ReadPlacement \/ ListRows \/ PassRow
      BY <1>0, <3>2 DEF ReadPlacement, ListRows, PassRow, At, RequestStates
    <3>3. CASE ListUpstreams \/ PassUpstream
      BY <1>0, <3>3 DEF ListUpstreams, PassUpstream, At, RequestStates
    <3> QED
      BY <1>9, <3>1, <3>2, <3>3
  <2> QED
    BY <2>1 DEF Answered, AnsweredWith
<1> QED
  BY <1>1, <1>2, <1>3, <1>4, <1>5, <1>6, <1>7, <1>8, <1>9 DEF ReadStep
\* A source that is there from the beginning of a request to its end is found,
\* whatever happens to the rows, the blobs and the upstreams meanwhile.
THEOREM NotFoundSafe == Spec => NotFoundIsTrue
<1>1. ASSUME ReadInv, [Next]_vars, AnsweredWith({"missing"})
      PROVE  watch.steady = {}
  <2>1. At("ask") /\ request.upstreams = {}
    BY <1>1, AnswerOf DEF ReadInv, Answered, AnsweredWith, Outcomes, NoUpstreamLeft
  <2>2. /\ watch.steady \cap LocalSources = {}
        /\ \A u \in Upstreams : Upstream(u) \notin watch.steady
        /\ watch.steady \subseteq Sources
    BY <1>1, <2>1 DEF ReadInv, SteadyIsAhead, At, TypeOK
  <2> QED
    BY <2>2 DEF Sources
<1>2. ReadInv /\ [Next]_vars => [AnsweredWith({"missing"}) => watch.steady = {}]_vars
  BY <1>1
<1> QED
  BY <1>2, ReadInductive, PTL DEF Spec, NotFoundIsTrue

\* What the server itself could serve all along is served from there.
THEOREM LocalFirst == Spec => LocalComesFirst
<1>1. ASSUME ReadInv, [Next]_vars, Answered, watch.steady \cap LocalSources # {}
      PROVE  AnsweredWith({"local", "broken"})
  BY <1>1, AnswerOf DEF ReadInv, SteadyIsAhead
<1>2. ReadInv /\ [Next]_vars =>
        [Answered /\ watch.steady \cap LocalSources # {}
           => AnsweredWith({"local", "broken"})]_vars
  BY <1>1
<1> QED
  BY <1>2, ReadInductive, PTL DEF Spec, LocalComesFirst

\* Nothing is served from the catalog or a storage that the view did not hold at
\* any moment of the request.
THEOREM HiddenSafe == Spec => HiddenStaysHidden
<1>1. ASSUME ReadInv, [Next]_vars, AnsweredWith({"local"})
      PROVE  watch.seen
  BY <1>1, AnswerOf DEF ReadInv, SeenIfLocal, Answered, AnsweredWith, Outcomes
<1>2. ReadInv /\ [Next]_vars => [AnsweredWith({"local"}) => watch.seen]_vars
  BY <1>1
<1> QED
  BY <1>2, ReadInductive, PTL DEF Spec, HiddenStaysHidden

\* A published path is found as long as its object is where finalize_build found
\* it.
THEOREM PublishedFound == Spec => PublishedIsFound
<1>1. ASSUME ReadInv, [Next]_vars, AnsweredWith({"missing"})
      PROVE  ~watch.relying
  <2>1. At("ask") /\ request.upstreams = {}
    BY <1>1, AnswerOf DEF ReadInv, Answered, AnsweredWith, Outcomes, NoUpstreamLeft
  <2>2. watch.steady \cap LocalSources = {} /\ watch.steady \subseteq Sources
    BY <1>1, <2>1 DEF ReadInv, SteadyIsAhead, At, TypeOK
  <2>3. watch.steady = {}
    BY <1>1, <2>1, <2>2 DEF ReadInv, SteadyIsAhead, Sources
  <2> QED
    BY <1>1, <2>3 DEF ReadInv, RelyingHasSource
<1>2. ReadInv /\ [Next]_vars => [AnsweredWith({"missing"}) => ~watch.relying]_vars
  BY <1>1
<1> QED
  BY <1>2, ReadInductive, PTL DEF Spec, PublishedIsFound
=============================================================================
