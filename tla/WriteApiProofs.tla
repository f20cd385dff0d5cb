--------------------------- MODULE WriteApiProofs ---------------------------
(***************************************************************************)
(* The write API acts only for those who may, and does not refuse them,    *)
(* for any number of requests at once, any tables, keys and calls: the     *)
(* types, the inductive invariant ApiInv, and what follows from it.        *)
(***************************************************************************)
EXTENDS WriteApi, TLAPS

-----------------------------------------------------------------------------
(* One request moves *)

\* Request h becomes r, and the others stay.
Becomes(h, r) == request' = [request EXCEPT ![h] = r]

LEMMA BecomesFacts ==
  ASSUME TypeOK, NEW h \in Handlers, NEW r \in RequestStates, Becomes(h, r)
  PROVE  /\ request' \in [Handlers -> RequestStates]
         /\ request'[h] = r
         /\ \A g \in Handlers : g = h \/ request'[g] = request[g]
BY DEF TypeOK, Becomes

LEMMA GotoTyped ==
  ASSUME TypeOK, NEW h \in Handlers, NEW pc \in Places, Goto(h, pc)
  PROVE  request' \in [Handlers -> RequestStates]
BY DEF TypeOK, Goto, RequestStates

LEMMA AnsweredTyped ==
  ASSUME TypeOK, NEW h \in Handlers, NEW result \in Results
  PROVE  /\ Answered(h, result) \in RequestStates
         /\ [Answered(h, result) EXCEPT !.fault = TRUE] \in RequestStates
         /\ [Answered(h, result) EXCEPT !.found = rules[Call(h).project]].result = result
BY DEF TypeOK, Answered, Blank, RequestStates, Call, Places, Given

LEMMA AnswerTyped ==
  ASSUME TypeOK, NEW h \in Handlers, NEW result \in Results,
         Answer(h, result) \/ AnswerFault(h, result)
  PROVE  request' \in [Handlers -> RequestStates]
<1>1. \E r \in RequestStates : Becomes(h, r)
  BY AnsweredTyped DEF Answer, AnswerFault, Becomes
<1> QED
  BY <1>1, BecomesFacts

LEMMA RejectTyped ==
  ASSUME TypeOK, NEW h \in Handlers, NEW rejection \in Rejections, NEW pc \in Places,
         Reject(h, rejection, pc)
  PROVE  request' \in [Handlers -> RequestStates]
<1> DEFINE r == [request[h] EXCEPT !.rejections = @ \cup {rejection}, !.pc = pc]
<1>1. request[h] \in RequestStates
  BY DEF TypeOK
<1>2. r \in RequestStates
  BY <1>1 DEF RequestStates
<1>3. Becomes(h, r)
  BY DEF Becomes, Reject, TypeOK
<1> HIDE DEF r
<1> QED
  BY <1>2, <1>3, BecomesFacts

LEMMA IdentifyTyped ==
  ASSUME TypeOK, NEW h \in Handlers, NEW identity \in Identities, Identify(h, identity)
  PROVE  request' \in [Handlers -> RequestStates]
<1> DEFINE r == [request[h] EXCEPT !.identity = identity, !.pc = "authorize"]
<1>1. request[h] \in RequestStates
  BY DEF TypeOK
<1>2. r \in RequestStates
  BY <1>1 DEF RequestStates, Places
<1>3. Becomes(h, r)
  BY DEF Becomes, Identify, TypeOK
<1> HIDE DEF r
<1> QED
  BY <1>2, <1>3, BecomesFacts

LEMMA BlankTyped == Blank \in RequestStates
BY DEF Blank, RequestStates, Places, Identities, Results, Given

LEMMA VerdictKinds ==
  ASSUME NEW identity, NEW c
  PROVE  Verdict(identity, c) \in {"ok", "forbidden", "unauthorized"}
BY DEF Verdict, AuthorizeProjectRef, AuthorizeProject, AuthorizeAdmin, AuthorizeOidcProject,
       AuthorizeOidcProjectRef, AuthorizeTokenProject, AuthorizeTokenProjectRef

-----------------------------------------------------------------------------
(* Types *)

\* Who reads the rules of a policy has found the policy, which has rules
\* (get_project_retention_policy, delete_project_retention_policy).
PolicyHasItsRules ==
  /\ \A p \in Projects : policies[p] # NoPolicy => rules[p] # NoPolicy
  /\ \A h \in Handlers : At(h, "rules") =>
       /\ Call(h).op = "get_policy"
       /\ Call(h).project \in projects
       /\ rules[Call(h).project] # NoPolicy

LEMMA AuthenticationTyped ==
  ASSUME TypeOK, NEW h \in Handlers, AuthenticationStep(h)
  PROVE  request' \in [Handlers -> RequestStates]
<1>. USE DEF Places, Results, Rejections, Identities
<1>0. /\ request[h] \in RequestStates
      /\ cache \subseteq everPublished /\ published \subseteq everPublished
  BY DEF TypeOK, AccessTypeOK
<1>1. CASE ReadBuildContext(h)
  BY <1>1, GotoTyped, AnswerTyped DEF ReadBuildContext
<1>2. CASE CheckStaticToken(h)
  BY <1>2, IdentifyTyped, RejectTyped DEF CheckStaticToken, StaticToken
<1>3. CASE ReadCache(h)
  <2>1. CASE request' = [request EXCEPT ![h].fetched = cache, ![h].pc = "select"]
    <3>. DEFINE r == [request[h] EXCEPT !.fetched = cache, !.pc = "select"]
    <3>1. r \in RequestStates
      BY <1>0 DEF RequestStates
    <3>2. Becomes(h, r)
      BY <2>1 DEF Becomes, TypeOK
    <3>. HIDE DEF r
    <3>. QED
      BY <3>1, <3>2, BecomesFacts
  <2>2. \/ Reject(h, "missing", "token") \/ Reject(h, "invalid", "token") \/ Goto(h, "discovery")
        \/ request' = [request EXCEPT ![h].fetched = cache, ![h].pc = "select"]
    BY <1>3 DEF ReadCache
  <2>. QED
    BY <2>1, <2>2, RejectTyped, GotoTyped
<1>4. CASE FetchDiscovery(h)
  BY <1>4, GotoTyped DEF FetchDiscovery
<1>5. CASE FetchKeys(h)
  <2>. DEFINE r == [request[h] EXCEPT !.fetched = published, !.pc = "store"]
  <2>1. r \in RequestStates
    BY <1>0 DEF RequestStates
  <2>2. Becomes(h, r)
    BY <1>5 DEF FetchKeys, Becomes, TypeOK
  <2>. HIDE DEF r
  <2>. QED
    BY <2>1, <2>2, BecomesFacts
<1>6. CASE FetchFails(h)
  <2>. DEFINE r == [request[h] EXCEPT !.rejections = @ \cup {"unavailable"}, !.fault = TRUE,
                                      !.pc = "token"]
  <2>1. r \in RequestStates
    BY <1>0 DEF RequestStates
  <2>2. Becomes(h, r)
    BY <1>6 DEF FetchFails, Becomes, TypeOK
  <2>. HIDE DEF r
  <2>. QED
    BY <2>1, <2>2, BecomesFacts
<1>7. CASE StoreKeys(h)
  BY <1>7, GotoTyped DEF StoreKeys
<1>8. CASE SelectKey(h)
  <2>1. CASE request' = [request EXCEPT ![h].refreshed = TRUE, ![h].pc = "discovery"]
    <3>. DEFINE r == [request[h] EXCEPT !.refreshed = TRUE, !.pc = "discovery"]
    <3>1. r \in RequestStates
      BY <1>0 DEF RequestStates
    <3>2. Becomes(h, r)
      BY <2>1 DEF Becomes, TypeOK
    <3>. HIDE DEF r
    <3>. QED
      BY <3>1, <3>2, BecomesFacts
  <2>. QED
    BY <1>8, <2>1, IdentifyTyped, RejectTyped DEF SelectKey
<1>9. CASE LookUpToken(h)
  BY <1>9, IdentifyTyped, AnswerTyped DEF LookUpToken, RejectionStatus
<1>10. CASE Authorize(h)
  <2>1. Verdict(request[h].identity, Call(h)) \in Results
    BY VerdictKinds
  <2>2. Goto(h, "act") \/ Answer(h, Verdict(request[h].identity, Call(h)))
    BY <1>10 DEF Authorize
  <2>3. CASE Goto(h, "act")
    BY <2>3, GotoTyped DEF ActingPlaces
  <2>4. CASE Answer(h, Verdict(request[h].identity, Call(h)))
    <3>. DEFINE verdict == Verdict(request[h].identity, Call(h))
    <3>1. verdict \in Results /\ Answer(h, verdict)
      BY <2>1, <2>4
    <3>. HIDE DEF verdict
    <3>. QED
      BY <3>1, AnswerTyped
  <2>. QED
    BY <2>2, <2>3, <2>4
<1>. QED
  BY <1>1, <1>2, <1>3, <1>4, <1>5, <1>6, <1>7, <1>8, <1>9, <1>10 DEF AuthenticationStep

\* What a handler does for an authorized request ends it, or moves it on.
LEMMA ActingTyped ==
  ASSUME TypeOK, PolicyHasItsRules, NEW h \in Handlers, BuildStep(h) \/ AdminStep(h)
  PROVE  request' \in [Handlers -> RequestStates]
<1>. USE DEF Places, ActingPlaces, Results
<1>1. ASSUME NEW result \in Results, Answer(h, result)
      PROVE  request' \in [Handlers -> RequestStates]
  BY <1>1, AnswerTyped
<1>2. CASE BuildStep(h)
  BY <1>1, <1>2
     DEF BuildStep, BeginBuild, HandToIngest, RegisterPaths, UploadObject,
         PresignMultipartUploadPart, CompleteMultipartUpload, AbortMultipartUpload, FinalizeBuild
<1>3. CASE RunGc(h) \/ List(h) \/ RefuseBody(h) \/ CreatePin(h) \/ DeletePinByName(h)
  BY <1>1, <1>3 DEF RunGc, List, RefuseBody, CreatePin, DeletePinByName
<1>4. CASE \/ UpsertProjectOidcIdentity(h) \/ RemoveProjectOidcIdentity(h)
           \/ CreateAccessToken(h) \/ RevokeAccessToken(h)
  BY <1>1, <1>4 DEF UpsertProjectOidcIdentity, RemoveProjectOidcIdentity, CreateAccessToken,
                    RevokeAccessToken
<1>5. CASE UpsertProject(h) \/ EnsureProjectSigningKey(h)
  BY <1>1, <1>5, GotoTyped DEF UpsertProject, EnsureProjectSigningKey
<1>6. CASE GenerateProjectSigningKey(h) \/ ImportProjectSigningKey(h)
  BY <1>1, <1>6, GotoTyped DEF GenerateProjectSigningKey, ImportProjectSigningKey
<1>7. CASE CountSigningKeys(h)
  <2>1. CASE Exists(h)
    <3>. DEFINE r == [request[h] EXCEPT !.number = NextKeyNumber(Call(h).project), !.pc = "insert"]
    <3>1. NextKeyNumber(Call(h).project) \in Nat
      BY <2>1 DEF NextKeyNumber, TypeOK, AdminTypeOK, AccessTypeOK, Exists
    <3>2. r \in RequestStates
      <4>1. request[h] \in RequestStates
        BY DEF TypeOK
      <4>. QED
        BY <3>1, <4>1 DEF RequestStates
    <3>3. Becomes(h, r)
      BY <1>7, <2>1 DEF CountSigningKeys, Becomes, TypeOK
    <3>. HIDE DEF r
    <3>. QED
      BY <3>2, <3>3, BecomesFacts
  <2>2. CASE ~Exists(h)
    BY <1>1, <1>7, <2>2 DEF CountSigningKeys
  <2>. QED
    BY <2>1, <2>2
<1>8. CASE InsertSigningKey(h)
  BY <1>1, <1>8 DEF InsertSigningKey
<1>9. CASE GetProjectRetentionPolicy(h)
  BY <1>1, <1>9, GotoTyped DEF GetProjectRetentionPolicy
<1>10. CASE ReadRetentionRules(h)
  <2>. DEFINE r == [Answered(h, "ok") EXCEPT !.found = rules[Call(h).project]]
  <2>1. Call(h).project \in Projects
    BY <1>10 DEF ReadRetentionRules, PolicyHasItsRules, TypeOK, AccessTypeOK
  <2>2. rules[Call(h).project] \in Policies \cup {NoPolicy}
    BY <2>1 DEF TypeOK, AdminTypeOK
  <2>3. Answered(h, "ok") \in RequestStates
    BY AnsweredTyped
  <2>4. r \in RequestStates
    BY <2>2, <2>3 DEF RequestStates
  <2>5. Becomes(h, r)
    BY <1>10 DEF ReadRetentionRules, Becomes
  <2>. HIDE DEF r
  <2>. QED
    BY <2>4, <2>5, BecomesFacts
<1>11. CASE UpsertProjectRetentionPolicy(h) \/ DeleteProjectRetentionPolicy(h)
  BY <1>1, <1>11 DEF UpsertProjectRetentionPolicy, DeleteProjectRetentionPolicy
<1>12. CASE \/ UpsertUpstream(h) \/ SetUpstreamEnabled(h) \/ LinkProjectUpstream(h)
            \/ UnlinkProjectUpstream(h)
  BY <1>1, <1>12 DEF UpsertUpstream, SetUpstreamEnabled, LinkProjectUpstream,
                     UnlinkProjectUpstream
<1>. QED
  BY <1>2, <1>3, <1>4, <1>5, <1>6, <1>7, <1>8, <1>9, <1>10, <1>11, <1>12 DEF AdminStep

\* The tables after a request's step.
AuthenticationTables ==
  /\ UNCHANGED <<setting, now, projects, bindings, tokens, published, everPublished, reachable,
                 adminVars>>
  /\ cache' \in {cache} \cup {request[h].fetched : h \in Handlers}

LEMMA AuthenticationReads ==
  ASSUME NEW h \in Handlers, AuthenticationStep(h)
  PROVE  AuthenticationTables
<1>1. CASE StoreKeys(h)
  BY <1>1 DEF StoreKeys, AuthenticationTables
<1>2. CASE TablesUnchanged
  BY <1>2 DEF TablesUnchanged, accessVars, AuthenticationTables
<1>. QED
  BY <1>1, <1>2
     DEF AuthenticationStep, ReadBuildContext, CheckStaticToken, ReadCache, FetchDiscovery,
         FetchKeys, FetchFails, SelectKey, LookUpToken, Authorize

LEMMA CallTyped ==
  ASSUME TypeOK, NEW h \in Handlers, request[h].call.op # "none"
  PROVE  WellFormed(Call(h))
<1>1. request[h].call \in setting.calls \cup {NoCall}
  BY DEF TypeOK, RequestStates
<1>2. request[h].call \in setting.calls
  BY <1>1 DEF NoCall
<1>. QED
  BY <1>2, ApiConstants DEF TypeOK, Call

LEMMA AppendTyped ==
  ASSUME NEW S, NEW s \in Seq(S), NEW x \in S
  PROVE  Append(s, x) \in Seq(S)
OBVIOUS

\* What the statements and transactions leave of the tables.
LEMMA ActingTables ==
  ASSUME TypeOK, NEW h \in Handlers, BuildStep(h) \/ AdminStep(h)
  PROVE  /\ UNCHANGED <<setting, now, providerVars>>
         /\ AccessTypeOK'
         /\ AdminTypeOK'
<1>. USE DEF TypeOK, AccessTypeOK, AdminTypeOK, accessVars, adminVars, providerVars, Doing, At
<1>1. CASE TablesUnchanged
  BY <1>1 DEF TablesUnchanged
<1>2. CASE BeginBuild(h)
  <2>1. WellFormed(Call(h)) /\ Call(h).op = "begin"
    BY <1>2, CallTyped DEF BeginBuild, Call
  <2>2. CASE Exists(h)
    <3>1. [project |-> Call(h).project, ref |-> Call(h).ref] \in BuildRows
      BY <2>1, <2>2 DEF Exists, WellFormed, BuildRows
    <3>2. builds' = Append(builds, [project |-> Call(h).project, ref |-> Call(h).ref])
      BY <1>2, <2>2 DEF BeginBuild, InsertBuild
    <3>3. builds' \in Seq(BuildRows)
      BY <3>1, <3>2, AppendTyped
    <3>. QED
      BY <1>2, <3>3 DEF BeginBuild, OnlyBuilds
  <2>3. CASE ~Exists(h)
    BY <1>2, <2>3 DEF BeginBuild, OnlyBuilds
  <2>. QED
    BY <2>2, <2>3
<1>3. CASE CreatePin(h)
  <2>1. WellFormed(Call(h)) /\ Call(h).op = "create_pin"
    BY <1>3, CallTyped DEF CreatePin, Call
  <2>2. pins' \subseteq [scope : Projects \cup {Global}, name : PinNames]
    <3>1. [scope |-> Call(h).project, name |-> Call(h).name]
            \in [scope : Projects \cup {Global}, name : PinNames]
      BY <2>1 DEF WellFormed
    <3>. QED
      BY <1>3, <3>1 DEF CreatePin, UpsertPin
  <2>. QED
    BY <1>3, <2>2 DEF CreatePin, OnlyPins
<1>4. CASE DeletePinByName(h)
  BY <1>4 DEF DeletePinByName, DeletePin, OnlyPins
<1>5. CASE UpsertProjectOidcIdentity(h)
  <2>1. WellFormed(Call(h)) /\ Call(h).op = "bind"
    BY <1>5, CallTyped DEF UpsertProjectOidcIdentity, Call
  <2>2. bindings' \subseteq Bindings
    <3>1. NormalizedPatterns(Call(h).patterns) \subseteq Patterns \cup {Any}
      BY <2>1 DEF WellFormed, NormalizedPatterns
    <3>2. CASE Exists(h)
      <4>. DEFINE new == {[project |-> Call(h).project, repository |-> Call(h).repository,
                           pattern |-> p] : p \in NormalizedPatterns(Call(h).patterns)}
      <4>1. new \subseteq Bindings
        BY <2>1, <3>1, <3>2 DEF WellFormed, Exists, Bindings
      <4>2. bindings' = (bindings \ BoundTo(Call(h).project, Call(h).repository)) \cup new
        BY <1>5, <3>2 DEF UpsertProjectOidcIdentity, ReplaceProjectOidcIdentity
      <4>. QED
        BY <4>1, <4>2
    <3>3. CASE ~Exists(h)
      BY <1>5, <3>3 DEF UpsertProjectOidcIdentity
    <3>. QED
      BY <3>2, <3>3
  <2>. QED
    BY <1>5, <2>2 DEF UpsertProjectOidcIdentity, OnlyBindings
<1>6. CASE RemoveProjectOidcIdentity(h)
  BY <1>6 DEF RemoveProjectOidcIdentity, DeleteProjectOidcIdentity, OnlyBindings
<1>7. CASE CreateAccessToken(h)
  <2>1. WellFormed(Call(h)) /\ Call(h).op = "create_token"
    BY <1>7, CallTyped DEF CreateAccessToken, Call
  <2>2. tokens' \in Seq(AccessTokens)
    <3>1. CASE Exists(h)
      <4>. DEFINE new == [project |-> Call(h).project,
                          patterns |-> NormalizedPatterns(Call(h).patterns),
                          expires |-> Call(h).expires, offset |-> Call(h).offset, live |-> TRUE]
      <4>1. NormalizedPatterns(Call(h).patterns) \subseteq Patterns \cup {Any}
        BY <2>1 DEF WellFormed, NormalizedPatterns
      <4>2. new \in AccessTokens
        BY <2>1, <3>1, <4>1 DEF WellFormed, Exists, AccessTokens
      <4>3. tokens' = Append(tokens, new)
        BY <1>7, <3>1 DEF CreateAccessToken, InsertAccessToken
      <4>. HIDE DEF new
      <4>. QED
        BY <4>2, <4>3, AppendTyped
    <3>2. CASE ~Exists(h)
      BY <1>7, <3>2 DEF CreateAccessToken
    <3>. QED
      BY <3>1, <3>2
  <2>. QED
    BY <1>7, <2>2 DEF CreateAccessToken, OnlyTokens
<1>8. CASE RevokeAccessToken(h)
  <2>1. tokens' \in Seq(AccessTokens)
    <3>1. ASSUME NEW t \in DOMAIN tokens, RevokeToken(t)
          PROVE  tokens' \in Seq(AccessTokens)
      <4>1. [tokens[t] EXCEPT !.live = FALSE] \in AccessTokens
        <5>1. tokens[t] \in AccessTokens
          OBVIOUS
        <5>. QED
          BY <5>1 DEF AccessTokens
      <4>2. tokens' = [tokens EXCEPT ![t] = [tokens[t] EXCEPT !.live = FALSE]]
        BY <3>1 DEF RevokeToken
      <4>. QED
        BY <4>1, <4>2
    <3>. QED
      BY <1>8, <3>1 DEF RevokeAccessToken
  <2>. QED
    BY <1>8, <2>1 DEF RevokeAccessToken, OnlyTokens
<1>9. CASE UpsertProject(h)
  <2>1. WellFormed(Call(h)) /\ Call(h).op = "upsert_project"
    BY <1>9, CallTyped DEF UpsertProject, Call
  <2>2. projects' \subseteq Projects
    BY <1>9, <2>1 DEF UpsertProject, WellFormed, InsertProject
  <2>. QED
    BY <1>9, <2>2 DEF UpsertProject, OnlyProjects
<1>10. CASE InsertSigningKey(h)
  <2>1. keys' \in [Projects -> Seq([number : Nat, alone : BOOLEAN])]
    <3>1. CASE Exists(h)
      <4>1. Call(h).project \in Projects /\ request[h].number \in Nat
        BY <3>1 DEF Exists, RequestStates
      <4>2. alone[h] \in BOOLEAN
        OBVIOUS
      <4>3. [number |-> request[h].number, alone |-> alone[h]] \in [number : Nat, alone : BOOLEAN]
        BY <4>1, <4>2
      <4>4. keys' = [keys EXCEPT ![Call(h).project] =
                       Append(@, [number |-> request[h].number, alone |-> alone[h]])]
        BY <1>10, <3>1 DEF InsertSigningKey, ReplaceSigningKey
      <4>. QED
        BY <4>1, <4>3, <4>4, AppendTyped
    <3>. QED
      BY <1>10, <3>1 DEF InsertSigningKey
  <2>. QED
    BY <1>10, <2>1 DEF InsertSigningKey, OnlyKeys
<1>11. CASE UpsertProjectRetentionPolicy(h) \/ DeleteProjectRetentionPolicy(h)
  <2>1. Call(h).op = "put_policy" => Call(h).policy \in Policies
    BY CallTyped DEF Call, WellFormed
  <2>2. /\ policies' \in [Projects -> Policies \cup {NoPolicy}]
        /\ rules' \in [Projects -> Policies \cup {NoPolicy}]
    BY <1>11, <2>1 DEF UpsertProjectRetentionPolicy, DeleteProjectRetentionPolicy,
                       ReplaceRetentionPolicy, DeleteRetentionPolicy
  <2>. QED
    BY <1>11, <2>2 DEF UpsertProjectRetentionPolicy, DeleteProjectRetentionPolicy, OnlyPolicies
<1>12. CASE UpsertUpstream(h) \/ SetUpstreamEnabled(h)
  <2>1. upstreams' \in [UpstreamNames -> {"absent", "enabled", "disabled"}]
    BY <1>12 DEF UpsertUpstream, SetUpstreamEnabled, UpsertUpstreamByName,
                 UpdateUpstreamEnabled, Upserted
  <2>. QED
    BY <1>12, <2>1 DEF UpsertUpstream, SetUpstreamEnabled, OnlyUpstreams
<1>13. CASE LinkProjectUpstream(h)
  <2>1. WellFormed(Call(h)) /\ Call(h).op = "link"
    BY <1>13, CallTyped DEF LinkProjectUpstream, Call
  <2>2. links' \subseteq Projects \X UpstreamNames
    BY <1>13, <2>1 DEF LinkProjectUpstream, LinkUpstreamByName, Exists, WellFormed
  <2>. QED
    BY <1>13, <2>2 DEF LinkProjectUpstream, OnlyLinks
<1>14. CASE UnlinkProjectUpstream(h)
  BY <1>14 DEF UnlinkProjectUpstream, UnlinkUpstreamByName, OnlyLinks
<1>. QED
  BY <1>1, <1>2, <1>3, <1>4, <1>5, <1>6, <1>7, <1>8, <1>9, <1>10, <1>11, <1>12, <1>13, <1>14
     DEF BuildStep, AdminStep, HandToIngest, RegisterPaths, UploadObject,
         PresignMultipartUploadPart, CompleteMultipartUpload, AbortMultipartUpload, FinalizeBuild,
         RunGc, List, RefuseBody, EnsureProjectSigningKey, GenerateProjectSigningKey,
         ImportProjectSigningKey, CountSigningKeys, GetProjectRetentionPolicy,
         ReadRetentionRules

LEMMA RequestStatesGrow ==
  ASSUME setting' = setting, everPublished \subseteq everPublished'
  PROVE  RequestStates \subseteq RequestStates'
BY DEF RequestStates

\* Begin, and what happens around the requests, leave the tables that handlers write
\* and the projects' configuration.
EnvironmentTables ==
  /\ UNCHANGED <<setting, projects, bindings, tokens, adminVars>>
  /\ everPublished \subseteq everPublished'
  /\ cache' \in {cache, NoCache}

LEMMA EnvironmentReads ==
  ASSUME Environment \/ \E h \in Handlers, c \in setting.calls : Begin(h, c)
  PROVE  EnvironmentTables
<1>1. ASSUME NEW h \in Handlers, NEW c \in setting.calls, Begin(h, c)
      PROVE  EnvironmentTables
  BY <1>1 DEF Begin, EnvironmentTables, accessVars
<1>2. ASSUME NEW h \in Handlers, DatabaseFails(h)
      PROVE  EnvironmentTables
  BY <1>2 DEF DatabaseFails, EnvironmentTables, accessVars
<1>3. CASE Restart
  BY <1>3 DEF Restart, EnvironmentTables
<1>4. ASSUME NEW S, RotateKeys(S)
      PROVE  EnvironmentTables
  BY <1>4 DEF RotateKeys, EnvironmentTables
<1>5. CASE ProviderComesOrGoes \/ Tick
  BY <1>5 DEF ProviderComesOrGoes, Tick, EnvironmentTables, providerVars
<1>. QED
  BY <1>1, <1>2, <1>3, <1>4, <1>5 DEF Environment

LEMMA BeginTyped ==
  ASSUME TypeOK, NEW h \in Handlers, NEW c \in setting.calls, Begin(h, c)
  PROVE  request' \in [Handlers -> RequestStates]
<1>. DEFINE r == [Blank EXCEPT !.pc = IF c.op \in BuildOps THEN "context" ELSE "static",
                               !.call = c, !.keyed = HasKey(c)]
<1>1. HasKey(c) \in BOOLEAN
  BY DEF HasKey
<1>2. r \in RequestStates
  BY <1>1, BlankTyped DEF RequestStates, Places
<1>3. Becomes(h, r)
  BY DEF Begin, Becomes
<1>. HIDE DEF r
<1>. QED
  BY <1>2, <1>3, BecomesFacts

LEMMA EnvironmentTyped ==
  ASSUME TypeOK, Environment
  PROVE  /\ request' \in [Handlers -> RequestStates]
         /\ AccessTypeOK'
         /\ AdminTypeOK'
<1>1. request' \in [Handlers -> RequestStates]
  <2>1. ASSUME NEW h \in Handlers, DatabaseFails(h)
        PROVE  request' \in [Handlers -> RequestStates]
    BY <2>1, AnswerTyped DEF DatabaseFails, Results
  <2>2. CASE Restart
    BY <2>2, BlankTyped DEF Restart
  <2>3. CASE request' = request
    BY <2>3 DEF TypeOK
  <2>. QED
    BY <2>1, <2>2, <2>3 DEF Environment, RotateKeys, ProviderComesOrGoes, Tick
<1>2. AdminTypeOK'
  BY EnvironmentReads DEF EnvironmentTables, adminVars, TypeOK, AdminTypeOK
<1>3. AccessTypeOK'
  <2>1. ASSUME NEW h \in Handlers, DatabaseFails(h)
        PROVE  AccessTypeOK'
    BY <2>1 DEF DatabaseFails, accessVars, TypeOK, AccessTypeOK
  <2>2. CASE Restart
    BY <2>2 DEF Restart, NoCache, TypeOK, AccessTypeOK
  <2>3. ASSUME NEW S \in SUBSET KeyIds, RotateKeys(S)
        PROVE  AccessTypeOK'
    BY <2>3 DEF RotateKeys, TypeOK, AccessTypeOK
  <2>4. CASE ProviderComesOrGoes
    BY <2>4 DEF ProviderComesOrGoes, TypeOK, AccessTypeOK
  <2>5. CASE Tick
    BY <2>5 DEF Tick, providerVars, TypeOK, AccessTypeOK
  <2>. QED
    BY <2>1, <2>2, <2>3, <2>4, <2>5 DEF Environment
<1>. QED
  BY <1>1, <1>2, <1>3

LEMMA HistoryTyped ==
  ASSUME TypeOK, History
  PROVE  {everEntitled', alwaysEntitled', alone'} \subseteq [Handlers -> BOOLEAN]
<1>. USE DEF TypeOK, History
<1>1. everEntitled' \in [Handlers -> BOOLEAN]
  OBVIOUS
<1>2. alwaysEntitled' \in [Handlers -> BOOLEAN]
  OBVIOUS
<1>3. alone' \in [Handlers -> BOOLEAN]
  OBVIOUS
<1>. QED
  BY <1>1, <1>2, <1>3

LEMMA NextTyped ==
  ASSUME TypeOK, PolicyHasItsRules, [Next]_vars
  PROVE  TypeOK'
<1>1. CASE UNCHANGED vars
  BY <1>1 DEF vars, accessVars, adminVars, historyVars, TypeOK, AccessTypeOK, AdminTypeOK,
              RequestStates
<1>2. CASE Next
  <2>1. {everEntitled', alwaysEntitled', alone'} \subseteq [Handlers -> BOOLEAN]
    BY <1>2, HistoryTyped DEF Next
  <2>. DEFINE Typed == /\ setting' = setting
                       /\ everPublished \subseteq everPublished'
                       /\ request' \in [Handlers -> RequestStates]
                       /\ AccessTypeOK'
                       /\ AdminTypeOK'
  <2>2. Typed
    <3>1. ASSUME NEW h \in Handlers, NEW c \in setting.calls, Begin(h, c)
          PROVE  Typed
      BY <3>1, BeginTyped DEF Begin, accessVars, adminVars, TypeOK, AccessTypeOK, AdminTypeOK
    <3>2. ASSUME NEW h \in Handlers, AuthenticationStep(h)
          PROVE  Typed
      <4>1. AuthenticationTables /\ request' \in [Handlers -> RequestStates]
        BY <3>2, AuthenticationReads, AuthenticationTyped
      <4>2. cache' \subseteq everPublished'
        BY <4>1 DEF AuthenticationTables, TypeOK, AccessTypeOK, RequestStates
      <4>. QED
        BY <4>1, <4>2 DEF AuthenticationTables, adminVars, TypeOK, AccessTypeOK, AdminTypeOK
    <3>3. ASSUME NEW h \in Handlers, BuildStep(h) \/ AdminStep(h)
          PROVE  Typed
      BY <3>3, ActingTyped, ActingTables DEF providerVars
    <3>4. CASE Environment
      BY <3>4, EnvironmentTyped, EnvironmentReads DEF EnvironmentTables
    <3>. QED
      BY <1>2, <3>1, <3>2, <3>3, <3>4 DEF Next, HandlerStep
  <2>. QED
    BY <2>1, <2>2, RequestStatesGrow DEF TypeOK
<1>. QED
  BY <1>1, <1>2

-----------------------------------------------------------------------------
(* What every step leaves true *)

LEMMA WorldGrows ==
  ASSUME TypeOK, [Next]_vars
  PROVE  /\ setting' = setting
         /\ everPublished \subseteq everPublished'
         /\ projects \subseteq projects'
         /\ DOMAIN builds \subseteq DOMAIN builds'
         /\ \A b \in DOMAIN builds : builds'[b] = builds[b]
<1>. DEFINE Grown == /\ setting' = setting
                     /\ everPublished \subseteq everPublished'
                     /\ projects \subseteq projects'
                     /\ DOMAIN builds \subseteq DOMAIN builds'
                     /\ \A b \in DOMAIN builds : builds'[b] = builds[b]
<1>1. CASE UNCHANGED <<setting, everPublished, projects, builds>>
  BY <1>1
<1>2. ASSUME NEW h \in Handlers, BeginBuild(h)
      PROVE  Grown
  <2>1. setting' = setting /\ everPublished' = everPublished /\ projects' = projects
    BY <1>2 DEF BeginBuild, OnlyBuilds, accessVars
  <2>2. CASE Exists(h)
    <3>. DEFINE row == [project |-> Call(h).project, ref |-> Call(h).ref]
    <3>1. builds' = Append(builds, row)
      BY <1>2, <2>2 DEF BeginBuild, InsertBuild
    <3>. HIDE DEF row
    <3>. QED
      BY <2>1, <3>1 DEF TypeOK, AdminTypeOK
  <2>3. CASE ~Exists(h)
    BY <1>2, <2>1, <2>3 DEF BeginBuild
  <2>. QED
    BY <2>2, <2>3
<1>3. ASSUME NEW h \in Handlers, UpsertProject(h)
      PROVE  Grown
  BY <1>3 DEF UpsertProject, InsertProject, OnlyProjects, providerVars, adminVars
<1>4. ASSUME NEW h \in Handlers, AuthenticationStep(h)
      PROVE  Grown
  BY <1>4, AuthenticationReads DEF AuthenticationTables, adminVars
<1>5. ASSUME NEW h \in Handlers, AdminStep(h)
      PROVE  Grown
  <2>1. \/ UpsertProject(h)
        \/ UNCHANGED <<setting, everPublished, projects, builds>>
    BY <1>5
       DEF AdminStep, RunGc, List, RefuseBody, CreatePin, DeletePinByName,
           UpsertProjectOidcIdentity, RemoveProjectOidcIdentity, CreateAccessToken,
           RevokeAccessToken, EnsureProjectSigningKey, GenerateProjectSigningKey,
           ImportProjectSigningKey, CountSigningKeys, InsertSigningKey,
           GetProjectRetentionPolicy, ReadRetentionRules, UpsertProjectRetentionPolicy,
           DeleteProjectRetentionPolicy, UpsertUpstream, SetUpstreamEnabled,
           LinkProjectUpstream, UnlinkProjectUpstream, TablesUnchanged, OnlyBindings, OnlyTokens,
           OnlyKeys, OnlyPolicies, OnlyPins, OnlyUpstreams, OnlyLinks, accessVars, adminVars,
           providerVars
  <2>. QED
    BY <1>1, <1>3, <2>1
<1>6. ASSUME NEW h \in Handlers, BuildStep(h)
      PROVE  Grown
  BY <1>1, <1>2, <1>6
     DEF BuildStep, HandToIngest, RegisterPaths, UploadObject, PresignMultipartUploadPart,
         CompleteMultipartUpload, AbortMultipartUpload, FinalizeBuild, TablesUnchanged, accessVars,
         adminVars
<1>7. CASE Environment \/ \E h \in Handlers, c \in setting.calls : Begin(h, c)
  BY <1>7, EnvironmentReads DEF EnvironmentTables, adminVars
<1>8. CASE UNCHANGED vars
  BY <1>1, <1>8 DEF vars, accessVars, adminVars
<1>. QED
  BY <1>4, <1>5, <1>6, <1>7, <1>8 DEF Next, HandlerStep

\* A handler at work on an authorized request goes on with it or answers it.
LEMMA ActingMoves ==
  ASSUME TypeOK, NEW h \in Handlers, BuildStep(h) \/ AdminStep(h)
  PROVE  /\ request[h].pc \in ActingPlaces
         /\ \A g \in Handlers : g = h \/ request'[g] = request[g]
         /\ request'[h].pc \in ActingPlaces \cup {"done"}
         /\ request'[h].call = request[h].call
         /\ request'[h].identity = request[h].identity
         /\ request'[h].keyed = request[h].keyed
         /\ request'[h].pc # "done" => request'[h].result = request[h].result
         /\ request'[h].pc # "insert" =>
              \/ request'[h].number = Given
              \/ request[h].pc # "insert" /\ request'[h].number = request[h].number
         /\ request'[h].pc = "done" =>
              \/ request'[h].result \in {"ok", "bad", "missing"}
              \/ request'[h].result = "unavailable" /\ Call(h).op \in KeyOps /\ ~setting.encryption
<1>. DEFINE Moves == /\ \A g \in Handlers : g = h \/ request'[g] = request[g]
                     /\ request'[h].pc \in ActingPlaces \cup {"done"}
                     /\ request'[h].call = request[h].call
                     /\ request'[h].identity = request[h].identity
                     /\ request'[h].keyed = request[h].keyed
                     /\ request'[h].pc # "done" => request'[h].result = request[h].result
                     /\ request'[h].pc # "insert" =>
                          \/ request'[h].number = Given
                          \/ request[h].pc # "insert" /\ request'[h].number = request[h].number
                     /\ request'[h].pc = "done" =>
                          \/ request'[h].result \in {"ok", "bad", "missing"}
                          \/ /\ request'[h].result = "unavailable"
                             /\ Call(h).op \in KeyOps /\ ~setting.encryption
<1>0. request \in [Handlers -> RequestStates] /\ request[h] \in RequestStates
  BY DEF TypeOK
<1>1. ASSUME NEW result \in {"ok", "bad", "missing"}, Answer(h, result)
      PROVE  Moves
  BY <1>0, <1>1 DEF Answer, Answered, Blank, Call, Given
<1>2. ASSUME NEW pc \in ActingPlaces, Goto(h, pc), request[h].pc # "insert"
      PROVE  Moves
  BY <1>0, <1>2 DEF Goto, RequestStates, ActingPlaces
<1>3. ASSUME Answer(h, "unavailable"), Call(h).op \in KeyOps, ~setting.encryption
      PROVE  Moves
  BY <1>0, <1>3 DEF Answer, Answered, Blank, Call, Given
<1>4. CASE BuildStep(h)
  BY <1>1, <1>4
     DEF BuildStep, BeginBuild, HandToIngest, RegisterPaths, UploadObject,
         PresignMultipartUploadPart, CompleteMultipartUpload, AbortMultipartUpload, FinalizeBuild,
         Doing, At, ActingPlaces
<1>5. CASE RunGc(h) \/ List(h) \/ RefuseBody(h) \/ CreatePin(h) \/ DeletePinByName(h)
  BY <1>1, <1>5 DEF RunGc, List, RefuseBody, CreatePin, DeletePinByName, Doing, At, ActingPlaces
<1>6. CASE \/ UpsertProjectOidcIdentity(h) \/ RemoveProjectOidcIdentity(h)
           \/ CreateAccessToken(h) \/ RevokeAccessToken(h)
  BY <1>1, <1>6 DEF UpsertProjectOidcIdentity, RemoveProjectOidcIdentity, CreateAccessToken,
                    RevokeAccessToken, Doing, At, ActingPlaces
<1>7. CASE UpsertProject(h) \/ EnsureProjectSigningKey(h)
  BY <1>1, <1>2, <1>7 DEF UpsertProject, EnsureProjectSigningKey, Doing, At, ActingPlaces
<1>8. CASE GenerateProjectSigningKey(h) \/ ImportProjectSigningKey(h)
  BY <1>2, <1>3, <1>8 DEF GenerateProjectSigningKey, ImportProjectSigningKey, KeyOps, Doing, At,
                          ActingPlaces
<1>9. CASE CountSigningKeys(h)
  <2>1. CASE Exists(h)
    BY <1>0, <1>9, <2>1 DEF CountSigningKeys, At, ActingPlaces, RequestStates
  <2>2. CASE ~Exists(h)
    BY <1>1, <1>9, <2>2 DEF CountSigningKeys, At, ActingPlaces
  <2>. QED
    BY <2>1, <2>2
<1>10. CASE InsertSigningKey(h)
  BY <1>1, <1>10 DEF InsertSigningKey, At, ActingPlaces
<1>11. CASE GetProjectRetentionPolicy(h)
  BY <1>1, <1>2, <1>11 DEF GetProjectRetentionPolicy, Doing, At, ActingPlaces
<1>12. CASE ReadRetentionRules(h)
  BY <1>0, <1>12 DEF ReadRetentionRules, Answered, Blank, Call, Given, At, ActingPlaces
<1>13. CASE UpsertProjectRetentionPolicy(h) \/ DeleteProjectRetentionPolicy(h)
  BY <1>1, <1>13 DEF UpsertProjectRetentionPolicy, DeleteProjectRetentionPolicy, Doing, At,
                     ActingPlaces
<1>14. CASE \/ UpsertUpstream(h) \/ SetUpstreamEnabled(h) \/ LinkProjectUpstream(h)
            \/ UnlinkProjectUpstream(h)
  BY <1>1, <1>14 DEF UpsertUpstream, SetUpstreamEnabled, LinkProjectUpstream,
                     UnlinkProjectUpstream, Doing, At, ActingPlaces
<1>. QED
  BY <1>4, <1>5, <1>6, <1>7, <1>8, <1>9, <1>10, <1>11, <1>12, <1>13, <1>14 DEF AdminStep

-----------------------------------------------------------------------------
(* Who a request is from *)

LookingAtKeys == {"discovery", "jwks", "store", "select"}

\* What authenticate_headers has found out so far is true of the credential.
Evidence(h) ==
  /\ request[h].pc \in LookingAtKeys \cup {"oidc"} => setting.oidc
  /\ request[h].pc \in LookingAtKeys => Credential(h).kind = "oidc"
  /\ request[h].identity = "admin" => IsAdmin(Credential(h))
  /\ request[h].identity = "oidc" => HoldsIdentity(Credential(h), everPublished)
  /\ request[h].identity = "token" => Credential(h).kind = "token"
  /\ request[h].pc \in ActingPlaces \cup {"authorize"} => request[h].identity # "nobody"
  /\ request[h].pc \notin {"idle", "context", "done"} /\ Call(h).op \in BuildOps =>
       Call(h).build \in DOMAIN builds
  /\ request[h].pc # "done" => request[h].result = "none"
  /\ request[h].pc # "insert" => request[h].number = Given

LEMMA EvidenceOfSame ==
  ASSUME TypeOK, [Next]_vars, NEW h \in Handlers, Evidence(h),
         \/ request'[h] = request[h]
         \/ /\ request'[h].call = request[h].call
            /\ request'[h].identity = request[h].identity
            /\ request'[h].pc = "done"
            /\ request'[h].number = Given
         \/ /\ BuildStep(h) \/ AdminStep(h)
  PROVE  Evidence(h)'
<1>1. /\ setting' = setting
      /\ everPublished \subseteq everPublished'
      /\ DOMAIN builds \subseteq DOMAIN builds'
  BY WorldGrows
<1>2. HoldsIdentity(Credential(h), everPublished) /\ request'[h].call = request[h].call =>
        HoldsIdentity(Credential(h), everPublished)'
  BY <1>1 DEF HoldsIdentity, Credential, Call
<1>3. CASE request'[h] = request[h]
  BY <1>1, <1>2, <1>3 DEF Evidence, IsAdmin, Credential, Call
<1>4. CASE /\ request'[h].call = request[h].call
           /\ request'[h].identity = request[h].identity
           /\ request'[h].pc = "done"
           /\ request'[h].number = Given
  BY <1>1, <1>2, <1>4
     DEF Evidence, IsAdmin, Credential, Call, LookingAtKeys, ActingPlaces
<1>5. CASE BuildStep(h) \/ AdminStep(h)
  <2>1. /\ request[h].pc \in ActingPlaces
        /\ request'[h].pc \in ActingPlaces \cup {"done"}
        /\ request'[h].call = request[h].call
        /\ request'[h].identity = request[h].identity
        /\ request'[h].pc # "done" => request'[h].result = request[h].result
        /\ request'[h].pc # "insert" =>
             \/ request'[h].number = Given
             \/ request[h].pc # "insert" /\ request'[h].number = request[h].number
    BY <1>5, ActingMoves
  <2>. QED
    BY <1>1, <1>2, <2>1 DEF Evidence, IsAdmin, Credential, Call, LookingAtKeys, ActingPlaces
<1>. QED
  BY <1>3, <1>4, <1>5

\* A step of the authentication or the authorization, seen from outside.
LEMMA AuthenticationMoves ==
  ASSUME TypeOK, NEW h \in Handlers, AuthenticationStep(h)
  PROVE  /\ request[h].pc \notin ActingPlaces \cup {"idle", "done"}
         /\ \A g \in Handlers : g = h \/ request'[g] = request[g]
         /\ request'[h].call = request[h].call
         /\ request'[h].keyed = request[h].keyed
         /\ request'[h].number \in {Given, request[h].number}
         /\ request'[h].pc \in ActingPlaces => Authorize(h) /\ request'[h].pc = "act"
         /\ request'[h].pc = "done" \/ request'[h].result = request[h].result
         /\ request'[h].result \notin {"ok", "missing"} \/ request'[h].result = request[h].result
<1>. DEFINE Moves == /\ \A g \in Handlers : g = h \/ request'[g] = request[g]
                     /\ request'[h].call = request[h].call
                     /\ request'[h].keyed = request[h].keyed
                     /\ request'[h].number \in {Given, request[h].number}
                     /\ request'[h].pc \in ActingPlaces => Authorize(h) /\ request'[h].pc = "act"
                     /\ request'[h].pc = "done" \/ request'[h].result = request[h].result
                     /\ \/ request'[h].result \notin {"ok", "missing"}
                        \/ request'[h].result = request[h].result
<1>0. request \in [Handlers -> RequestStates] /\ request[h] \in RequestStates
  BY DEF TypeOK
<1>1. ASSUME NEW result \in {"bad", "unauthorized", "forbidden", "unavailable"}, Answer(h, result)
      PROVE  Moves
  BY <1>0, <1>1 DEF Answer, Answered, Blank, Call, Given, ActingPlaces
<1>2. ASSUME NEW pc \in Places \ ActingPlaces, Goto(h, pc)
      PROVE  Moves
  BY <1>0, <1>2 DEF Goto, RequestStates
<1>3. ASSUME NEW rejection, NEW pc \in {"oidc", "token"}, Reject(h, rejection, pc)
      PROVE  Moves
  BY <1>0, <1>3 DEF Reject, RequestStates, ActingPlaces
<1>4. ASSUME NEW identity, Identify(h, identity)
      PROVE  Moves
  BY <1>0, <1>4 DEF Identify, RequestStates, ActingPlaces
<1>5. CASE ReadBuildContext(h)
  BY <1>1, <1>2, <1>5 DEF ReadBuildContext, At, Places, ActingPlaces
<1>6. CASE CheckStaticToken(h)
  BY <1>3, <1>4, <1>6 DEF CheckStaticToken, At, ActingPlaces
<1>7. CASE ReadCache(h)
  <2>1. CASE request' = [request EXCEPT ![h].fetched = cache, ![h].pc = "select"]
    BY <1>0, <1>7, <2>1 DEF ReadCache, At, RequestStates, ActingPlaces
  <2>. QED
    BY <1>2, <1>3, <1>7, <2>1 DEF ReadCache, At, Places, ActingPlaces
<1>8. CASE FetchDiscovery(h)
  BY <1>2, <1>8 DEF FetchDiscovery, At, Places, ActingPlaces
<1>9. CASE FetchKeys(h)
  BY <1>0, <1>9 DEF FetchKeys, At, RequestStates, ActingPlaces
<1>10. CASE FetchFails(h)
  BY <1>0, <1>10 DEF FetchFails, RequestStates, ActingPlaces
<1>11. CASE StoreKeys(h)
  BY <1>2, <1>11 DEF StoreKeys, At, Places, ActingPlaces
<1>12. CASE SelectKey(h)
  <2>1. CASE request' = [request EXCEPT ![h].refreshed = TRUE, ![h].pc = "discovery"]
    BY <1>0, <1>12, <2>1 DEF SelectKey, At, RequestStates, ActingPlaces
  <2>. QED
    BY <1>3, <1>4, <1>12, <2>1 DEF SelectKey, At, ActingPlaces
<1>13. CASE LookUpToken(h)
  <2>1. \A rejection : RejectionStatus(rejection) \in {"unauthorized", "unavailable"}
    BY DEF RejectionStatus
  <2>2. Identify(h, "token")
          \/ \E result \in {"unauthorized", "unavailable"} : Answer(h, result)
    BY <1>13, <2>1 DEF LookUpToken
  <2>. QED
    BY <1>1, <1>4, <1>13, <2>2 DEF LookUpToken, At, ActingPlaces
<1>14. CASE Authorize(h)
  <2>. DEFINE verdict == Verdict(request[h].identity, Call(h))
  <2>1. verdict \in {"ok", "forbidden", "unauthorized"}
    BY VerdictKinds
  <2>2. At(h, "authorize") /\ IF verdict = "ok" THEN Goto(h, "act") ELSE Answer(h, verdict)
    BY <1>14 DEF Authorize
  <2>. HIDE DEF verdict
  <2>3. CASE Goto(h, "act")
    BY <1>0, <1>14, <2>2, <2>3 DEF Goto, At, RequestStates, ActingPlaces
  <2>4. CASE Answer(h, verdict) /\ verdict # "ok"
    BY <1>1, <2>1, <2>2, <2>4 DEF At, ActingPlaces
  <2>. QED
    BY <2>2, <2>3, <2>4
<1>. QED
  BY <1>5, <1>6, <1>7, <1>8, <1>9, <1>10, <1>11, <1>12, <1>13, <1>14 DEF AuthenticationStep

LEMMA EvidenceFound ==
  ASSUME TypeOK, [Next]_vars, NEW h \in Handlers, Evidence(h), AuthenticationStep(h)
  PROVE  Evidence(h)'
<1>0. request \in [Handlers -> RequestStates] /\ request[h] \in RequestStates
  BY DEF TypeOK
<1>a. request[h].pc \notin ActingPlaces \cup {"idle", "done"}
  BY AuthenticationMoves
<1>w. /\ setting' = setting
      /\ everPublished \subseteq everPublished'
      /\ DOMAIN builds \subseteq DOMAIN builds'
  BY WorldGrows
<1>k. HoldsIdentity(Credential(h), everPublished) /\ request'[h].call = request[h].call =>
        HoldsIdentity(Credential(h), everPublished)'
  BY <1>w DEF HoldsIdentity, Credential, Call
<1>. USE DEF Evidence, LookingAtKeys, ActingPlaces, At
<1>1. ASSUME NEW result, Answer(h, result)
      PROVE  Evidence(h)'
  <2>1. /\ request'[h].call = request[h].call
        /\ request'[h].identity = request[h].identity
        /\ request'[h].pc = "done"
        /\ request'[h].number = Given
    BY <1>0, <1>1 DEF Answer, Answered, Blank, Call
  <2>. QED
    BY <2>1, EvidenceOfSame
<1>2. ASSUME NEW pc, Goto(h, pc),
             pc \in LookingAtKeys => setting.oidc /\ Credential(h).kind = "oidc",
             pc = "act" => request[h].pc = "authorize",
             pc \in LookingAtKeys \cup {"static", "act"},
             request[h].pc = "context" => pc = "static" /\ Call(h).build \in DOMAIN builds
      PROVE  Evidence(h)'
  BY <1>0, <1>2, <1>a, <1>w, <1>k DEF Goto, RequestStates, IsAdmin, Credential, Call
<1>3. ASSUME NEW rejection, NEW pc \in {"oidc", "token"}, Reject(h, rejection, pc),
             pc = "oidc" => setting.oidc,
             request[h].pc # "context"
      PROVE  Evidence(h)'
  BY <1>0, <1>3, <1>a, <1>w, <1>k DEF Reject, RequestStates, IsAdmin, Credential, Call
<1>4. ASSUME NEW identity \in Identities \ {"nobody"}, Identify(h, identity),
             identity = "admin" => IsAdmin(Credential(h)),
             identity = "oidc" => HoldsIdentity(Credential(h), everPublished),
             identity = "token" => Credential(h).kind = "token",
             request[h].pc # "context"
      PROVE  Evidence(h)'
  BY <1>0, <1>4, <1>a, <1>w, <1>k DEF Identify, RequestStates, IsAdmin, Credential, Call
<1>5. CASE ReadBuildContext(h)
  BY <1>1, <1>2, <1>5 DEF ReadBuildContext
<1>6. CASE CheckStaticToken(h)
  BY <1>3, <1>4, <1>6 DEF CheckStaticToken, StaticToken, IsAdmin, Identities
<1>7. CASE ReadCache(h)
  <2>1. CASE /\ request' = [request EXCEPT ![h].fetched = cache, ![h].pc = "select"]
             /\ Credential(h).kind = "oidc"
    BY <1>0, <1>7, <2>1, <1>w, <1>k DEF ReadCache, RequestStates, IsAdmin, Credential, Call
  <2>2. \/ Reject(h, "missing", "token")
        \/ Reject(h, "invalid", "token")
        \/ Credential(h).kind = "oidc" /\ Goto(h, "discovery")
        \/ /\ request' = [request EXCEPT ![h].fetched = cache, ![h].pc = "select"]
           /\ Credential(h).kind = "oidc"
    BY <1>7 DEF ReadCache
  <2>. QED
    BY <1>2, <1>3, <1>7, <2>1, <2>2 DEF ReadCache
<1>8. CASE FetchDiscovery(h)
  BY <1>2, <1>8 DEF FetchDiscovery
<1>9. CASE FetchKeys(h)
  BY <1>0, <1>9, <1>a, <1>w, <1>k DEF FetchKeys, RequestStates, IsAdmin, Credential, Call
<1>10. CASE FetchFails(h)
  BY <1>0, <1>10, <1>a, <1>w, <1>k DEF FetchFails, RequestStates, IsAdmin, Credential, Call
<1>11. CASE StoreKeys(h)
  BY <1>2, <1>11 DEF StoreKeys
<1>12. CASE SelectKey(h)
  <2>1. CASE request' = [request EXCEPT ![h].refreshed = TRUE, ![h].pc = "discovery"]
    BY <1>0, <1>12, <2>1, <1>w, <1>k DEF SelectKey, RequestStates, IsAdmin, Credential, Call
  <2>2. CASE Identify(h, "oidc") /\ Credential(h).key \in request[h].fetched
               /\ OidcTokenValid(Credential(h))
    <3>1. HoldsIdentity(Credential(h), everPublished)
      BY <1>0, <1>12, <2>2 DEF SelectKey, HoldsIdentity, OidcTokenValid, RequestStates
    <3>. QED
      BY <1>4, <1>12, <2>2, <3>1 DEF SelectKey, Identities
  <2>. QED
    BY <1>3, <1>12, <2>1, <2>2 DEF SelectKey
<1>13. CASE LookUpToken(h)
  <2>1. \/ Credential(h).kind = "token" /\ Identify(h, "token")
        \/ \E result : Answer(h, result)
    BY <1>13 DEF LookUpToken
  <2>. QED
    BY <1>1, <1>4, <1>13, <2>1 DEF LookUpToken, Identities
<1>14. CASE Authorize(h)
  BY <1>1, <1>2, <1>14 DEF Authorize
<1>. QED
  BY <1>5, <1>6, <1>7, <1>8, <1>9, <1>10, <1>11, <1>12, <1>13, <1>14 DEF AuthenticationStep

\* A request goes on by its own steps only, or is ended by what happens around it.
LEMMA StepsOfRequest ==
  ASSUME TypeOK, [Next]_vars, NEW h \in Handlers
  PROVE  \/ request'[h] = request[h]
         \/ \E c \in setting.calls : Begin(h, c)
         \/ AuthenticationStep(h)
         \/ BuildStep(h) \/ AdminStep(h)
         \/ DatabaseFails(h)
         \/ Restart
<1>0. request \in [Handlers -> RequestStates] /\ request[h] \in RequestStates
  BY DEF TypeOK
<1>1. ASSUME NEW g \in Handlers, g # h,
             (\E c \in setting.calls : Begin(g, c)) \/ HandlerStep(g) \/ DatabaseFails(g)
      PROVE  request'[h] = request[h]
  <2>1. ASSUME NEW c, Begin(g, c)
        PROVE  request'[h] = request[h]
    <3>1. \E r : request' = [request EXCEPT ![g] = r]
      BY <2>1 DEF Begin
    <3>. QED
      BY <1>0, <1>1, <3>1
  <2>2. CASE AuthenticationStep(g)
    BY <1>1, <2>2, AuthenticationMoves
  <2>3. CASE BuildStep(g) \/ AdminStep(g)
    BY <1>1, <2>3, ActingMoves
  <2>4. CASE DatabaseFails(g)
    BY <1>0, <1>1, <2>4 DEF DatabaseFails, AnswerFault
  <2>. QED
    BY <1>1, <2>1, <2>2, <2>3, <2>4 DEF HandlerStep
<1>2. CASE UNCHANGED vars \/ (\E S : RotateKeys(S)) \/ ProviderComesOrGoes \/ Tick
  BY <1>2 DEF vars, RotateKeys, ProviderComesOrGoes, Tick
<1>. QED
  BY <1>1, <1>2 DEF Next, HandlerStep, Environment

\* A new request starts from nothing.
LEMMA EvidenceKept ==
  ASSUME TypeOK, [Next]_vars, NEW h \in Handlers, Evidence(h)
  PROVE  Evidence(h)'
<1>0. request \in [Handlers -> RequestStates] /\ request[h] \in RequestStates
  BY DEF TypeOK
<1>1. CASE request'[h] = request[h]
  BY <1>1, EvidenceOfSame
<1>2. ASSUME NEW c, Begin(h, c)
      PROVE  Evidence(h)'
  BY <1>0, <1>2 DEF Begin, Blank, Evidence, LookingAtKeys, ActingPlaces, Call, Credential, Given
<1>3. CASE Restart
  BY <1>3 DEF Restart, Blank, NoCall, Evidence, LookingAtKeys, ActingPlaces, Call, Credential, Given
<1>4. CASE DatabaseFails(h)
  <2>1. \E result : AnswerFault(h, result)
    BY <1>4 DEF DatabaseFails
  <2>2. /\ request'[h].call = request[h].call
        /\ request'[h].identity = request[h].identity
        /\ request'[h].pc = "done"
        /\ request'[h].number = Given
    BY <1>0, <2>1 DEF AnswerFault, Answered, Blank, Call
  <2>. QED
    BY <2>2, EvidenceOfSame
<1>5. CASE BuildStep(h) \/ AdminStep(h)
  BY <1>5, EvidenceOfSame
<1>6. CASE AuthenticationStep(h)
  BY <1>6, EvidenceFound
<1>. QED
  BY <1>1, <1>2, <1>3, <1>4, <1>5, <1>6, StepsOfRequest

-----------------------------------------------------------------------------
(* What a request does, its credential entitled it to *)

\* No client writes the expiry date of an access token east of UTC: one that is counts
\* as that much later (ApiExpectations).
NoDatesEast ==
  \A s \in Settings :
    /\ \A t \in DOMAIN s.tokens : s.tokens[t].offset <= 0
    /\ \A c \in s.calls : c.op = "create_token" => c.offset <= 0

NoTokensEast == \A t \in DOMAIN tokens : tokens[t].offset <= 0

\* list_active_access_tokens finds a token that is not expired and whose date does not
\* read past, and, if no date is written east of UTC, none that is expired.
LEMMA ActiveIsGood ==
  ASSUME TypeOK, NEW t
  PROVE  /\ t \in DOMAIN tokens /\ tokens[t].live /\ ~Expired(tokens[t]) /\ ~ReadsPast(tokens[t]) =>
              ListActiveTokens(t) # {}
         /\ NoTokensEast /\ ListActiveTokens(t) # {} =>
              t \in DOMAIN tokens /\ tokens[t].live /\ ~Expired(tokens[t])
<1>1. CASE t \in DOMAIN tokens
  <2>1. tokens[t] \in AccessTokens /\ now \in Nat
    BY <1>1 DEF TypeOK, AccessTypeOK
  <2>2. /\ tokens[t].live /\ ~Expired(tokens[t]) /\ ~ReadsPast(tokens[t]) => IsActive(tokens[t])
        /\ NoTokensEast /\ IsActive(tokens[t]) => tokens[t].live /\ ~Expired(tokens[t])
    BY <1>1, <2>1 DEF AccessTokens, NoTokensEast, IsActive, Expired, ReadsPast, Never
  <2>3. ListActiveTokens(t) # {} <=> IsActive(tokens[t])
    BY <1>1 DEF ListActiveTokens
  <2>. QED
    BY <1>1, <2>2, <2>3
<1>2. CASE t \notin DOMAIN tokens
  BY <1>2 DEF ListActiveTokens
<1>. QED
  BY <1>1, <1>2

LEMMA OpsDiffer ==
  /\ BuildOps \cap ProjectOps = {}
  /\ "begin" \notin BuildOps \cup ProjectOps
<1>1. BuildOps \cap ProjectOps = {}
  BY Zenon DEF BuildOps, ProjectOps
<1>2. "begin" \notin BuildOps \cup ProjectOps
  BY Zenon DEF BuildOps, ProjectOps
<1>. QED
  BY <1>1, <1>2

\* The three questions of the authorization service, and what entitles to each.
LEMMA Questions ==
  ASSUME NEW h \in Handlers, NEW identity, NEW ids
  PROVE  LET c == Call(h)  credential == Credential(h) IN
         \/ /\ c.op \in BuildOps \cup {"begin"}
            /\ Verdict(identity, c) =
                 AuthorizeProjectRef(identity, credential, ProjectOf(c), RefOf(c))
            /\ Entitled(h, ids) <=>
                 /\ c.op \in BuildOps => c.build \in DOMAIN builds
                 /\ EntitledToRef(credential, ProjectOf(c), RefOf(c), ids)
         \/ /\ Verdict(identity, c) = AuthorizeProject(identity, credential, c.project)
            /\ Entitled(h, ids) <=> EntitledToProject(credential, c.project, ids)
         \/ /\ Verdict(identity, c) = AuthorizeAdmin(identity)
            /\ Entitled(h, ids) <=> IsAdmin(credential)
<1>. DEFINE c == Call(h)
<1>1. CASE c.op \in BuildOps \cup {"begin"}
  <2>1. Verdict(identity, c) =
          AuthorizeProjectRef(identity, Credential(h), ProjectOf(c), RefOf(c))
    BY <1>1, OpsDiffer DEF Verdict, Credential
  <2>2. Entitled(h, ids) <=>
          /\ c.op \in BuildOps => c.build \in DOMAIN builds
          /\ EntitledToRef(Credential(h), ProjectOf(c), RefOf(c), ids)
    BY <1>1, OpsDiffer DEF Entitled, ProjectOf, RefOf, Credential
  <2>. QED
    BY <1>1, <2>1, <2>2
<1>2. CASE c.op \in ProjectOps /\ c.project # Global
  <2>1. Verdict(identity, c) = AuthorizeProject(identity, Credential(h), c.project)
    BY <1>2, OpsDiffer DEF Verdict, Credential
  <2>2. Entitled(h, ids) <=> EntitledToProject(Credential(h), c.project, ids)
    BY <1>2, OpsDiffer DEF Entitled, Credential
  <2>. QED
    BY <2>1, <2>2
<1>3. CASE c.op \notin BuildOps \cup {"begin"} /\ ~(c.op \in ProjectOps /\ c.project # Global)
  BY <1>3 DEF Verdict, Entitled, Credential
<1>. QED
  BY <1>1, <1>2, <1>3

LEMMA VerdictIsRight ==
  ASSUME TypeOK, NoTokensEast, NEW h \in Handlers, Evidence(h), At(h, "authorize"),
         Verdict(request[h].identity, Call(h)) = "ok"
  PROVE  Entitled(h, everPublished)
<1>. DEFINE c == Call(h)  credential == Credential(h)  identity == request[h].identity
<1>1. /\ identity \in {"admin", "oidc", "token"}
      /\ identity = "admin" => IsAdmin(credential)
      /\ identity = "oidc" => HoldsIdentity(credential, everPublished)
      /\ identity = "token" => credential.kind = "token"
      /\ c.op \in BuildOps => c.build \in DOMAIN builds
  BY DEF Evidence, At, ActingPlaces, TypeOK, RequestStates, Identities
<1>2. ASSUME NEW project, identity = "token", ListActiveTokens(credential.token) # {},
             tokens[credential.token].project = project
      PROVE  HoldsToken(credential, project)
  BY <1>1, <1>2, ActiveIsGood DEF HoldsToken
<1>3. ASSUME NEW project, AuthorizeProject(identity, credential, project) = "ok"
      PROVE  EntitledToProject(credential, project, everPublished)
  <2>1. CASE identity = "admin"
    BY <1>1, <2>1 DEF EntitledToProject
  <2>2. CASE identity = "oidc"
    BY <1>1, <1>3, <2>2 DEF AuthorizeProject, AuthorizeOidcProject,
                           ListMatchingProjectOidcIdentities, EntitledToProject
  <2>3. CASE identity = "token"
    BY <1>1, <1>2, <1>3, <2>3 DEF AuthorizeProject, AuthorizeTokenProject, EntitledToProject
  <2>. QED
    BY <1>1, <2>1, <2>2, <2>3
<1>4. ASSUME NEW project, NEW ref, AuthorizeProjectRef(identity, credential, project, ref) = "ok"
      PROVE  EntitledToRef(credential, project, ref, everPublished)
  <2>1. CASE identity = "admin"
    BY <1>1, <2>1 DEF EntitledToRef
  <2>2. CASE identity = "oidc"
    BY <1>1, <1>4, <2>2 DEF AuthorizeProjectRef, AuthorizeOidcProjectRef, RefPatternMatches,
                           ListMatchingProjectOidcIdentities, EntitledToRef
  <2>3. CASE identity = "token"
    BY <1>1, <1>2, <1>4, <2>3 DEF AuthorizeProjectRef, AuthorizeTokenProjectRef,
                                 RefPatternMatches, EntitledToRef
  <2>. QED
    BY <1>1, <2>1, <2>2, <2>3
<1>. QED
  BY <1>1, <1>3, <1>4, Questions DEF AuthorizeAdmin

\* The queries that write tokens, keys, policies and pins.
LEMMA Writers ==
  ASSUME TypeOK, [Next]_vars
  PROVE  /\ tokens' = tokens \/ \E h \in Handlers : CreateAccessToken(h) \/ RevokeAccessToken(h)
         /\ keys' = keys \/ \E h \in Handlers : InsertSigningKey(h)
         /\ \/ policies' = policies /\ rules' = rules
            \/ \E h \in Handlers :
                 UpsertProjectRetentionPolicy(h) \/ DeleteProjectRetentionPolicy(h)
         /\ pins' = pins \/ \E h \in Handlers : CreatePin(h) \/ DeletePinByName(h)
<1>1. CASE UNCHANGED <<tokens, keys, policies, rules, pins>>
  BY <1>1
<1>2. ASSUME NEW h \in Handlers, BuildStep(h)
      PROVE  UNCHANGED <<tokens, keys, policies, rules, pins>>
  BY <1>2
     DEF BuildStep, BeginBuild, HandToIngest, RegisterPaths, UploadObject,
         PresignMultipartUploadPart, CompleteMultipartUpload, AbortMultipartUpload, FinalizeBuild,
         OnlyBuilds, TablesUnchanged, accessVars, adminVars
<1>3. ASSUME NEW h \in Handlers, AdminStep(h)
      PROVE  /\ tokens' = tokens \/ CreateAccessToken(h) \/ RevokeAccessToken(h)
             /\ keys' = keys \/ InsertSigningKey(h)
             /\ \/ policies' = policies /\ rules' = rules
                \/ UpsertProjectRetentionPolicy(h) \/ DeleteProjectRetentionPolicy(h)
             /\ pins' = pins \/ CreatePin(h) \/ DeletePinByName(h)
  <2>1. CASE CreatePin(h) \/ DeletePinByName(h)
    BY <2>1 DEF CreatePin, DeletePinByName, OnlyPins, accessVars
  <2>2. CASE CreateAccessToken(h) \/ RevokeAccessToken(h)
    BY <2>2 DEF CreateAccessToken, RevokeAccessToken, OnlyTokens, adminVars
  <2>3. CASE InsertSigningKey(h)
    BY <2>3 DEF InsertSigningKey, OnlyKeys, accessVars
  <2>4. CASE UpsertProjectRetentionPolicy(h) \/ DeleteProjectRetentionPolicy(h)
    BY <2>4 DEF UpsertProjectRetentionPolicy, DeleteProjectRetentionPolicy, OnlyPolicies, accessVars
  <2>5. CASE UNCHANGED <<tokens, keys, policies, rules, pins>>
    BY <2>5
  <2>. QED
    BY <1>3, <2>1, <2>2, <2>3, <2>4, <2>5
       DEF AdminStep, RunGc, List, RefuseBody, UpsertProjectOidcIdentity,
           RemoveProjectOidcIdentity, UpsertProject, EnsureProjectSigningKey,
           GenerateProjectSigningKey, ImportProjectSigningKey, CountSigningKeys,
           GetProjectRetentionPolicy, ReadRetentionRules, UpsertUpstream, SetUpstreamEnabled,
           LinkProjectUpstream, UnlinkProjectUpstream, TablesUnchanged, OnlyBindings,
           OnlyProjects, OnlyUpstreams, OnlyLinks, accessVars, adminVars
<1>4. ASSUME NEW h \in Handlers, AuthenticationStep(h)
      PROVE  UNCHANGED <<tokens, keys, policies, rules, pins>>
  BY <1>4, AuthenticationReads DEF AuthenticationTables, adminVars
<1>5. CASE Environment \/ \E h \in Handlers, c \in setting.calls : Begin(h, c)
  BY <1>5, EnvironmentReads DEF EnvironmentTables, adminVars
<1>6. CASE UNCHANGED vars
  BY <1>6 DEF vars, accessVars, adminVars
<1>. QED
  BY <1>1, <1>2, <1>3, <1>4, <1>5, <1>6 DEF Next, HandlerStep

LEMMA EastKept ==
  ASSUME NoDatesEast, TypeOK, NoTokensEast, [Next]_vars
  PROVE  NoTokensEast'
<1>0. tokens \in Seq(AccessTokens)
  BY DEF TypeOK, AccessTypeOK
<1>1. CASE tokens' = tokens
  BY <1>1 DEF NoTokensEast
<1>2. ASSUME NEW h \in Handlers, CreateAccessToken(h), tokens' # tokens
      PROVE  NoTokensEast'
  <2>1. Call(h) \in setting.calls /\ Call(h).op = "create_token"
    BY <1>2 DEF CreateAccessToken, Doing, Call, TypeOK, RequestStates, NoCall
  <2>2. Call(h).offset <= 0
    BY <2>1 DEF NoDatesEast, TypeOK
  <2>3. PICK new : tokens' = Append(tokens, new) /\ new.offset <= 0
    BY <1>2, <2>2 DEF CreateAccessToken, InsertAccessToken
  <2>. QED
    BY <1>0, <2>3 DEF NoTokensEast
<1>3. ASSUME NEW h \in Handlers, RevokeAccessToken(h), tokens' # tokens
      PROVE  NoTokensEast'
  <2>1. PICK t \in DOMAIN tokens : tokens' = [tokens EXCEPT ![t].live = FALSE]
    BY <1>3 DEF RevokeAccessToken, RevokeToken
  <2>2. \A u \in DOMAIN tokens : tokens[u] \in AccessTokens
    BY <1>0
  <2>3. /\ DOMAIN tokens' = DOMAIN tokens
        /\ \A u \in DOMAIN tokens : tokens'[u].offset = tokens[u].offset
    BY <1>0, <2>1, <2>2 DEF AccessTokens
  <2>. QED
    BY <2>3 DEF NoTokensEast
<1>. QED
  BY <1>1, <1>2, <1>3, Writers

\* The credential of request h entitled its holder, where the request has an effect.
Acted(h) ==
  request[h].pc \in ActingPlaces \/ request[h].result \in {"ok", "missing"} => everEntitled[h]

LEMMA EverEntitledKept ==
  ASSUME TypeOK, [Next]_vars, NEW h \in Handlers, everEntitled[h], ~Starting(h)
  PROVE  everEntitled'[h]
BY DEF Next, History, vars, historyVars, TypeOK

LEMMA ActedKept ==
  ASSUME TypeOK, NoTokensEast, NEW h \in Handlers, Evidence(h), Acted(h), [Next]_vars
  PROVE  Acted(h)'
<1>0. request \in [Handlers -> RequestStates] /\ request[h] \in RequestStates
  BY DEF TypeOK
<1>1. CASE request'[h] = request[h]
  BY <1>1, EverEntitledKept DEF Acted, Starting
<1>2. ASSUME NEW c, Begin(h, c)
      PROVE  Acted(h)'
  BY <1>0, <1>2 DEF Begin, Blank, Acted, ActingPlaces
<1>3. CASE Restart
  BY <1>3 DEF Restart, Blank, Acted, ActingPlaces
<1>4. CASE DatabaseFails(h)
  <2>1. AnswerFault(h, "bad") \/ AnswerFault(h, "unavailable")
    BY <1>4 DEF DatabaseFails
  <2>2. request'[h].pc = "done" /\ request'[h].result \in {"bad", "unavailable"}
    BY <1>0, <2>1 DEF AnswerFault, Answered, Blank
  <2>. QED
    BY <2>2 DEF Acted, ActingPlaces
<1>5. CASE BuildStep(h) \/ AdminStep(h)
  <2>1. request[h].pc \in ActingPlaces
    BY <1>5, ActingMoves
  <2>. QED
    BY <2>1, EverEntitledKept DEF Acted, Starting, ActingPlaces
<1>6. CASE AuthenticationStep(h)
  <2>1. /\ request'[h].pc \in ActingPlaces => Authorize(h)
        /\ request'[h].result \notin {"ok", "missing"} \/ request'[h].result = request[h].result
        /\ request[h].pc \notin ActingPlaces \cup {"idle", "done"}
    BY <1>6, AuthenticationMoves
  <2>2. request'[h].result \notin {"ok", "missing"}
    BY <2>1 DEF Evidence
  <2>3. CASE request'[h].pc \in ActingPlaces
    <3>1. Authorize(h) /\ Verdict(request[h].identity, Call(h)) = "ok"
      <4>1. Authorize(h)
        BY <2>1, <2>3
      <4>2. ASSUME NEW result, Answer(h, result)
            PROVE  FALSE
        BY <1>0, <2>3, <4>2 DEF Answer, Answered, Blank, ActingPlaces
      <4>. QED
        BY <4>1, <4>2 DEF Authorize
    <3>2. Entitled(h, everPublished)
      BY <3>1, VerdictIsRight DEF Authorize
    <3>3. /\ request'[h].call = request[h].call
          /\ UNCHANGED <<setting, now, bindings, tokens, everPublished, builds>>
      BY <1>6, AuthenticationMoves, AuthenticationReads DEF AuthenticationTables, adminVars
    <3>4. Entitled(h, everPublished)'
      BY <3>2, <3>3
         DEF Entitled, EntitledToRef, EntitledToProject, HoldsToken, HoldsIdentity, IsAdmin,
             Expired, ProjectOf, RefOf, Call
    <3>5. History
      BY <2>1, <2>3 DEF Next, vars
    <3>. QED
      BY <2>1, <3>4, <3>5 DEF History, Ended, Acted
  <2>. QED
    BY <2>2, <2>3 DEF Acted
<1>. QED
  BY <1>1, <1>2, <1>3, <1>4, <1>5, <1>6, StepsOfRequest

-----------------------------------------------------------------------------
(* Policies and their rules *)

\* No query takes rules away, and a policy is stored with rules.
LEMMA RulesKept ==
  ASSUME TypeOK, PolicyHasItsRules, [Next]_vars
  PROVE  \A p \in Projects :
           /\ rules[p] # NoPolicy => rules'[p] # NoPolicy
           /\ policies'[p] # NoPolicy => rules'[p] # NoPolicy
<1>0. /\ policies \in [Projects -> Policies \cup {NoPolicy}]
      /\ rules \in [Projects -> Policies \cup {NoPolicy}]
  BY DEF TypeOK, AdminTypeOK
<1>1. CASE policies' = policies /\ rules' = rules
  BY <1>1 DEF PolicyHasItsRules
<1>2. ASSUME NEW h \in Handlers, UpsertProjectRetentionPolicy(h), Exists(h)
      PROVE  \A p \in Projects :
               /\ rules[p] # NoPolicy => rules'[p] # NoPolicy
               /\ policies'[p] # NoPolicy => rules'[p] # NoPolicy
  <2>1. Call(h).op = "put_policy"
    BY <1>2 DEF UpsertProjectRetentionPolicy, Doing
  <2>2. Call(h).policy \in Policies /\ NoPolicy \notin Policies
    BY <2>1, CallTyped, ApiConstants DEF Call, WellFormed
  <2>. QED
    BY <1>0, <1>2, <2>2
       DEF UpsertProjectRetentionPolicy, ReplaceRetentionPolicy, PolicyHasItsRules
<1>3. ASSUME NEW h \in Handlers, UpsertProjectRetentionPolicy(h), ~Exists(h)
      PROVE  policies' = policies /\ rules' = rules
  BY <1>3 DEF UpsertProjectRetentionPolicy
<1>4. ASSUME NEW h \in Handlers, DeleteProjectRetentionPolicy(h)
      PROVE  rules' = rules /\ \A p \in Projects : policies'[p] \in {policies[p], NoPolicy}
  BY <1>0, <1>4 DEF DeleteProjectRetentionPolicy, DeleteRetentionPolicy
<1>. QED
  BY <1>1, <1>2, <1>3, <1>4, Writers DEF PolicyHasItsRules

LEMMA PolicyHasItsRulesKept ==
  ASSUME TypeOK, PolicyHasItsRules, [Next]_vars
  PROVE  PolicyHasItsRules'
<1>1. ASSUME NEW h \in Handlers, At(h, "rules")'
      PROVE  /\ (Call(h).op = "get_policy")'
             /\ (Call(h).project \in projects)'
             /\ (rules[Call(h).project] # NoPolicy)'
  <2>0. request \in [Handlers -> RequestStates] /\ request[h] \in RequestStates
    BY DEF TypeOK
  <2>1. projects \subseteq projects' /\ projects \subseteq Projects
    BY WorldGrows DEF TypeOK, AccessTypeOK
  <2>2. CASE request'[h] = request[h]
    BY <1>1, <2>1, <2>2, RulesKept DEF PolicyHasItsRules, At, Call
  <2>3. ASSUME NEW c, Begin(h, c)
        PROVE  FALSE
    BY <1>1, <2>0, <2>3 DEF Begin, Blank, At
  <2>4. CASE Restart
    BY <1>1, <2>4 DEF Restart, Blank, At
  <2>5. CASE DatabaseFails(h)
    BY <1>1, <2>0, <2>5 DEF DatabaseFails, AnswerFault, Answered, Blank, At
  <2>6. CASE AuthenticationStep(h)
    BY <1>1, <2>6, AuthenticationMoves DEF At, ActingPlaces
  <2>7. CASE BuildStep(h) \/ AdminStep(h)
    <3>1. CASE GetProjectRetentionPolicy(h)
      <4>1. /\ Call(h).op = "get_policy"
            /\ \/ Call(h).project \in projects /\ policies[Call(h).project] # NoPolicy
               \/ \E result : Answer(h, result)
        BY <3>1 DEF GetProjectRetentionPolicy, Doing, Exists
      <4>2. ASSUME NEW result, Answer(h, result)
            PROVE  FALSE
        BY <1>1, <2>0, <4>2 DEF Answer, Answered, Blank, At
      <4>3. /\ Call(h).op = "get_policy"
            /\ Call(h).project \in projects
            /\ policies[Call(h).project] # NoPolicy
        BY <4>1, <4>2
      <4>4. request'[h].call = request[h].call
        BY <3>1, ActingMoves DEF AdminStep
      <4>. QED
        BY <2>1, <4>3, <4>4, RulesKept DEF PolicyHasItsRules, Call
    <3>2. CASE ReadRetentionRules(h)
      BY <1>1, <2>0, <3>2 DEF ReadRetentionRules, Answered, Blank, At
    <3>3. CASE ~GetProjectRetentionPolicy(h) /\ ~ReadRetentionRules(h)
      <4>1. ASSUME NEW result, Answer(h, result)
            PROVE  FALSE
        BY <1>1, <2>0, <4>1 DEF Answer, Answered, Blank, At
      <4>2. ASSUME NEW pc \in {"ensure", "insert", "count"}, Goto(h, pc)
            PROVE  FALSE
        BY <1>1, <2>0, <4>2 DEF Goto, At, RequestStates
      <4>3. CASE BuildStep(h)
        BY <4>1, <4>3
           DEF BuildStep, BeginBuild, HandToIngest, RegisterPaths, UploadObject,
               PresignMultipartUploadPart, CompleteMultipartUpload, AbortMultipartUpload,
               FinalizeBuild
      <4>4. CASE CountSigningKeys(h)
        <5>1. \/ \E result : Answer(h, result)
              \/ \E n : request' = [request EXCEPT ![h].number = n, ![h].pc = "insert"]
          BY <4>4 DEF CountSigningKeys
        <5>. QED
          BY <1>1, <2>0, <4>1, <5>1 DEF At, RequestStates
      <4>5. CASE AdminStep(h) /\ ~CountSigningKeys(h)
        BY <3>3, <4>1, <4>2, <4>5
           DEF AdminStep, RunGc, List, RefuseBody, CreatePin, DeletePinByName,
               UpsertProjectOidcIdentity, RemoveProjectOidcIdentity, CreateAccessToken,
               RevokeAccessToken, UpsertProject, EnsureProjectSigningKey,
               GenerateProjectSigningKey, ImportProjectSigningKey, InsertSigningKey,
               UpsertProjectRetentionPolicy, DeleteProjectRetentionPolicy, UpsertUpstream,
               SetUpstreamEnabled, LinkProjectUpstream, UnlinkProjectUpstream
      <4>. QED
        BY <2>7, <4>3, <4>4, <4>5
    <3>. QED
      BY <3>1, <3>2, <3>3
  <2>. QED
    BY <2>2, <2>3, <2>4, <2>5, <2>6, <2>7, StepsOfRequest
<1>. QED
  BY <1>1, RulesKept DEF PolicyHasItsRules

\* The action of PolicyHasRules.
LEMMA RulesAnswered ==
  ASSUME TypeOK, PolicyHasItsRules, [Next]_vars, NEW h \in Handlers, Evidence(h),
         At(h, "rules"), request'[h].result = "ok"
  PROVE  request'[h].found # NoPolicy
<1>0. request \in [Handlers -> RequestStates] /\ request[h] \in RequestStates
  BY DEF TypeOK
<1>1. request'[h] # request[h]
  BY DEF Evidence, At
<1>2. ASSUME NEW c, Begin(h, c)
      PROVE  FALSE
  BY <1>2 DEF Begin, At
<1>3. CASE Restart
  BY <1>3 DEF Restart, Blank
<1>4. ~AuthenticationStep(h)
  BY AuthenticationMoves DEF At, ActingPlaces
<1>5. CASE DatabaseFails(h)
  <2>1. AnswerFault(h, "bad") \/ AnswerFault(h, "unavailable")
    BY <1>5 DEF DatabaseFails
  <2>. QED
    BY <1>0, <2>1 DEF AnswerFault, Answered, Blank
<1>6. CASE BuildStep(h) \/ AdminStep(h)
  <2>1. ReadRetentionRules(h)
    BY <1>6
       DEF BuildStep, BeginBuild, HandToIngest, RegisterPaths, UploadObject,
           PresignMultipartUploadPart, CompleteMultipartUpload, AbortMultipartUpload,
           FinalizeBuild, AdminStep, RunGc, List, RefuseBody, CreatePin, DeletePinByName,
           UpsertProjectOidcIdentity, RemoveProjectOidcIdentity, CreateAccessToken,
           RevokeAccessToken, UpsertProject, EnsureProjectSigningKey,
           GenerateProjectSigningKey, ImportProjectSigningKey, CountSigningKeys,
           InsertSigningKey, GetProjectRetentionPolicy, UpsertProjectRetentionPolicy,
           DeleteProjectRetentionPolicy, UpsertUpstream, SetUpstreamEnabled,
           LinkProjectUpstream, UnlinkProjectUpstream, Doing, At
  <2>2. request'[h].found = rules[Call(h).project]
    BY <1>0, <2>1 DEF ReadRetentionRules, Answered, Blank
  <2>. QED
    BY <2>2 DEF PolicyHasItsRules
<1>. QED
  BY <1>1, <1>2, <1>3, <1>4, <1>5, <1>6, StepsOfRequest

-----------------------------------------------------------------------------
(* Pins *)

\* The action of PinsStayInScope.
LEMMA PinsInScope ==
  ASSUME TypeOK, [Next]_vars, NEW h \in Handlers, At(h, "act"), request'[h].pc = "done"
  PROVE  \A p \in (pins \ pins') \cup (pins' \ pins) : p.scope = Call(h).project
<1>1. ASSUME NEW g \in Handlers, CreatePin(g) \/ DeletePinByName(g), g # h
      PROVE  FALSE
  <2>1. request'[h] = request[h]
    BY <1>1, ActingMoves DEF AdminStep
  <2>. QED
    BY <2>1 DEF At
<1>2. CASE CreatePin(h) \/ DeletePinByName(h)
  BY <1>2 DEF CreatePin, DeletePinByName, UpsertPin, DeletePin
<1>. QED
  BY <1>1, <1>2, Writers

-----------------------------------------------------------------------------
(* Signing keys of projects *)

\* What a request knows of the keys of its project.
KeysOf(h) ==
  /\ request[h].pc = "ensure" => Call(h).op = "upsert_project"
  /\ request[h].keyed => Call(h).op = "upsert_project" /\ ActiveKey(Call(h).project) > 0
  /\ request[h].pc \in {"count", "insert"} => ~request[h].keyed
  /\ request[h].result = "ok" /\ Call(h).op = "upsert_project" /\ setting.encryption =>
       ActiveKey(Call(h).project) > 0

\* A number that was counted while no other request made a key is still the next one.
NumberOf(h) ==
  request[h].pc = "insert" /\ alone[h] =>
    /\ \A g \in Handlers : ~MakingSameKey(g, h)
    /\ request[h].number # Given =>
         Call(h).project \in projects /\ request[h].number = ActiveKey(Call(h).project) + 1

KeyNumbers ==
  \A p \in Projects : \A i \in DOMAIN keys[p] :
    keys[p][i].alone /\ keys[p][i].number # Given => keys[p][i].number = i

LEMMA KeyInserted ==
  ASSUME TypeOK, [Next]_vars
  PROVE  /\ \/ keys' = keys
            \/ \E h \in Handlers :
                 /\ InsertSigningKey(h)
                 /\ Call(h).project \in Projects
                 /\ keys' = [keys EXCEPT ![Call(h).project] =
                              Append(@, [number |-> request[h].number, alone |-> alone[h]])]
         /\ \A p \in Projects : ActiveKey(p) \in Nat /\ ActiveKey(p)' \in Nat
                                  /\ ActiveKey(p)' >= ActiveKey(p)
<1>0. keys \in [Projects -> Seq([number : Nat, alone : BOOLEAN])]
  BY DEF TypeOK, AdminTypeOK
<1>1. CASE keys' = keys
  BY <1>0, <1>1 DEF ActiveKey
<1>2. ASSUME NEW h \in Handlers, InsertSigningKey(h), keys' # keys
      PROVE  /\ Call(h).project \in Projects
             /\ keys' = [keys EXCEPT ![Call(h).project] =
                          Append(@, [number |-> request[h].number, alone |-> alone[h]])]
             /\ \A p \in Projects : ActiveKey(p) \in Nat /\ ActiveKey(p)' \in Nat
                                      /\ ActiveKey(p)' >= ActiveKey(p)
  <2>1. Call(h).project \in Projects
    BY <1>2 DEF InsertSigningKey, Exists, TypeOK, AccessTypeOK
  <2>2. keys' = [keys EXCEPT ![Call(h).project] =
                  Append(@, [number |-> request[h].number, alone |-> alone[h]])]
    BY <1>2 DEF InsertSigningKey, ReplaceSigningKey
  <2>3. \A p \in Projects : ActiveKey(p) \in Nat /\ ActiveKey(p)' \in Nat
                              /\ ActiveKey(p)' >= ActiveKey(p)
    <3>1. ASSUME NEW p \in Projects, p # Call(h).project
          PROVE  keys'[p] = keys[p]
      BY <1>0, <2>2, <3>1
    <3>2. keys'[Call(h).project] =
            Append(keys[Call(h).project], [number |-> request[h].number, alone |-> alone[h]])
      BY <1>0, <2>1, <2>2
    <3>3. Len(keys'[Call(h).project]) = Len(keys[Call(h).project]) + 1
      BY <1>0, <2>1, <3>2
    <3>. QED
      BY <1>0, <3>1, <3>3 DEF ActiveKey
  <2>. QED
    BY <2>1, <2>2, <2>3
<1>. QED
  BY <1>1, <1>2, Writers

\* The action of UpsertSparesKeys.
LEMMA KeysSpared ==
  ASSUME TypeOK, [Next]_vars, NEW h \in Handlers, KeysOf(h), request[h].keyed,
         request'[h] # request[h]
  PROVE  keys' = keys
<1>1. ASSUME NEW g \in Handlers, InsertSigningKey(g), g # h
      PROVE  FALSE
  BY <1>1, ActingMoves DEF AdminStep
<1>2. ~InsertSigningKey(h)
  BY DEF InsertSigningKey, At, KeysOf
<1>. QED
  BY <1>1, <1>2, Writers

LEMMA KeysOfKept ==
  ASSUME TypeOK, PolicyHasItsRules, [Next]_vars, NEW h \in Handlers, Evidence(h), KeysOf(h)
  PROVE  KeysOf(h)'
<1>0. request \in [Handlers -> RequestStates] /\ request[h] \in RequestStates
  BY DEF TypeOK
<1>1. ASSUME Call(h).op = "upsert_project"
      PROVE  /\ Call(h).project \in Projects
             /\ ActiveKey(Call(h).project) > 0 /\ request'[h].call = request[h].call =>
                  (ActiveKey(Call(h).project) > 0)'
  <2>1. Call(h).project \in Projects
    BY <1>1, CallTyped DEF Call, WellFormed
  <2>2. ASSUME request'[h].call = request[h].call, ActiveKey(Call(h).project) > 0
        PROVE  (ActiveKey(Call(h).project) > 0)'
    <3>1. \A p \in Projects : ActiveKey(p) \in Nat /\ Len(keys'[p]) \in Nat
                                /\ Len(keys'[p]) >= ActiveKey(p)
      BY KeyInserted DEF ActiveKey
    <3>. QED
      BY <2>1, <2>2, <3>1 DEF Call, ActiveKey
  <2>. QED
    BY <2>1, <2>2
<1>2. setting' = setting
  BY WorldGrows
<1>3. ASSUME request'[h].call = request[h].call, request'[h].keyed = request[h].keyed,
             request'[h].pc \notin {"ensure", "count", "insert"} \/ request'[h].pc = request[h].pc,
             request'[h].result # "ok" \/ request'[h].result = request[h].result
      PROVE  KeysOf(h)'
  BY <1>1, <1>2, <1>3 DEF KeysOf, Call
<1>4. CASE request'[h] = request[h]
  BY <1>3, <1>4
<1>5. ASSUME NEW c, Begin(h, c)
      PROVE  KeysOf(h)'
  <2>1. keys' = keys
    BY <1>5 DEF Begin, adminVars
  <2>2. /\ request'[h].call = c /\ request'[h].keyed = HasKey(c) /\ request'[h].result = "none"
        /\ request'[h].pc \in {"context", "static"}
    BY <1>0, <1>5 DEF Begin, Blank
  <2>. QED
    BY <2>1, <2>2 DEF KeysOf, HasKey, Call, ActiveKey
<1>6. CASE Restart
  BY <1>6 DEF Restart, Blank, KeysOf
<1>7. CASE DatabaseFails(h)
  <2>1. \E result \in {"bad", "unavailable"} : AnswerFault(h, result)
    BY <1>7 DEF DatabaseFails
  <2>. QED
    BY <1>0, <1>3, <2>1 DEF AnswerFault, Answered, Blank, Call
<1>8. CASE AuthenticationStep(h)
  BY <1>3, <1>8, AuthenticationMoves DEF ActingPlaces
<1>9. CASE BuildStep(h) \/ AdminStep(h)
  <2>1. request'[h].call = request[h].call /\ request'[h].keyed = request[h].keyed
    BY <1>9, ActingMoves
  <2>2. ASSUME NEW result, Answer(h, result),
               Call(h).op # "upsert_project" \/ result # "ok" \/ ~setting.encryption
        PROVE  KeysOf(h)'
    <3>1. request'[h].pc = "done" /\ request'[h].result = result
      BY <1>0, <2>2 DEF Answer, Answered, Blank
    <3>. QED
      BY <1>1, <1>2, <2>1, <2>2, <3>1 DEF KeysOf, Call
  <2>3. ASSUME NEW pc \in {"ensure", "count", "insert", "rules"}, Goto(h, pc),
               pc = "ensure" => Call(h).op = "upsert_project",
               pc \in {"count", "insert"} => ~request[h].keyed
        PROVE  KeysOf(h)'
    <3>1. request'[h].pc = pc /\ request'[h].result = request[h].result
      BY <1>0, <2>3 DEF Goto, RequestStates
    <3>. QED
      BY <1>1, <1>2, <2>1, <2>3, <3>1 DEF KeysOf, Call
  <2>4. CASE BuildStep(h)
    BY <2>2, <2>4
       DEF BuildStep, BeginBuild, HandToIngest, RegisterPaths, UploadObject,
           PresignMultipartUploadPart, CompleteMultipartUpload, AbortMultipartUpload,
           FinalizeBuild, Doing
  <2>5. CASE UpsertProject(h)
    BY <2>2, <2>3, <2>5 DEF UpsertProject, Doing
  <2>6. CASE EnsureProjectSigningKey(h)
    <3>1. CASE ActiveKey(Call(h).project) > 0
      <4>1. Answer(h, "ok") /\ keys' = keys /\ Call(h).op = "upsert_project"
        BY <2>6, <3>1 DEF EnsureProjectSigningKey, TablesUnchanged, adminVars, KeysOf, At
      <4>2. request'[h].pc = "done"
        BY <1>0, <4>1 DEF Answer, Answered, Blank
      <4>. QED
        BY <1>1, <2>1, <3>1, <4>1, <4>2 DEF KeysOf, Call
    <3>2. CASE ~(ActiveKey(Call(h).project) > 0)
      BY <2>3, <2>6, <3>2 DEF EnsureProjectSigningKey, KeysOf
    <3>. QED
      BY <3>1, <3>2
  <2>7. CASE GenerateProjectSigningKey(h)
    BY <2>2, <2>3, <2>7 DEF GenerateProjectSigningKey, Doing, KeysOf
  <2>8. CASE ImportProjectSigningKey(h)
    BY <2>2, <2>3, <2>8 DEF ImportProjectSigningKey, Doing, KeysOf
  <2>9. CASE CountSigningKeys(h)
    <3>1. CASE Exists(h)
      <4>1. /\ request'[h].pc = "insert" /\ request'[h].result = request[h].result
            /\ ~request[h].keyed
        BY <1>0, <2>9, <3>1 DEF CountSigningKeys, RequestStates, KeysOf, At
      <4>. QED
        BY <1>1, <1>2, <2>1, <4>1 DEF KeysOf, Call
    <3>2. CASE ~Exists(h)
      BY <2>2, <2>9, <3>2 DEF CountSigningKeys
    <3>. QED
      BY <3>1, <3>2
  <2>10. CASE InsertSigningKey(h)
    <3>1. CASE Exists(h)
      <4>1. /\ Call(h).project \in Projects
            /\ keys \in [Projects -> Seq([number : Nat, alone : BOOLEAN])]
        BY <3>1 DEF Exists, TypeOK, AccessTypeOK, AdminTypeOK
      <4>2. PICK key : keys' = [keys EXCEPT ![Call(h).project] = Append(@, key)]
        BY <2>10, <3>1 DEF InsertSigningKey, ReplaceSigningKey
      <4>3. keys'[Call(h).project] = Append(keys[Call(h).project], key)
        BY <4>1, <4>2
      <4>4. Len(keys'[Call(h).project]) > 0
        BY <4>1, <4>3
      <4>5. request'[h].pc = "done"
        BY <1>0, <2>10, <3>1 DEF InsertSigningKey, Answer, Answered, Blank
      <4>6. request[h].pc = "insert"
        BY <2>10 DEF InsertSigningKey, At
      <4>7. ~request[h].keyed
        BY <4>6 DEF KeysOf
      <4>8. (ActiveKey(Call(h).project) > 0)'
        BY <2>1, <4>4 DEF ActiveKey, Call
      <4>. QED
        BY <2>1, <4>5, <4>7, <4>8 DEF KeysOf
    <3>2. CASE ~Exists(h)
      BY <2>2, <2>10, <3>2 DEF InsertSigningKey
    <3>. QED
      BY <3>1, <3>2
  <2>11. CASE GetProjectRetentionPolicy(h)
    BY <2>2, <2>3, <2>11 DEF GetProjectRetentionPolicy, Doing
  <2>12. CASE ReadRetentionRules(h)
    <3>1. /\ request'[h].pc = "done" /\ request'[h].result = "ok"
          /\ Call(h).op = "get_policy"
      BY <1>0, <2>12 DEF ReadRetentionRules, Answered, Blank, PolicyHasItsRules
    <3>. QED
      BY <1>1, <2>1, <3>1 DEF KeysOf, Call
  <2>13. CASE RunGc(h) \/ List(h) \/ RefuseBody(h) \/ CreatePin(h) \/ DeletePinByName(h)
    BY <2>2, <2>13 DEF RunGc, List, RefuseBody, CreatePin, DeletePinByName, Doing
  <2>14. CASE \/ UpsertProjectOidcIdentity(h) \/ RemoveProjectOidcIdentity(h)
              \/ CreateAccessToken(h) \/ RevokeAccessToken(h)
    BY <2>2, <2>14 DEF UpsertProjectOidcIdentity, RemoveProjectOidcIdentity,
                       CreateAccessToken, RevokeAccessToken, Doing
  <2>15. CASE \/ UpsertProjectRetentionPolicy(h) \/ DeleteProjectRetentionPolicy(h)
              \/ UpsertUpstream(h) \/ SetUpstreamEnabled(h) \/ LinkProjectUpstream(h)
              \/ UnlinkProjectUpstream(h)
    BY <2>2, <2>15 DEF UpsertProjectRetentionPolicy, DeleteProjectRetentionPolicy,
                       UpsertUpstream, SetUpstreamEnabled, LinkProjectUpstream,
                       UnlinkProjectUpstream, Doing
  <2>. QED
    BY <1>9, <2>4, <2>5, <2>6, <2>7, <2>8, <2>9, <2>10, <2>11, <2>12, <2>13, <2>14, <2>15
       DEF AdminStep
<1>. QED
  BY <1>4, <1>5, <1>6, <1>7, <1>8, <1>9, StepsOfRequest

LEMMA NumberOfKept ==
  ASSUME TypeOK, [Next]_vars, NEW h \in Handlers, Evidence(h), NumberOf(h)
  PROVE  NumberOf(h)'
<1>0. request \in [Handlers -> RequestStates] /\ request[h] \in RequestStates
  BY DEF TypeOK
<1>1. CASE UNCHANGED vars
  <2>1. UNCHANGED <<request, alone, projects, keys>>
    BY <1>1 DEF vars, accessVars, adminVars, historyVars
  <2>. QED
    BY <2>1 DEF NumberOf, MakingSameKey, Call, ActiveKey
<1>2. ASSUME Next, request'[h].pc = "insert", alone'[h]
      PROVE  /\ \A g \in Handlers : ~MakingSameKey(g, h)'
             /\ request'[h].number # Given =>
                  /\ Call(h)'.project \in projects'
                  /\ request'[h].number = ActiveKey(Call(h).project)' + 1
  <2>1. /\ alone[h] \/ request[h].pc # "insert"
        /\ \A g \in Handlers : ~MakingSameKey(g, h)'
    BY <1>2 DEF Next, History
  <2>2. projects \subseteq projects' /\ projects \subseteq Projects
    BY WorldGrows DEF TypeOK, AccessTypeOK
  <2>A. ASSUME NEW result, Answer(h, result) \/ AnswerFault(h, result)
        PROVE  FALSE
    <3>1. request'[h].pc = "done"
      BY <1>0, <2>A DEF Answer, AnswerFault, Answered, Blank
    <3>. QED
      BY <1>2, <3>1
  <2>3. CASE request'[h] = request[h]
    <3>1. alone[h] /\ request[h].pc = "insert"
      BY <1>2, <2>1, <2>3
    <3>2. ASSUME request[h].number # Given
          PROVE  /\ Call(h)'.project \in projects'
                 /\ request'[h].number = ActiveKey(Call(h).project)' + 1
      <4>1. Call(h).project \in projects /\ request[h].number = ActiveKey(Call(h).project) + 1
        BY <3>1, <3>2 DEF NumberOf
      <4>2. keys'[Call(h).project] = keys[Call(h).project]
        <5>1. ASSUME NEW g \in Handlers, InsertSigningKey(g), g = h
              PROVE  FALSE
          BY <2>A, <5>1 DEF InsertSigningKey
        <5>2. ASSUME NEW g \in Handlers, InsertSigningKey(g), g # h
              PROVE  Call(g).project # Call(h).project
          BY <3>1, <5>2 DEF InsertSigningKey, At, NumberOf, MakingSameKey
        <5>3. keys \in [Projects -> Seq([number : Nat, alone : BOOLEAN])]
          BY DEF TypeOK, AdminTypeOK
        <5>4. CASE keys' = keys
          BY <5>4
        <5>5. ASSUME NEW g \in Handlers, NEW key, InsertSigningKey(g),
                     keys' = [keys EXCEPT ![Call(g).project] = Append(@, key)]
              PROVE  keys'[Call(h).project] = keys[Call(h).project]
          <6>1. Call(h).project \in Projects /\ Call(g).project # Call(h).project
            BY <2>2, <4>1, <5>1, <5>2, <5>5
          <6>. QED
            BY <5>3, <5>5, <6>1
        <5>. QED
          BY <5>4, <5>5, KeyInserted
      <4>. QED
        BY <2>2, <2>3, <4>1, <4>2 DEF Call, ActiveKey
    <3>. QED
      BY <2>1, <2>3, <3>2
  <2>4. ASSUME NEW c, Begin(h, c)
        PROVE  FALSE
    BY <1>0, <1>2, <2>4 DEF Begin, Blank
  <2>5. CASE Restart
    BY <1>2, <2>5 DEF Restart, Blank
  <2>6. CASE DatabaseFails(h)
    BY <2>6, <2>A DEF DatabaseFails
  <2>7. CASE AuthenticationStep(h)
    BY <1>2, <2>7, AuthenticationMoves DEF ActingPlaces
  <2>8. CASE BuildStep(h) \/ AdminStep(h)
    <3>1. CASE CountSigningKeys(h)
      <4>1. CASE Exists(h)
        <5>1. /\ request'[h].number = ActiveKey(Call(h).project) + 1
              /\ request'[h].call = request[h].call
              /\ keys' = keys
          BY <1>0, <3>1, <4>1 DEF CountSigningKeys, NextKeyNumber, ActiveKey, RequestStates,
                                  TablesUnchanged, adminVars
        <5>. QED
          BY <2>1, <2>2, <4>1, <5>1 DEF Exists, Call, ActiveKey
      <4>2. CASE ~Exists(h)
        BY <2>A, <3>1, <4>2 DEF CountSigningKeys
      <4>. QED
        BY <4>1, <4>2
    <3>2. CASE ~CountSigningKeys(h)
      <4>2. ASSUME NEW pc, Goto(h, pc), request[h].pc # "insert"
            PROVE  request'[h].number = Given
        BY <1>0, <4>2 DEF Goto, RequestStates, Evidence
      <4>3. CASE BuildStep(h)
        BY <2>A, <4>3
           DEF BuildStep, BeginBuild, HandToIngest, RegisterPaths, UploadObject,
               PresignMultipartUploadPart, CompleteMultipartUpload, AbortMultipartUpload,
               FinalizeBuild
      <4>4. CASE ReadRetentionRules(h)
        BY <1>0, <1>2, <4>4 DEF ReadRetentionRules, Answered, Blank
      <4>5. CASE AdminStep(h) /\ ~ReadRetentionRules(h)
        <5>1. request'[h].number = Given
          BY <2>A, <3>2, <4>2, <4>5
             DEF AdminStep, RunGc, List, RefuseBody, CreatePin, DeletePinByName,
                 UpsertProjectOidcIdentity, RemoveProjectOidcIdentity, CreateAccessToken,
                 RevokeAccessToken, UpsertProject, EnsureProjectSigningKey,
                 GenerateProjectSigningKey, ImportProjectSigningKey, InsertSigningKey,
                 GetProjectRetentionPolicy, UpsertProjectRetentionPolicy,
                 DeleteProjectRetentionPolicy, UpsertUpstream, SetUpstreamEnabled,
                 LinkProjectUpstream, UnlinkProjectUpstream, Doing, At
        <5>. QED
          BY <2>1, <5>1
      <4>. QED
        BY <2>8, <4>3, <4>4, <4>5
    <3>. QED
      BY <3>1, <3>2
  <2>. QED
    BY <2>3, <2>4, <2>5, <2>6, <2>7, <2>8, StepsOfRequest
<1>. QED
  BY <1>1, <1>2 DEF NumberOf

LEMMA KeyNumbersKept ==
  ASSUME TypeOK, [Next]_vars, KeyNumbers, \A h \in Handlers : NumberOf(h)
  PROVE  KeyNumbers'
<1>0. keys \in [Projects -> Seq([number : Nat, alone : BOOLEAN])]
  BY DEF TypeOK, AdminTypeOK
<1>1. CASE keys' = keys
  BY <1>1 DEF KeyNumbers
<1>2. ASSUME NEW h \in Handlers, InsertSigningKey(h), Call(h).project \in Projects,
             keys' = [keys EXCEPT ![Call(h).project] =
                       Append(@, [number |-> request[h].number, alone |-> alone[h]])],
             NEW p \in Projects, NEW i \in DOMAIN keys'[p],
             keys'[p][i].alone, keys'[p][i].number # Given
      PROVE  keys'[p][i].number = i
  <2>1. CASE p # Call(h).project
    BY <1>0, <1>2, <2>1 DEF KeyNumbers
  <2>2. CASE p = Call(h).project
    <3>. DEFINE key == [number |-> request[h].number, alone |-> alone[h]]
    <3>1. keys'[p] = Append(keys[p], key)
      BY <1>0, <1>2, <2>2
    <3>2. key.number = request[h].number /\ key.alone = alone[h]
      OBVIOUS
    <3>. HIDE DEF key
    <3>3. CASE i \in DOMAIN keys[p]
      <4>1. keys'[p][i] = keys[p][i]
        BY <1>0, <3>1, <3>3
      <4>. QED
        BY <1>2, <3>3, <4>1 DEF KeyNumbers
    <3>4. CASE i \notin DOMAIN keys[p]
      <4>1. i = Len(keys[p]) + 1 /\ keys'[p][i] = key
        BY <1>0, <1>2, <3>1, <3>4
      <4>2. request[h].number = Len(keys[p]) + 1
        BY <1>2, <2>2, <3>2, <4>1 DEF NumberOf, InsertSigningKey, At, ActiveKey
      <4>. QED
        BY <3>2, <4>1, <4>2
    <3>. QED
      BY <3>3, <3>4
  <2>. QED
    BY <2>1, <2>2
<1>. QED
  BY <1>1, <1>2, KeyInserted DEF KeyNumbers

LEMMA NumbersDiffer ==
  ASSUME TypeOK, KeyNumbers
  PROVE  NumberedKeysDiffer
<1>1. keys \in [Projects -> Seq([number : Nat, alone : BOOLEAN])]
  BY DEF TypeOK, AdminTypeOK
<1>2. ASSUME NEW p \in Projects, NEW i \in DOMAIN keys[p], NEW j \in DOMAIN keys[p],
             i < j, keys[p][i].alone, keys[p][j].alone, keys[p][j].number # Given,
             keys[p][i].number = keys[p][j].number
      PROVE  FALSE
  <2>1. keys[p][i].number = i /\ keys[p][j].number = j
    BY <1>2 DEF KeyNumbers
  <2>2. i = j
    BY <1>2, <2>1
  <2>3. i < i /\ i \in Nat
    BY <1>1, <1>2, <2>2
  <2>. QED
    BY <2>3
<1>. QED
  BY <1>2 DEF NumberedKeysDiffer

-----------------------------------------------------------------------------
(* Who is entitled is admitted *)

\* A credential that was good all along is good now.
EntitledNow(h) == request[h].pc # "done" /\ alwaysEntitled[h] => Entitled(h, published)

\* What the chain of authorizers has found out, or will, of a credential that is good.
Recognized(h) ==
  /\ request[h].pc \in LookingAtKeys \cup {"oidc", "token"} => ~IsAdmin(Credential(h))
  /\ request[h].pc \in {"context", "static", "oidc"} => ~request[h].refreshed
  /\ alwaysEntitled[h] /\ Credential(h).kind = "oidc" =>
       /\ request[h].pc = "store" => Credential(h).key \in request[h].fetched
       /\ request[h].pc = "select" /\ request[h].refreshed =>
            Credential(h).key \in request[h].fetched
       /\ request[h].pc = "token" =>
            request[h].fault /\ "unavailable" \in request[h].rejections

Admitted(h) ==
  request[h].pc = "done" /\ alwaysEntitled[h] /\ ~HasLapsedEarly(Credential(h)) =>
    /\ request[h].result \notin {"unauthorized", "forbidden"}
    /\ request[h].result = "unavailable" =>
         request[h].fault \/ (Call(h).op \in KeyOps /\ ~setting.encryption)

LEMMA AlwaysKept ==
  ASSUME TypeOK, [Next]_vars, NEW h \in Handlers, alwaysEntitled'[h], ~Starting(h)
  PROVE  alwaysEntitled[h]
BY DEF Next, History, vars, historyVars, TypeOK

LEMMA EntitledNowKept ==
  ASSUME TypeOK, [Next]_vars, NEW h \in Handlers, EntitledNow(h)
  PROVE  EntitledNow(h)'
<1>1. CASE UNCHANGED vars
  <2>1. UNCHANGED <<request, alwaysEntitled, published, setting, now, bindings, tokens, builds>>
    BY <1>1 DEF vars, accessVars, adminVars, historyVars
  <2>. QED
    BY <2>1
       DEF EntitledNow, Entitled, EntitledToRef, EntitledToProject, HoldsToken, HoldsIdentity,
           IsAdmin, Expired, ProjectOf, RefOf, Call
<1>2. CASE Next
  BY <1>2 DEF Next, History, Ended, EntitledNow
<1>. QED
  BY <1>1, <1>2

LEMMA EntitledHolds ==
  ASSUME NEW h \in Handlers, NEW ids, Entitled(h, ids), ~IsAdmin(Credential(h))
  PROVE  LET c == Credential(h) IN
         \/ /\ c.kind = "token" /\ c.token \in DOMAIN tokens
            /\ tokens[c.token].live /\ ~Expired(tokens[c.token])
         \/ HoldsIdentity(c, ids)
<1>1. \/ EntitledToRef(Credential(h), ProjectOf(Call(h)), RefOf(Call(h)), ids)
      \/ EntitledToProject(Credential(h), Call(h).project, ids)
  BY Questions
<1>. QED
  BY <1>1 DEF EntitledToRef, EntitledToProject, HoldsToken

LEMMA VerdictAdmits ==
  ASSUME TypeOK, NEW h \in Handlers, Evidence(h), At(h, "authorize"), Entitled(h, published),
         ~HasLapsedEarly(Credential(h))
  PROVE  Verdict(request[h].identity, Call(h)) = "ok"
<1>. DEFINE c == Call(h)  credential == Credential(h)  identity == request[h].identity
<1>1. /\ identity \in {"admin", "oidc", "token"}
      /\ identity = "oidc" => credential.kind = "oidc"
      /\ identity = "token" => credential.kind = "token"
  BY DEF Evidence, At, ActingPlaces, TypeOK, RequestStates, Identities, HoldsIdentity
<1>2. \A b \in bindings : b.repository # None
  BY AccessConstants DEF TypeOK, AccessTypeOK, Bindings
<1>3. \A p \in Patterns : None \notin Matches[p]
  BY AccessConstants
<1>4. CASE identity = "admin"
  BY <1>4, Questions DEF AuthorizeProjectRef, AuthorizeProject, AuthorizeAdmin
<1>5. CASE identity = "oidc"
  <2>1. /\ credential.kind = "oidc"
        /\ ~IsAdmin(credential)
        /\ \A project : ~HoldsToken(credential, project)
    BY <1>1, <1>5 DEF IsAdmin, HoldsToken
  <2>2. ASSUME NEW project, EntitledToProject(credential, project, published)
        PROVE  AuthorizeProject(identity, credential, project) = "ok"
    BY <1>2, <1>5, <2>1, <2>2 DEF EntitledToProject, AuthorizeProject, AuthorizeOidcProject,
                                 ListMatchingProjectOidcIdentities
  <2>3. ASSUME NEW project, NEW ref, EntitledToRef(credential, project, ref, published)
        PROVE  AuthorizeProjectRef(identity, credential, project, ref) = "ok"
    BY <1>2, <1>5, <2>1, <2>3 DEF EntitledToRef, AuthorizeProjectRef, AuthorizeOidcProjectRef,
                                 RefPatternMatches, ListMatchingProjectOidcIdentities
  <2>. QED
    BY <2>1, <2>2, <2>3, Questions
<1>6. CASE identity = "token"
  <2>1. /\ credential.kind = "token"
        /\ ~IsAdmin(credential)
        /\ ~HoldsIdentity(credential, published)
    BY <1>1, <1>6 DEF IsAdmin, HoldsIdentity
  <2>2. ASSUME NEW project, HoldsToken(credential, project)
        PROVE  ListActiveTokens(credential.token) # {}
    BY <2>1, <2>2, ActiveIsGood DEF HoldsToken, HasLapsedEarly
  <2>3. ASSUME NEW project, EntitledToProject(credential, project, published)
        PROVE  AuthorizeProject(identity, credential, project) = "ok"
    <3>1. HoldsToken(credential, project)
      BY <2>1, <2>3 DEF EntitledToProject
    <3>. QED
      BY <1>6, <2>2, <3>1 DEF AuthorizeProject, AuthorizeTokenProject, HoldsToken
  <2>4. ASSUME NEW project, NEW ref, EntitledToRef(credential, project, ref, published)
        PROVE  AuthorizeProjectRef(identity, credential, project, ref) = "ok"
    <3>1. /\ HoldsToken(credential, project)
          /\ \E p \in tokens[credential.token].patterns : p = Any \/ ref \in Matches[p]
      BY <2>1, <2>4 DEF EntitledToRef
    <3>2. tokens[credential.token].patterns \subseteq Patterns \cup {Any}
      <4>1. tokens[credential.token] \in AccessTokens
        BY <3>1 DEF HoldsToken, TypeOK, AccessTypeOK
      <4>. QED
        BY <4>1 DEF AccessTokens
    <3>3. \E p \in tokens[credential.token].patterns : RefPatternMatches(p, ref)
      BY <1>3, <3>1, <3>2 DEF RefPatternMatches
    <3>. QED
      BY <1>6, <2>2, <3>1, <3>3 DEF AuthorizeProjectRef, AuthorizeTokenProjectRef, HoldsToken
  <2>. QED
    BY <2>1, <2>3, <2>4, Questions
<1>. QED
  BY <1>1, <1>4, <1>5, <1>6

LEMMA RecognizedFound ==
  ASSUME TypeOK, [Next]_vars, NEW h \in Handlers, Evidence(h), EntitledNow(h), Recognized(h),
         AuthenticationStep(h)
  PROVE  Recognized(h)'
<1>0. request \in [Handlers -> RequestStates] /\ request[h] \in RequestStates
  BY DEF TypeOK
<1>1. /\ request[h].pc \notin {"idle", "done"}
      /\ request'[h].call = request[h].call
      /\ setting' = setting
  BY AuthenticationMoves, AuthenticationReads DEF AuthenticationTables
<1>2. alwaysEntitled'[h] => alwaysEntitled[h]
  BY <1>1, AlwaysKept DEF Starting
<1>3. ASSUME alwaysEntitled'[h], Credential(h).kind = "oidc", ~IsAdmin(Credential(h))
      PROVE  HoldsIdentity(Credential(h), published)
  BY <1>1, <1>2, <1>3, EntitledHolds DEF EntitledNow
<1>4. IsAdmin(Credential(h))' = IsAdmin(Credential(h)) /\ Credential(h)' = Credential(h)
  BY <1>1 DEF IsAdmin, Credential, Call
<1>. USE DEF Recognized, LookingAtKeys, At

\* The places that say nothing of the keys.
<1>5. ASSUME request'[h].pc \in {"done", "authorize", "act"}
      PROVE  Recognized(h)'
  BY <1>5
<1>6. ASSUME NEW identity, Identify(h, identity)
      PROVE  Recognized(h)'
  BY <1>0, <1>5, <1>6 DEF Identify, RequestStates
<1>7. ASSUME NEW result, Answer(h, result)
      PROVE  Recognized(h)'
  BY <1>0, <1>5, <1>7 DEF Answer, Answered, Blank
<1>8. CASE ReadBuildContext(h)
  <2>1. CASE Goto(h, "static") /\ request[h].pc = "context"
    BY <1>0, <2>1 DEF Goto, RequestStates
  <2>. QED
    BY <1>7, <1>8, <2>1 DEF ReadBuildContext
<1>9. CASE CheckStaticToken(h)
  <2>1. ASSUME NEW rejection, Reject(h, rejection, IF setting.oidc THEN "oidc" ELSE "token"),
               ~IsAdmin(Credential(h)), request[h].pc = "static"
        PROVE  Recognized(h)'
    <3>1. /\ request'[h].pc = IF setting.oidc THEN "oidc" ELSE "token"
          /\ request'[h].refreshed = request[h].refreshed
      BY <1>0, <2>1 DEF Reject, RequestStates
    <3>2. ~setting.oidc => ~HoldsIdentity(Credential(h), published)
      BY DEF HoldsIdentity
    <3>. QED
      BY <1>3, <1>4, <2>1, <3>1, <3>2
  <2>2. StaticToken(Credential(h)) = "admin" <=> IsAdmin(Credential(h))
    BY DEF StaticToken, IsAdmin
  <2>. QED
    BY <1>6, <1>9, <2>1, <2>2 DEF CheckStaticToken
<1>10. CASE ReadCache(h)
  <2>1. request[h].pc = "oidc"
    BY <1>10 DEF ReadCache
  <2>2. CASE Credential(h).kind = "oidc"
    <3>1. request'[h].pc \in {"discovery", "select"} /\ request'[h].refreshed = request[h].refreshed
      BY <1>0, <1>10, <2>2 DEF ReadCache, Goto, RequestStates
    <3>. QED
      BY <1>4, <2>1, <3>1
  <2>3. CASE Credential(h).kind # "oidc"
    <3>1. Reject(h, "missing", "token") \/ Reject(h, "invalid", "token")
      BY <1>10, <2>3 DEF ReadCache
    <3>2. request'[h].pc = "token"
      BY <1>0, <3>1 DEF Reject, RequestStates
    <3>. QED
      BY <1>4, <2>1, <2>3, <3>2
  <2>. QED
    BY <2>2, <2>3
<1>11. CASE FetchDiscovery(h)
  <2>1. request'[h].pc = "jwks" /\ request[h].pc = "discovery"
    BY <1>0, <1>11 DEF FetchDiscovery, Goto, RequestStates
  <2>. QED
    BY <1>4, <2>1
<1>12. CASE FetchKeys(h)
  <2>1. request'[h].pc = "store" /\ request'[h].fetched = published /\ request[h].pc = "jwks"
    BY <1>0, <1>12 DEF FetchKeys, RequestStates
  <2>. QED
    BY <1>3, <1>4, <2>1 DEF HoldsIdentity
<1>13. CASE FetchFails(h)
  <2>1. /\ request'[h].pc = "token" /\ request[h].pc \in {"discovery", "jwks"}
        /\ request'[h].fault /\ "unavailable" \in request'[h].rejections
    BY <1>0, <1>13 DEF FetchFails, RequestStates
  <2>. QED
    BY <1>4, <2>1
<1>14. CASE StoreKeys(h)
  <2>1. /\ request'[h].pc = "select" /\ request[h].pc = "store"
        /\ request'[h].fetched = request[h].fetched
    BY <1>0, <1>14 DEF StoreKeys, Goto, RequestStates
  <2>. QED
    BY <1>2, <1>4, <2>1
<1>15. CASE SelectKey(h)
  <2>1. request[h].pc = "select"
    BY <1>15 DEF SelectKey
  <2>2. CASE /\ Credential(h).key \notin request[h].fetched /\ ~request[h].refreshed
             /\ request' = [request EXCEPT ![h].refreshed = TRUE, ![h].pc = "discovery"]
    <3>1. request'[h].pc = "discovery"
      BY <1>0, <2>2 DEF RequestStates
    <3>. QED
      BY <1>4, <2>1, <3>1
  <2>3. ASSUME Reject(h, "invalid", "token"),
               \/ Credential(h).key \in request[h].fetched /\ ~OidcTokenValid(Credential(h))
               \/ Credential(h).key \notin request[h].fetched /\ request[h].refreshed
        PROVE  Recognized(h)'
    <3>1. request'[h].pc = "token"
      BY <1>0, <2>3 DEF Reject, RequestStates
    <3>2. ~(alwaysEntitled'[h] /\ Credential(h).kind = "oidc")
      BY <1>2, <1>3, <2>1, <2>3 DEF HoldsIdentity, OidcTokenValid
    <3>. QED
      BY <1>4, <2>1, <3>1, <3>2
  <2>. QED
    BY <1>6, <1>15, <2>2, <2>3 DEF SelectKey
<1>16. CASE LookUpToken(h)
  BY <1>6, <1>7, <1>16 DEF LookUpToken
<1>17. CASE Authorize(h)
  <2>1. CASE Goto(h, "act")
    BY <1>0, <1>5, <2>1 DEF Goto, RequestStates
  <2>. QED
    BY <1>7, <1>17, <2>1 DEF Authorize
<1>. QED
  BY <1>8, <1>9, <1>10, <1>11, <1>12, <1>13, <1>14, <1>15, <1>16, <1>17 DEF AuthenticationStep

LEMMA RecognizedKept ==
  ASSUME TypeOK, [Next]_vars, NEW h \in Handlers, Evidence(h), EntitledNow(h), Recognized(h)
  PROVE  Recognized(h)'
<1>0. request \in [Handlers -> RequestStates] /\ request[h] \in RequestStates
  BY DEF TypeOK
<1>1. setting' = setting
  BY WorldGrows
<1>2. CASE request'[h] = request[h]
  BY <1>1, <1>2, AlwaysKept DEF Recognized, Starting, IsAdmin, Credential, Call
<1>3. ASSUME NEW c, Begin(h, c)
      PROVE  Recognized(h)'
  <2>1. request'[h].pc \in {"context", "static"} /\ ~request'[h].refreshed
    BY <1>0, <1>3 DEF Begin, Blank
  <2>. QED
    BY <2>1 DEF Recognized, LookingAtKeys
<1>4. CASE Restart
  BY <1>4 DEF Restart, Blank, Recognized, LookingAtKeys
<1>5. CASE request'[h].pc \in ActingPlaces \cup {"done"}
  BY <1>5 DEF Recognized, LookingAtKeys, ActingPlaces
<1>6. CASE DatabaseFails(h)
  <2>1. \E result : AnswerFault(h, result)
    BY <1>6 DEF DatabaseFails
  <2>2. request'[h].pc = "done"
    BY <1>0, <2>1 DEF AnswerFault, Answered, Blank
  <2>. QED
    BY <1>5, <2>2
<1>. QED
  BY <1>2, <1>3, <1>4, <1>5, <1>6, ActingMoves, RecognizedFound, StepsOfRequest

LEMMA TimePasses ==
  ASSUME TypeOK, [Next]_vars
  PROVE  now' \in {now, now + 1}
<1>1. CASE UNCHANGED now
  BY <1>1
<1>2. CASE Tick
  BY <1>2 DEF Tick
<1>3. ASSUME NEW h \in Handlers, BuildStep(h)
      PROVE  UNCHANGED now
  BY <1>3
     DEF BuildStep, BeginBuild, HandToIngest, RegisterPaths, UploadObject,
         PresignMultipartUploadPart, CompleteMultipartUpload, AbortMultipartUpload, FinalizeBuild,
         OnlyBuilds, TablesUnchanged, accessVars
<1>4. ASSUME NEW h \in Handlers, AdminStep(h)
      PROVE  UNCHANGED now
  BY <1>4
     DEF AdminStep, CreatePin, DeletePinByName, CreateAccessToken, RevokeAccessToken,
         InsertSigningKey, UpsertProjectRetentionPolicy, DeleteProjectRetentionPolicy,
         RunGc, List, RefuseBody, UpsertProjectOidcIdentity,
         RemoveProjectOidcIdentity, UpsertProject, EnsureProjectSigningKey,
         GenerateProjectSigningKey, ImportProjectSigningKey, CountSigningKeys,
         GetProjectRetentionPolicy, ReadRetentionRules, UpsertUpstream, SetUpstreamEnabled,
         LinkProjectUpstream, UnlinkProjectUpstream, TablesUnchanged, OnlyBindings, OnlyTokens,
         OnlyKeys, OnlyPolicies, OnlyPins, OnlyProjects, OnlyUpstreams, OnlyLinks, accessVars
<1>5. ASSUME NEW h \in Handlers, AuthenticationStep(h)
      PROVE  UNCHANGED now
  BY <1>5, AuthenticationReads DEF AuthenticationTables
<1>6. CASE Environment /\ ~Tick
  BY <1>6 DEF Environment, DatabaseFails, Restart, RotateKeys, ProviderComesOrGoes, accessVars
<1>7. ASSUME NEW h \in Handlers, NEW c, Begin(h, c)
      PROVE  UNCHANGED now
  BY <1>7 DEF Begin, accessVars
<1>8. CASE UNCHANGED vars
  BY <1>8 DEF vars, accessVars
<1>. QED
  BY <1>1, <1>2, <1>3, <1>4, <1>5, <1>6, <1>7, <1>8 DEF Next, HandlerStep

\* A text that is past stays past.
LEMMA LapsedStays ==
  ASSUME TypeOK, [Next]_vars, NEW h \in Handlers, request'[h].call = request[h].call,
         HasLapsedEarly(Credential(h))
  PROVE  HasLapsedEarly(Credential(h))'
<1>. DEFINE t == Credential(h).token
<1>1. Credential(h)' = Credential(h)
  BY DEF Credential, Call
<1>2. /\ tokens \in Seq(AccessTokens)
      /\ now \in Nat /\ now' \in {now, now + 1}
  BY TimePasses DEF TypeOK, AccessTypeOK
<1>3. t \in DOMAIN tokens /\ tokens[t] \in AccessTokens /\ ReadsPast(tokens[t])
  BY <1>2 DEF HasLapsedEarly
<1>4. /\ t \in DOMAIN tokens'
      /\ tokens'[t].offset = tokens[t].offset
      /\ tokens'[t].expires = tokens[t].expires
  <2>1. CASE tokens' = tokens
    BY <1>3, <2>1
  <2>2. ASSUME NEW g \in Handlers, CreateAccessToken(g), tokens' # tokens
        PROVE  DOMAIN tokens \subseteq DOMAIN tokens' /\ \A u \in DOMAIN tokens : tokens'[u] = tokens[u]
    <3>1. PICK new : tokens' = Append(tokens, new)
      BY <2>2 DEF CreateAccessToken, InsertAccessToken
    <3>. QED
      BY <1>2, <3>1
  <2>3. ASSUME NEW g \in Handlers, RevokeAccessToken(g), tokens' # tokens
        PROVE  /\ t \in DOMAIN tokens'
               /\ tokens'[t].offset = tokens[t].offset
               /\ tokens'[t].expires = tokens[t].expires
    <3>1. PICK u \in DOMAIN tokens : tokens' = [tokens EXCEPT ![u].live = FALSE]
      BY <2>3 DEF RevokeAccessToken, RevokeToken
    <3>. QED
      BY <1>2, <1>3, <3>1 DEF AccessTokens
  <2>. QED
    BY <1>3, <2>1, <2>2, <2>3, Writers
<1>5. ReadsPast(tokens[t])'
  BY <1>1, <1>2, <1>3, <1>4 DEF ReadsPast, AccessTokens
<1>. QED
  BY <1>1, <1>3, <1>4, <1>5 DEF HasLapsedEarly

LEMMA AdmittedKept ==
  ASSUME TypeOK, [Next]_vars, NEW h \in Handlers, Evidence(h), EntitledNow(h), Recognized(h),
         Admitted(h)
  PROVE  Admitted(h)'
<1>0. request \in [Handlers -> RequestStates] /\ request[h] \in RequestStates
  BY DEF TypeOK
<1>1. setting' = setting
  BY WorldGrows
<1>2. CASE request'[h] = request[h]
  BY <1>1, <1>2, AlwaysKept, LapsedStays DEF Admitted, Starting, Call
<1>3. ASSUME NEW c, Begin(h, c)
      PROVE  Admitted(h)'
  BY <1>0, <1>3 DEF Begin, Blank, Admitted
<1>4. CASE Restart
  BY <1>4 DEF Restart, Blank, Admitted
<1>5. CASE DatabaseFails(h)
  <2>1. AnswerFault(h, "bad") \/ AnswerFault(h, "unavailable")
    BY <1>5 DEF DatabaseFails
  <2>2. request'[h].fault /\ request'[h].result \in {"bad", "unavailable"}
    BY <1>0, <2>1 DEF AnswerFault, Answered, Blank
  <2>. QED
    BY <2>2 DEF Admitted
<1>6. CASE BuildStep(h) \/ AdminStep(h)
  <2>1. /\ request'[h].call = request[h].call
        /\ request'[h].pc = "done" =>
             \/ request'[h].result \in {"ok", "bad", "missing"}
             \/ request'[h].result = "unavailable" /\ Call(h).op \in KeyOps /\ ~setting.encryption
    BY <1>6, ActingMoves
  <2>. QED
    BY <1>1, <2>1 DEF Admitted, Call
<1>7. ASSUME AuthenticationStep(h), request'[h].pc = "done", alwaysEntitled'[h],
             ~HasLapsedEarly(Credential(h))'
      PROVE  \/ request'[h].result = "bad"
             \/ request'[h].result = "unavailable" /\ request'[h].fault
  <2>1. request[h].pc \notin {"idle", "done"}
    BY <1>7, AuthenticationMoves
  <2>2. alwaysEntitled[h] /\ Entitled(h, published)
    BY <1>7, <2>1, AlwaysKept DEF Starting, EntitledNow
  <2>3. ~HasLapsedEarly(Credential(h))
    BY <1>7, AuthenticationMoves, LapsedStays
  <2>4. \A identity : ~Identify(h, identity)
    BY <1>0, <1>7 DEF Identify, RequestStates
  <2>5. \A rejection, pc : pc \in {"oidc", "token"} => ~Reject(h, rejection, pc)
    BY <1>0, <1>7 DEF Reject, RequestStates
  <2>6. \A pc : pc \in {"static", "discovery", "jwks", "select", "act"} => ~Goto(h, pc)
    BY <1>0, <1>7 DEF Goto, RequestStates
  <2>7. CASE ReadBuildContext(h)
    <3>1. Answer(h, "bad")
      BY <2>6, <2>7 DEF ReadBuildContext
    <3>. QED
      BY <1>0, <3>1 DEF Answer, Answered, Blank
  <2>8. CASE LookUpToken(h)
    <3>. DEFINE c == Credential(h)
                rejected == request[h].rejections
                              \cup {IF c.kind = "none" THEN "missing" ELSE "invalid"}
    <3>1. /\ ~(c.kind = "token" /\ ListActiveTokens(c.token) # {})
          /\ Answer(h, RejectionStatus(CombinedRejection(rejected)))
      BY <2>4, <2>8 DEF LookUpToken
    <3>2. ~IsAdmin(c) /\ request[h].pc = "token"
      BY <2>8 DEF LookUpToken, At, Recognized
    <3>3. HoldsIdentity(c, published)
      BY <2>2, <2>3, <3>1, <3>2, EntitledHolds, ActiveIsGood DEF HoldsToken, HasLapsedEarly
    <3>4. request[h].fault /\ "unavailable" \in request[h].rejections
      BY <2>2, <3>2, <3>3 DEF Recognized, HoldsIdentity
    <3>5. RejectionStatus(CombinedRejection(rejected)) = "unavailable"
      BY <3>4 DEF RejectionStatus, CombinedRejection
    <3>. QED
      BY <1>0, <3>1, <3>4, <3>5 DEF Answer, Answered, Blank
  <2>9. ~Authorize(h)
    BY <2>2, <2>3, <2>6, VerdictAdmits DEF Authorize
  <2>10. CASE SelectKey(h)
    <3>1. request' # [request EXCEPT ![h].refreshed = TRUE, ![h].pc = "discovery"]
      BY <1>0, <1>7 DEF RequestStates
    <3>. QED
      BY <2>4, <2>5, <2>10, <3>1 DEF SelectKey
  <2>11. CASE ReadCache(h)
    <3>1. request' # [request EXCEPT ![h].fetched = cache, ![h].pc = "select"]
      BY <1>0, <1>7 DEF RequestStates
    <3>. QED
      BY <2>5, <2>6, <2>11, <3>1 DEF ReadCache
  <2>12. CASE FetchKeys(h) \/ FetchFails(h)
    BY <1>0, <1>7, <2>12 DEF FetchKeys, FetchFails, RequestStates
  <2>13. CASE CheckStaticToken(h) \/ FetchDiscovery(h) \/ StoreKeys(h)
    BY <2>4, <2>5, <2>6, <2>13 DEF CheckStaticToken, FetchDiscovery, StoreKeys
  <2>. QED
    BY <1>7, <2>7, <2>8, <2>9, <2>10, <2>11, <2>12, <2>13 DEF AuthenticationStep
<1>. QED
  BY <1>2, <1>3, <1>4, <1>5, <1>6, <1>7, StepsOfRequest DEF Admitted

-----------------------------------------------------------------------------
(* The inductive invariant *)

ApiInv ==
  /\ TypeOK
  /\ PolicyHasItsRules
  /\ KeyNumbers
  /\ \A h \in Handlers :
       /\ Evidence(h)
       /\ EntitledNow(h)
       /\ Recognized(h)
       /\ Admitted(h)
       /\ KeysOf(h)
       /\ NumberOf(h)

LEMMA InitTyped == Init => TypeOK
<1>. SUFFICES ASSUME Init
              PROVE  TypeOK
  OBVIOUS
<1>1. /\ setting \in Settings
      /\ setting.projects \subseteq Projects /\ setting.bindings \subseteq Bindings
      /\ setting.tokens \in Seq(AccessTokens) /\ setting.builds \in Seq(BuildRows)
      /\ setting.published \subseteq KeyIds
  BY ApiConstants DEF Init
<1>2. AccessTypeOK
  BY <1>1 DEF Init, AccessTypeOK, NoCache
<1>3. AdminTypeOK
  BY <1>1 DEF Init, AdminTypeOK
<1>4. request \in [Handlers -> RequestStates]
  BY BlankTyped DEF Init
<1>5. {everEntitled, alwaysEntitled, alone} \subseteq [Handlers -> BOOLEAN]
  BY DEF Init
<1>. QED
  BY <1>1, <1>2, <1>3, <1>4, <1>5 DEF TypeOK

LEMMA InitInv == Init => ApiInv
<1>. SUFFICES ASSUME Init
              PROVE  ApiInv
  OBVIOUS
<1>1. TypeOK
  BY InitTyped
<1>2. ASSUME NEW h \in Handlers
      PROVE  /\ request[h].pc = "idle" /\ request[h].identity = "nobody"
             /\ request[h].result = "none" /\ request[h].number = Given
             /\ ~request[h].keyed /\ ~request[h].refreshed /\ ~alwaysEntitled[h]
             /\ Call(h) = NoCall
  BY DEF Init, Blank, Call
<1>3. PolicyHasItsRules
  BY <1>2 DEF Init, PolicyHasItsRules, At
<1>4. KeyNumbers
  BY DEF Init, KeyNumbers
<1>5. ASSUME NEW h \in Handlers
      PROVE  Evidence(h) /\ EntitledNow(h) /\ Recognized(h) /\ Admitted(h) /\ KeysOf(h)
               /\ NumberOf(h)
  <2>1. Evidence(h)
    BY <1>2 DEF Evidence, LookingAtKeys, ActingPlaces
  <2>2. EntitledNow(h) /\ Recognized(h) /\ Admitted(h)
    BY <1>2 DEF EntitledNow, Recognized, Admitted, LookingAtKeys
  <2>3. KeysOf(h) /\ NumberOf(h)
    BY <1>2 DEF KeysOf, NumberOf
  <2>. QED
    BY <2>1, <2>2, <2>3
<1>. QED
  BY <1>1, <1>3, <1>4, <1>5 DEF ApiInv

LEMMA NextInv == ApiInv /\ [Next]_vars => ApiInv'
<1>. SUFFICES ASSUME ApiInv, [Next]_vars
              PROVE  ApiInv'
  OBVIOUS
<1>1. TypeOK' /\ PolicyHasItsRules' /\ KeyNumbers'
  BY NextTyped, PolicyHasItsRulesKept, KeyNumbersKept DEF ApiInv
<1>2. ASSUME NEW h \in Handlers
      PROVE  /\ Evidence(h)' /\ EntitledNow(h)' /\ Recognized(h)' /\ Admitted(h)'
             /\ KeysOf(h)' /\ NumberOf(h)'
  <2>1. /\ TypeOK /\ PolicyHasItsRules /\ Evidence(h) /\ EntitledNow(h) /\ Recognized(h)
        /\ Admitted(h) /\ KeysOf(h) /\ NumberOf(h)
    BY DEF ApiInv
  <2>2. Evidence(h)' /\ EntitledNow(h)'
    BY <2>1, EvidenceKept, EntitledNowKept
  <2>3. Recognized(h)' /\ Admitted(h)'
    BY <2>1, RecognizedKept, AdmittedKept
  <2>4. KeysOf(h)' /\ NumberOf(h)'
    BY <2>1, KeysOfKept, NumberOfKept
  <2>. QED
    BY <2>2, <2>3, <2>4
<1>. QED
  BY <1>1, <1>2 DEF ApiInv

\* The invariant of the write API: what the authentication has found out is true of the
\* credential, and what a request counted or looked up of keys and policies still
\* holds where the request relies on it.
THEOREM ApiInductive == Spec => []ApiInv
<1>. QED
  BY InitInv, NextInv, PTL DEF Spec

-----------------------------------------------------------------------------
(* What the invariant gives *)

\* The tables of the write API and the local variables of its handlers have their types.
THEOREM ApiTypes == Spec => []TypeOK
<1>1. ApiInv => TypeOK
  BY DEF ApiInv
<1>. QED
  BY <1>1, ApiInductive, PTL

\* authenticate_headers and authorize_project_ref let a request act only with a
\* credential that entitled its holder to it while the request ran, as long as no
\* client gives the expiry date of an access token east of UTC.
THEOREM ActingSafe ==
  ASSUME NoDatesEast
  PROVE  Spec => []EntitledWhenActing
<1>. DEFINE Inv == NoTokensEast /\ \A h \in Handlers : Acted(h)
<1>1. Init => Inv
  <2>. SUFFICES ASSUME Init
                PROVE  Inv
    OBVIOUS
  <2>1. NoTokensEast
    BY DEF Init, NoDatesEast, NoTokensEast
  <2>2. ASSUME NEW h \in Handlers
        PROVE  Acted(h)
    <3>1. request[h].pc = "idle" /\ request[h].result = "none"
      BY DEF Init, Blank
    <3>. QED
      BY <3>1 DEF Acted, ActingPlaces
  <2>. QED
    BY <2>1, <2>2
<1>2. ApiInv /\ Inv /\ [Next]_vars => Inv'
  BY EastKept, ActedKept DEF ApiInv
<1>3. Inv => EntitledWhenActing
  BY DEF EntitledWhenActing, Acted
<1>. QED
  BY <1>1, <1>2, <1>3, ApiInductive, PTL DEF Spec

\* The chain of authorizers, with the keys that OidcAuthorizer caches, never turns
\* away a credential that is good from the beginning of the request to its end, unless
\* it is an access token whose expiry, written west of UTC, reads as past.
THEOREM AdmittedSafe == Spec => []EntitledIsAdmitted
<1>1. ApiInv => EntitledIsAdmitted
  BY DEF ApiInv, Admitted, EntitledIsAdmitted
<1>. QED
  BY <1>1, ApiInductive, PTL

\* upsert_project answers 2xx only when the project has an active signing key, if the
\* server signs for projects.
THEOREM UpsertedSafe == Spec => []UpsertedProjectHasKey
<1>1. ApiInv => UpsertedProjectHasKey
  BY DEF ApiInv, KeysOf, UpsertedProjectHasKey
<1>. QED
  BY <1>1, ApiInductive, PTL

\* next_project_signing_key_name gives no name twice to requests that do not overlap.
THEOREM NumbersSafe == Spec => []NumberedKeysDiffer
<1>1. ApiInv => NumberedKeysDiffer
  BY NumbersDiffer DEF ApiInv
<1>. QED
  BY <1>1, ApiInductive, PTL

\* ensure_project_signing_key adds no key to a project that has one.
THEOREM SparedSafe == Spec => UpsertSparesKeys
<1>1. ApiInv /\ [Next]_vars =>
        [\A h \in Handlers :
           request[h].keyed /\ request[h].pc \in ActingPlaces /\ request'[h] # request[h] =>
             keys' = keys]_vars
  BY KeysSpared DEF ApiInv
<1>. QED
  BY <1>1, ApiInductive, PTL DEF Spec, UpsertSparesKeys

\* The pin handlers change pins of the scope that the request names.
THEOREM ScopeSafe == Spec => PinsStayInScope
<1>1. ApiInv /\ [Next]_vars =>
        [\A h \in Handlers :
           At(h, "act") /\ request'[h].pc = "done" /\ request[h].identity # "admin" =>
             \A p \in (pins \ pins') \cup (pins' \ pins) : p.scope = Call(h).project]_vars
  BY PinsInScope DEF ApiInv
<1>. QED
  BY <1>1, ApiInductive, PTL DEF Spec, PinsStayInScope

\* get_project_retention_policy never answers a policy without its rules.
THEOREM RulesSafe == Spec => PolicyHasRules
<1>1. ApiInv /\ [Next]_vars =>
        [\A h \in Handlers :
           At(h, "rules") /\ request'[h].result = "ok" => request'[h].found # NoPolicy]_vars
  BY RulesAnswered DEF ApiInv
<1>. QED
  BY <1>1, ApiInductive, PTL DEF Spec, PolicyHasRules
=============================================================================
