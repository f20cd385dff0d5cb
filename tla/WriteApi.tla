------------------------------ MODULE WriteApi ------------------------------
(***************************************************************************)
(* The HTTP write API (crates/depot-write): how a request is               *)
(* authenticated, authorized and carried out, query by query, while other  *)
(* requests change bindings, access tokens and signing keys, the identity  *)
(* provider rotates its keys or does not answer, access tokens expire, and *)
(* the server restarts.  What build operations do is in Ingest and what a  *)
(* collection does is in Gc: here they only answer.                        *)
(***************************************************************************)
EXTENDS Administration

CONSTANTS
  Handlers,  \* requests that the server works on at the same time
  Settings,  \* [static, oidc, encryption : BOOLEAN, calls : a set of calls,
             \*  requests, horizon : bounds on their number and on the time,
             \*  projects, bindings, tokens, builds : the tables at the start,
             \*  published : the keys of the provider at the start]
  MaxEvents  \* bound on key rotations, failures of the database and restarts

BuildOps == {"register", "upload", "presign", "complete", "abort", "finalize"}
ProjectOps == {"list_pins", "create_pin", "delete_pin"}
KeyOps == {"generate_key", "import_key"}

\* What the calls of a client name, as far as their operation has it.
WellFormed(c) ==
  /\ c.op = "begin" => c.ref \in RefNames
  /\ c.op = "upsert_project" => c.project \in Projects
  /\ c.op = "create_pin" => c.project \in Projects \cup {Global} /\ c.name \in PinNames
  /\ c.op = "bind" => c.repository \in Repositories /\ c.patterns \subseteq Patterns
  /\ c.op = "create_token" =>
       c.patterns \subseteq Patterns /\ c.expires \in Nat /\ c.offset \in Int
  /\ c.op = "put_policy" => c.policy \in Policies
  /\ c.op \in {"upsert_upstream", "link"} => c.upstream \in UpstreamNames

ASSUME ApiConstants ==
  /\ NoPolicy \notin Policies
  /\ \A s \in Settings :
       /\ s.projects \subseteq Projects
       /\ s.bindings \subseteq Bindings
       /\ s.tokens \in Seq(AccessTokens)
       /\ s.builds \in Seq(BuildRows)
       /\ s.published \subseteq KeyIds
       /\ \A c \in s.calls : WellFormed(c)

VARIABLES
  request,         \* each handler's request and its local variables
  started,         \* bound: requests so far
  events,          \* bound: events so far
  everEntitled,    \* history: the credential entitled its holder to the call at some
                   \* moment since the request began,
  alwaysEntitled,  \* and at every moment
  alone            \* history: no other request made a key for the project meanwhile

historyVars == <<everEntitled, alwaysEntitled, alone>>
vars == <<accessVars, adminVars, request, started, events, historyVars>>

NoCall == [op |-> "none", credential |-> [kind |-> "none"]]

Blank == [pc |-> "idle", call |-> NoCall, fetched |-> {}, refreshed |-> FALSE,
          rejections |-> {}, identity |-> "nobody", number |-> Given, found |-> NoPolicy,
          keyed |-> FALSE, fault |-> FALSE, result |-> "none"]

\* Places behind the authorization of the request.
ActingPlaces == {"act", "ensure", "count", "insert", "rules"}
Places == {"idle", "context", "static", "oidc", "discovery", "jwks", "store", "select",
           "token", "authorize", "done"} \cup ActingPlaces

\* 2xx, 400, 401, 403, 404, 503.
Results == {"none", "ok", "bad", "unauthorized", "forbidden", "missing", "unavailable"}

RequestStates ==
  [pc : Places, call : setting.calls \cup {NoCall}, fetched : SUBSET everPublished,
   refreshed : BOOLEAN, rejections : SUBSET Rejections, identity : Identities,
   number : Nat, found : Policies \cup {NoPolicy}, keyed : BOOLEAN, fault : BOOLEAN,
   result : Results]

TypeOK ==
  /\ setting \in Settings
  /\ AccessTypeOK
  /\ AdminTypeOK
  /\ request \in [Handlers -> RequestStates]
  /\ {everEntitled, alwaysEntitled, alone} \subseteq [Handlers -> BOOLEAN]

-----------------------------------------------------------------------------
(* A request and its answer *)

At(h, pc) == request[h].pc = pc
Call(h) == request[h].call
Credential(h) == Call(h).credential
Goto(h, pc) == request' = [request EXCEPT ![h].pc = pc]

\* What an answered request leaves, for the properties.
Answered(h, result) ==
  [Blank EXCEPT !.pc = "done", !.call = Call(h), !.identity = request[h].identity,
                !.found = request[h].found, !.keyed = request[h].keyed,
                !.fault = request[h].fault, !.result = result]

Answer(h, result) == request' = [request EXCEPT ![h] = Answered(h, result)]

\* The answer to a request that met a failure of the database.
AnswerFault(h, result) ==
  request' = [request EXCEPT ![h] = [Answered(h, result) EXCEPT !.fault = TRUE]]

TablesUnchanged == UNCHANGED <<accessVars, adminVars, started, events>>

HasKey(c) == c.op = "upsert_project" /\ ActiveKey(c.project) > 0

\* A client calls: it can have no access token that has not been created.
Begin(h, c) ==
  /\ request[h].pc \in {"idle", "done"}
  /\ started < setting.requests
  /\ c.credential.kind = "token" => c.credential.token \in DOMAIN tokens
  /\ request' = [request EXCEPT ![h] =
       [Blank EXCEPT !.pc = IF c.op \in BuildOps THEN "context" ELSE "static",
                     !.call = c, !.keyed = HasKey(c)]]
  /\ started' = started + 1
  /\ UNCHANGED <<accessVars, adminVars, events>>

\* require_build_access looks up the build first.
ReadBuildContext(h) ==
  /\ At(h, "context")
  /\ IF Call(h).build \in DOMAIN builds THEN Goto(h, "static") ELSE Answer(h, "bad")
  /\ TablesUnchanged

-----------------------------------------------------------------------------
(* Authentication: the static token, the identity provider, the access tokens *)

Reject(h, rejection, next) ==
  request' = [request EXCEPT ![h].rejections = @ \cup {rejection}, ![h].pc = next]

Identify(h, identity) ==
  request' = [request EXCEPT ![h].identity = identity, ![h].pc = "authorize"]

CheckStaticToken(h) ==
  /\ At(h, "static")
  /\ IF StaticToken(Credential(h)) = "admin"
       THEN Identify(h, "admin")
       ELSE Reject(h, StaticToken(Credential(h)), IF setting.oidc THEN "oidc" ELSE "token")
  /\ TablesUnchanged

\* A token that names the issuer and a key id; the cached keys, if there are any.
ReadCache(h) ==
  /\ At(h, "oidc")
  /\ CASE Credential(h).kind = "none" -> Reject(h, "missing", "token")
       [] Credential(h).kind \notin {"none", "oidc"} -> Reject(h, "invalid", "token")
       [] Credential(h).kind = "oidc" /\ cache = NoCache -> Goto(h, "discovery")
       [] OTHER -> request' = [request EXCEPT ![h].fetched = cache, ![h].pc = "select"]
  /\ TablesUnchanged

FetchDiscovery(h) ==
  /\ At(h, "discovery")
  /\ reachable
  /\ Goto(h, "jwks")
  /\ TablesUnchanged

FetchKeys(h) ==
  /\ At(h, "jwks")
  /\ reachable
  /\ request' = [request EXCEPT ![h].fetched = published, ![h].pc = "store"]
  /\ TablesUnchanged

FetchFails(h) ==
  /\ request[h].pc \in {"discovery", "jwks"}
  /\ ~reachable
  /\ request' = [request EXCEPT ![h].rejections = @ \cup {"unavailable"},
                                ![h].fault = TRUE, ![h].pc = "token"]
  /\ TablesUnchanged

\* What was fetched replaces what is cached, though that may be younger.
StoreKeys(h) ==
  /\ At(h, "store")
  /\ cache' = request[h].fetched
  /\ Goto(h, "select")
  /\ UNCHANGED <<setting, now, projects, bindings, tokens, published, everPublished, reachable, adminVars,
                 started, events>>

\* Mutant of SelectKey: an unknown key id is rejected without asking the provider again.
SelectCachedKey(h) ==
  /\ At(h, "select")
  /\ IF Credential(h).key \in request[h].fetched /\ OidcTokenValid(Credential(h))
       THEN Identify(h, "oidc")
       ELSE Reject(h, "invalid", "token")
  /\ TablesUnchanged

\* Mutant of SelectKey: nothing remembers that the keys were fetched again.
SelectKeyOrRefresh(h) ==
  /\ At(h, "select")
  /\ IF Credential(h).key \in request[h].fetched
       THEN IF OidcTokenValid(Credential(h)) THEN Identify(h, "oidc")
                                             ELSE Reject(h, "invalid", "token")
       ELSE Goto(h, "discovery")
  /\ TablesUnchanged

\* A key id that is not among the keys: they are fetched again, once.
SelectKey(h) ==
  /\ At(h, "select")
  /\ IF Credential(h).key \in request[h].fetched
       THEN IF OidcTokenValid(Credential(h)) THEN Identify(h, "oidc")
                                             ELSE Reject(h, "invalid", "token")
       ELSE IF request[h].refreshed THEN Reject(h, "invalid", "token")
       ELSE request' = [request EXCEPT ![h].refreshed = TRUE, ![h].pc = "discovery"]
  /\ TablesUnchanged

\* DbAccessTokenAuthorizer, the last of the chain.
LookUpToken(h) ==
  LET c == Credential(h)
      rejected == request[h].rejections \cup {IF c.kind = "none" THEN "missing" ELSE "invalid"}
  IN
  /\ At(h, "token")
  /\ IF c.kind = "token" /\ ListActiveTokens(c.token) # {}
       THEN Identify(h, "token")
       ELSE Answer(h, RejectionStatus(CombinedRejection(rejected)))
  /\ TablesUnchanged

-----------------------------------------------------------------------------
(* Authorization *)

ProjectOf(c) == IF c.op \in BuildOps THEN builds[c.build].project ELSE c.project
RefOf(c) == IF c.op \in BuildOps THEN builds[c.build].ref ELSE c.ref

\* require_project_ref_headers, require_project_or_admin_headers, require_admin_headers.
Verdict(identity, c) ==
  CASE c.op \in BuildOps \cup {"begin"} ->
         AuthorizeProjectRef(identity, c.credential, ProjectOf(c), RefOf(c))
    [] c.op \in ProjectOps /\ c.project # Global ->
         AuthorizeProject(identity, c.credential, c.project)
    [] OTHER -> AuthorizeAdmin(identity)

Authorize(h) ==
  /\ At(h, "authorize")
  /\ IF Verdict(request[h].identity, Call(h)) = "ok"
       THEN Goto(h, "act")
       ELSE Answer(h, Verdict(request[h].identity, Call(h)))
  /\ TablesUnchanged

-----------------------------------------------------------------------------
(* What the handlers do for an authorized request *)

Doing(h, op) == At(h, "act") /\ Call(h).op = op
Exists(h) == Call(h).project \in projects

OnlyProjects == UNCHANGED <<setting, now, bindings, tokens, providerVars, adminVars, started, events>>
OnlyBindings == UNCHANGED <<setting, now, projects, tokens, providerVars, adminVars, started, events>>
OnlyTokens == UNCHANGED <<setting, now, projects, bindings, providerVars, adminVars, started, events>>
OnlyBuilds == UNCHANGED <<accessVars, keys, policies, rules, pins, upstreams, links, started, events>>
OnlyKeys == UNCHANGED <<accessVars, builds, policies, rules, pins, upstreams, links, started, events>>
OnlyPolicies == UNCHANGED <<accessVars, builds, keys, pins, upstreams, links, started, events>>
OnlyPins == UNCHANGED <<accessVars, builds, keys, policies, rules, upstreams, links, started, events>>
OnlyUpstreams == UNCHANGED <<accessVars, builds, keys, policies, rules, pins, links, started, events>>
OnlyLinks == UNCHANGED <<accessVars, builds, keys, policies, rules, pins, upstreams, started, events>>

BeginBuild(h) ==
  /\ Doing(h, "begin")
  /\ IF Exists(h)
       THEN InsertBuild(Call(h).project, Call(h).ref) /\ Answer(h, "ok")
       ELSE UNCHANGED builds /\ Answer(h, "bad")
  /\ OnlyBuilds

\* The operations of a build are Ingest's; each may fail there.
HandToIngest(h, op) ==
  /\ Doing(h, op)
  /\ \E result \in {"ok", "bad"} : Answer(h, result)
  /\ TablesUnchanged

RegisterPaths(h) == HandToIngest(h, "register")
UploadObject(h) == HandToIngest(h, "upload")
PresignMultipartUploadPart(h) == HandToIngest(h, "presign")
CompleteMultipartUpload(h) == HandToIngest(h, "complete")
AbortMultipartUpload(h) == HandToIngest(h, "abort")
FinalizeBuild(h) == HandToIngest(h, "finalize")

\* A collection is Gc's.
RunGc(h) ==
  /\ Doing(h, "gc")
  /\ Answer(h, "ok")
  /\ TablesUnchanged

\* The handlers that only list or get, of a project or of all; some of them refuse a
\* project that does not exist, and others have nothing to list.
List(h) ==
  /\ \E op \in {"list_pins", "list"} : Doing(h, op)
  /\ \/ Answer(h, "ok")
     \/ Call(h).project \notin projects \cup {Global} /\ Answer(h, "bad")
  /\ TablesUnchanged

\* The handlers' own checks of the body: a storage that is not configured, a blank
\* name, a date, a URL or a key that does not parse, a policy without rules.
RefuseBody(h) ==
  /\ \E op \in {"gc", "upsert_project", "bind", "create_token", "import_key", "put_policy",
                "upsert_upstream"} : Doing(h, op)
  /\ Answer(h, "bad")
  /\ TablesUnchanged

\* The path may be unknown to the catalog.
CreatePin(h) ==
  /\ Doing(h, "create_pin")
  /\ \/ /\ Exists(h) \/ Call(h).project = Global
        /\ UpsertPin(Call(h).project, Call(h).name)
        /\ Answer(h, "ok")
     \/ UNCHANGED pins /\ Answer(h, "bad")
  /\ OnlyPins

DeletePinByName(h) ==
  /\ Doing(h, "delete_pin")
  /\ DeletePin(Call(h).project, Call(h).name)
  /\ Answer(h, IF ~Exists(h) /\ Call(h).project # Global THEN "bad"
               ELSE IF pins' = pins THEN "missing" ELSE "ok")
  /\ OnlyPins

UpsertProjectOidcIdentity(h) ==
  /\ Doing(h, "bind")
  /\ IF Exists(h)
       THEN /\ ReplaceProjectOidcIdentity(Call(h).project, Call(h).repository, Call(h).patterns)
            /\ Answer(h, "ok")
       ELSE UNCHANGED bindings /\ Answer(h, "bad")
  /\ OnlyBindings

RemoveProjectOidcIdentity(h) ==
  /\ Doing(h, "unbind")
  /\ DeleteProjectOidcIdentity(Call(h).project, Call(h).repository)
  /\ Answer(h, IF ~Exists(h) THEN "bad" ELSE IF bindings' = bindings THEN "missing" ELSE "ok")
  /\ OnlyBindings

CreateAccessToken(h) ==
  /\ Doing(h, "create_token")
  /\ IF Exists(h)
       THEN /\ InsertAccessToken(Call(h).project, Call(h).patterns, Call(h).expires,
                                 Call(h).offset)
            /\ Answer(h, "ok")
       ELSE UNCHANGED tokens /\ Answer(h, "bad")
  /\ OnlyTokens

RevokeAccessToken(h) ==
  /\ Doing(h, "revoke")
  /\ IF Call(h).token \in {t \in DOMAIN tokens : tokens[t].live}
       THEN RevokeToken(Call(h).token) /\ Answer(h, "ok")
       ELSE UNCHANGED tokens /\ Answer(h, "missing")
  /\ OnlyTokens

-----------------------------------------------------------------------------
(* Projects and their signing keys *)

\* upsert_project stores the project, and then sees to a signing key.
UpsertProject(h) ==
  /\ Doing(h, "upsert_project")
  /\ InsertProject(Call(h).project)
  /\ IF setting.encryption THEN Goto(h, "ensure") ELSE Answer(h, "ok")
  /\ OnlyProjects

\* Mutant of EnsureProjectSigningKey: it makes a key each time.
EnsureNewSigningKey(h) == At(h, "ensure") /\ Goto(h, "count") /\ TablesUnchanged

\* Mutant of EnsureProjectSigningKey: it leaves the key to generate_project_signing_key.
EnsureNoSigningKey(h) == At(h, "ensure") /\ Answer(h, "ok") /\ TablesUnchanged

EnsureProjectSigningKey(h) ==
  /\ At(h, "ensure")
  /\ IF ActiveKey(Call(h).project) > 0 THEN Answer(h, "ok") ELSE Goto(h, "count")
  /\ TablesUnchanged

\* A key by a name of the caller's, or by the next number; without the key encryption
\* key there are no signing keys of projects.
GenerateProjectSigningKey(h) ==
  /\ Doing(h, "generate_key")
  /\ IF ~setting.encryption THEN Answer(h, "unavailable")
     ELSE Goto(h, IF Call(h).named THEN "insert" ELSE "count")
  /\ TablesUnchanged

ImportProjectSigningKey(h) ==
  /\ Doing(h, "import_key")
  /\ IF setting.encryption THEN Goto(h, "insert") ELSE Answer(h, "unavailable")
  /\ TablesUnchanged

CountSigningKeys(h) ==
  /\ At(h, "count")
  /\ IF Exists(h)
       THEN request' = [request EXCEPT ![h].number = NextKeyNumber(Call(h).project),
                                       ![h].pc = "insert"]
       ELSE Answer(h, "bad")
  /\ TablesUnchanged

InsertSigningKey(h) ==
  /\ At(h, "insert")
  /\ IF Exists(h)
       THEN /\ ReplaceSigningKey(Call(h).project, request[h].number, alone[h])
            /\ Answer(h, "ok")
       ELSE UNCHANGED keys /\ Answer(h, "bad")
  /\ OnlyKeys

-----------------------------------------------------------------------------
(* Retention policies and upstream caches *)

\* get_project_retention_policy reads the policy and then its rules.
GetProjectRetentionPolicy(h) ==
  /\ Doing(h, "get_policy")
  /\ IF Exists(h) /\ policies[Call(h).project] # NoPolicy
       THEN Goto(h, "rules")
       ELSE Answer(h, IF Exists(h) THEN "ok" ELSE "bad")
  /\ TablesUnchanged

ReadRetentionRules(h) ==
  /\ At(h, "rules")
  /\ request' = [request EXCEPT ![h] =
       [Answered(h, "ok") EXCEPT !.found = rules[Call(h).project]]]
  /\ TablesUnchanged

UpsertProjectRetentionPolicy(h) ==
  /\ Doing(h, "put_policy")
  /\ IF Exists(h)
       THEN ReplaceRetentionPolicy(Call(h).project, Call(h).policy) /\ Answer(h, "ok")
       ELSE UNCHANGED <<policies, rules>> /\ Answer(h, "bad")
  /\ OnlyPolicies

DeleteProjectRetentionPolicy(h) ==
  /\ Doing(h, "delete_policy")
  /\ DeleteRetentionPolicy(Call(h).project)
  /\ Answer(h, IF ~Exists(h) THEN "bad" ELSE IF policies' = policies THEN "missing" ELSE "ok")
  /\ OnlyPolicies

UpsertUpstream(h) ==
  /\ Doing(h, "upsert_upstream")
  /\ UpsertUpstreamByName(Call(h).upstream, Call(h).enabled)
  /\ Answer(h, "ok")
  /\ OnlyUpstreams

SetUpstreamEnabled(h) ==
  /\ Doing(h, "set_upstream")
  /\ UpdateUpstreamEnabled(Call(h).upstream, Call(h).enabled)
  /\ Answer(h, IF upstreams[Call(h).upstream] = "absent" THEN "missing" ELSE "ok")
  /\ OnlyUpstreams

LinkProjectUpstream(h) ==
  /\ Doing(h, "link")
  /\ IF upstreams[Call(h).upstream] = "absent" THEN UNCHANGED links /\ Answer(h, "missing")
     ELSE IF Exists(h)
       THEN LinkUpstreamByName(Call(h).project, Call(h).upstream) /\ Answer(h, "ok")
       ELSE UNCHANGED links /\ Answer(h, "bad")
  /\ OnlyLinks

UnlinkProjectUpstream(h) ==
  /\ Doing(h, "unlink")
  /\ UnlinkUpstreamByName(Call(h).project, Call(h).upstream)
  /\ Answer(h, IF ~Exists(h) THEN "bad" ELSE IF links' = links THEN "missing" ELSE "ok")
  /\ OnlyLinks

-----------------------------------------------------------------------------
(* What happens around the requests *)

Event == events < MaxEvents /\ events' = events + 1

\* A query fails: 400 where the handler made it, 503 where the authorization did.
DatabaseFails(h) ==
  /\ Event
  /\ \/ request[h].pc \in {"context"} \cup ActingPlaces /\ AnswerFault(h, "bad")
     \/ At(h, "token") /\ Credential(h).kind # "none" /\ AnswerFault(h, "unavailable")
     \/ /\ At(h, "authorize")
        /\ request[h].identity # "admin"
        /\ Call(h).op \in BuildOps \cup ProjectOps \cup {"begin"}
        /\ AnswerFault(h, "unavailable")
  /\ UNCHANGED <<accessVars, adminVars, started>>

Restart ==
  /\ Event
  /\ request' = [h \in Handlers |-> Blank]
  /\ cache' = NoCache
  /\ UNCHANGED <<setting, now, projects, bindings, tokens, published, everPublished, reachable,
                 adminVars, started>>

RotateKeys(S) ==
  /\ Event
  /\ published' = S
  /\ everPublished' = everPublished \cup S
  /\ UNCHANGED <<setting, now, projects, bindings, tokens, reachable, cache, adminVars,
                 request, started>>

ProviderComesOrGoes ==
  /\ reachable' = ~reachable
  /\ UNCHANGED <<setting, now, projects, bindings, tokens, published, everPublished, cache,
                 adminVars, request, started, events>>

Tick ==
  /\ now < setting.horizon
  /\ now' = now + 1
  /\ UNCHANGED <<setting, projects, bindings, tokens, providerVars, adminVars, request,
                 started, events>>

-----------------------------------------------------------------------------
(* History, for the properties *)

Starting(h) == request[h].pc \in {"idle", "done"} /\ request'[h].pc \in {"context", "static"}
Ended(h) == request[h].pc = "done" /\ request'[h].pc = "done"

Entitled(h, ids) ==
  LET c == Call(h) IN
  CASE c.op \in BuildOps ->
         c.build \in DOMAIN builds
           /\ EntitledToRef(c.credential, ProjectOf(c), RefOf(c), ids)
    [] c.op = "begin" -> EntitledToRef(c.credential, c.project, c.ref, ids)
    [] c.op \in ProjectOps /\ c.project # Global ->
         EntitledToProject(c.credential, c.project, ids)
    [] OTHER -> IsAdmin(c.credential)

MakingSameKey(g, h) ==
  /\ g # h
  /\ request[g].pc = "insert"
  /\ Call(g).project = Call(h).project

History ==
  /\ everEntitled' = [h \in Handlers |->
       IF Ended(h) THEN everEntitled[h]
       ELSE Entitled(h, everPublished)' \/ (everEntitled[h] /\ ~Starting(h))]
  /\ alwaysEntitled' = [h \in Handlers |->
       IF Ended(h) THEN alwaysEntitled[h]
       ELSE Entitled(h, published)' /\ (alwaysEntitled[h] \/ Starting(h))]
  /\ alone' = [h \in Handlers |->
       request'[h].pc = "insert" =>
         /\ alone[h] \/ request[h].pc # "insert"
         /\ \A g \in Handlers : ~MakingSameKey(g, h)']

-----------------------------------------------------------------------------
(* Specification *)

Init ==
  /\ setting \in Settings
  /\ now = 0
  /\ projects = setting.projects
  /\ bindings = setting.bindings
  /\ tokens = setting.tokens
  /\ published = setting.published
  /\ everPublished = published
  /\ reachable = TRUE
  /\ cache = NoCache
  /\ builds = setting.builds
  /\ keys = [p \in Projects |-> <<>>]
  /\ policies = [p \in Projects |-> NoPolicy]
  /\ rules = [p \in Projects |-> NoPolicy]
  /\ pins = {}
  /\ upstreams = [u \in UpstreamNames |-> "absent"]
  /\ links = {}
  /\ request = [h \in Handlers |-> Blank]
  /\ started = 0
  /\ events = 0
  /\ everEntitled = [h \in Handlers |-> FALSE]
  /\ alwaysEntitled = [h \in Handlers |-> FALSE]
  /\ alone = [h \in Handlers |-> TRUE]

AuthenticationStep(h) ==
  \/ ReadBuildContext(h)
  \/ CheckStaticToken(h)
  \/ ReadCache(h)
  \/ FetchDiscovery(h)
  \/ FetchKeys(h)
  \/ FetchFails(h)
  \/ StoreKeys(h)
  \/ SelectKey(h)
  \/ LookUpToken(h)
  \/ Authorize(h)

BuildStep(h) ==
  \/ BeginBuild(h)
  \/ RegisterPaths(h)
  \/ UploadObject(h)
  \/ PresignMultipartUploadPart(h)
  \/ CompleteMultipartUpload(h)
  \/ AbortMultipartUpload(h)
  \/ FinalizeBuild(h)

AdminStep(h) ==
  \/ RunGc(h)
  \/ List(h)
  \/ RefuseBody(h)
  \/ CreatePin(h)
  \/ DeletePinByName(h)
  \/ UpsertProjectOidcIdentity(h)
  \/ RemoveProjectOidcIdentity(h)
  \/ CreateAccessToken(h)
  \/ RevokeAccessToken(h)
  \/ UpsertProject(h)
  \/ EnsureProjectSigningKey(h)
  \/ GenerateProjectSigningKey(h)
  \/ ImportProjectSigningKey(h)
  \/ CountSigningKeys(h)
  \/ InsertSigningKey(h)
  \/ GetProjectRetentionPolicy(h)
  \/ ReadRetentionRules(h)
  \/ UpsertProjectRetentionPolicy(h)
  \/ DeleteProjectRetentionPolicy(h)
  \/ UpsertUpstream(h)
  \/ SetUpstreamEnabled(h)
  \/ LinkProjectUpstream(h)
  \/ UnlinkProjectUpstream(h)

HandlerStep(h) == AuthenticationStep(h) \/ BuildStep(h) \/ AdminStep(h)

Environment ==
  \/ \E h \in Handlers : DatabaseFails(h)
  \/ Restart
  \/ \E S \in SUBSET KeyIds \ {{}} : setting.oidc /\ RotateKeys(S)
  \/ setting.oidc /\ ProviderComesOrGoes
  \/ Tick

Next ==
  /\ \/ \E h \in Handlers : (\E c \in setting.calls : Begin(h, c)) \/ HandlerStep(h)
     \/ Environment
  /\ History

\* The server goes on with each request: every query returns, and the provider answers
\* every fetch or the connection fails.
Fairness == \A h \in Handlers : WF_vars(HandlerStep(h) /\ History)

Spec == Init /\ [][Next]_vars /\ Fairness

-----------------------------------------------------------------------------
(* Properties *)

\* What a request does, it does with a credential that entitled its holder to it at
\* some moment since the request began: whatever is revoked, replaced, rotated or
\* expires between the lookups of authenticate_headers and authorize_project_ref, or
\* between two requests, no handler acts for another project, for another ref, or for
\* a credential that was no longer good when the request began.
EntitledWhenActing ==
  \A h \in Handlers :
    request[h].pc \in ActingPlaces \/ request[h].result \in {"ok", "missing"}
      => everEntitled[h]

\* A request whose credential is good from its beginning to its end is not refused:
\* the keys cached by OidcAuthorizer, the other requests that fetch them, and the
\* order of the chain never turn it into 401 or 403, and 503 means that the provider
\* or the database failed this request (or that the server makes no signing keys).
\* An access token whose expiry was written west of UTC is good to its holder longer
\* than to the comparison of texts: nothing is said of one whose text has passed.
EntitledIsAdmitted ==
  \A h \in Handlers :
    request[h].pc = "done" /\ alwaysEntitled[h] /\ ~HasLapsedEarly(Credential(h)) =>
      /\ request[h].result \notin {"unauthorized", "forbidden"}
      /\ request[h].result = "unavailable" =>
           request[h].fault \/ (Call(h).op \in KeyOps /\ ~setting.encryption)

\* A request that is not the administrator's changes pins of its own project only: a
\* pin of the same name in another scope stays.
PinsStayInScope ==
  [][\A h \in Handlers :
       At(h, "act") /\ request'[h].pc = "done" /\ request[h].identity # "admin" =>
         \A p \in (pins \ pins') \cup (pins' \ pins) : p.scope = Call(h).project]_vars

\* Repeating upsert_project never retires a signing key: of a project that had one
\* when the request began, ensure_project_signing_key adds none.
UpsertSparesKeys ==
  [][\A h \in Handlers :
       request[h].keyed /\ request[h].pc \in ActingPlaces /\ request'[h] # request[h] =>
         keys' = keys]_vars

\* A project whose upsert was answered 2xx by a server that signs for projects has a
\* signing key, also when an earlier upsert failed between the two halves.
UpsertedProjectHasKey ==
  \A h \in Handlers :
    request[h].result = "ok" /\ Call(h).op = "upsert_project" /\ setting.encryption =>
      ActiveKey(Call(h).project) > 0

\* Two keys of a project that next_project_signing_key_name named have different
\* names, unless the requests that made them overlapped.
NumberedKeysDiffer ==
  \A p \in Projects : \A i, j \in DOMAIN keys[p] :
    i < j /\ keys[p][i].alone /\ keys[p][j].alone /\ keys[p][j].number # Given
      => keys[p][i].number # keys[p][j].number

\* get_project_retention_policy reads the policy and its rules by two queries; a
\* policy that it found is never answered without rules, which would retain nothing.
PolicyHasRules ==
  [][\A h \in Handlers :
       At(h, "rules") /\ request'[h].result = "ok" => request'[h].found # NoPolicy]_vars

\* Every request is answered, or lost in a restart.
RequestsEnd ==
  \A h \in Handlers :
    request[h].pc \notin {"idle", "done"} ~> request[h].pc \in {"idle", "done"}
=============================================================================
