------------------------------- MODULE Access -------------------------------
(***************************************************************************)
(* Who may do what in the write API: the tables of OIDC bindings and of    *)
(* access tokens (crates/depot-db), the three authorizers and their chain  *)
(* (crates/depot-auth), and the rules of the authorization service         *)
(* (crates/depot-write/src/authz.rs).  The steps that a request takes      *)
(* through them are in WriteApi.                                           *)
(*                                                                         *)
(* A credential is what the Authorization header of a request holds: none, *)
(* the static write token, a token of an identity provider ("oidc": its    *)
(* key, its repository and ref claims, and whether its audience, subject   *)
(* and bound claims are as configured), an access token by its number, or  *)
(* some other text.                                                        *)
(***************************************************************************)
EXTENDS Integers, Sequences

CONSTANTS
  Projects,
  Repositories,  \* values of the repository claim
  RefNames,
  Patterns,      \* ref patterns other than the empty one
  Matches,       \* the ref names that each of them matches
  KeyIds         \* key ids of the identity provider

Any == "any"    \* the empty pattern, which is read back as None
None == "none"  \* no ref name, no repository

ASSUME AccessConstants ==
  /\ Matches \in [Patterns -> SUBSET RefNames]
  /\ None \notin RefNames \cup Repositories

VARIABLES
  setting,        \* configuration of the server, and the calls that clients make
  now,            \* the time of day
  projects,       \* rows of projects
  bindings,       \* rows of project_oidc_identities
  tokens,         \* rows of access_tokens, with their patterns
  published,      \* keys that the identity provider publishes
  everPublished,  \* history: all it has published
  reachable,      \* the identity provider answers
  cache           \* keys cached by the OidcAuthorizer

accessVars == <<setting, now, projects, bindings, tokens, published, everPublished,
                reachable, cache>>
tableVars == <<projects, bindings, tokens>>
providerVars == <<published, everPublished, reachable, cache>>

Never == 0      \* no expires_at
NoCache == {}   \* a provider publishes one key at least

Identities == {"nobody", "admin", "oidc", "token"}
Rejections == {"disabled", "missing", "invalid", "unavailable"}

Bindings == [project : Projects, repository : Repositories, pattern : Patterns \cup {Any}]
AccessTokens == [project : Projects, patterns : SUBSET (Patterns \cup {Any}),
                 expires : Nat, offset : Int, live : BOOLEAN]

AccessTypeOK ==
  /\ now \in Nat
  /\ projects \subseteq Projects
  /\ bindings \subseteq Bindings
  /\ tokens \in Seq(AccessTokens)
  /\ published \subseteq everPublished
  /\ everPublished \subseteq KeyIds
  /\ cache \subseteq everPublished

-----------------------------------------------------------------------------
(* Tables *)

\* Blank patterns are dropped; no pattern is stored as the empty one.
NormalizedPatterns(patterns) == IF patterns = {} THEN {Any} ELSE patterns

BoundTo(project, repository) ==
  {b \in bindings : b.project = project /\ b.repository = repository}

ReplaceProjectOidcIdentity(project, repository, patterns) ==
  bindings' = (bindings \ BoundTo(project, repository))
                \cup {[project |-> project, repository |-> repository, pattern |-> p] :
                        p \in NormalizedPatterns(patterns)}

DeleteProjectOidcIdentity(project, repository) ==
  bindings' = bindings \ BoundTo(project, repository)

ListMatchingProjectOidcIdentities(repository) ==
  {b \in bindings : b.repository = repository}

InsertAccessToken(project, patterns, expires, offset) ==
  tokens' = Append(tokens, [project |-> project, patterns |-> NormalizedPatterns(patterns),
                            expires |-> expires, offset |-> offset, live |-> TRUE])

RevokeToken(t) == tokens' = [tokens EXCEPT ![t].live = FALSE]

(***************************************************************************)
(* Expiry is stored as text, in the offset from UTC in which the request   *)
(* gave it, and compared with the text of the time in UTC: the text of an  *)
(* instant sorts as much later as its offset is east of UTC, or as much    *)
(* earlier as it is west.                                                  *)
(***************************************************************************)
IsActive(t) == t.live /\ (t.expires = Never \/ t.expires + t.offset > now)

ListActiveTokens(id) == {t \in {id} \cap DOMAIN tokens : IsActive(tokens[t])}

-----------------------------------------------------------------------------
(* Authorizers *)

\* StaticTokenAuthorizer: an identity, or why there is none.
StaticToken(c) ==
  IF ~setting.static THEN "disabled"
  ELSE IF c.kind = "none" THEN "missing"
  ELSE IF c.kind = "static" THEN "admin" ELSE "invalid"

\* The checks that OidcAuthorizer makes with a key of that id at hand.
OidcTokenValid(c) == c.bound

\* ChainAuthorizer when no authorizer accepts.  A chain within the chain, as
\* build_default_authorizer makes it, combines the same.
CombinedRejection(rejections) ==
  IF "unavailable" \in rejections THEN "unavailable"
  ELSE IF "invalid" \in rejections THEN "invalid"
  ELSE IF "missing" \in rejections THEN "missing" ELSE "disabled"

\* authenticate_headers with authorization_error_response: the status of a rejection.
RejectionStatus(rejection) ==
  IF rejection \in {"missing", "invalid"} THEN "unauthorized" ELSE "unavailable"

-----------------------------------------------------------------------------
(* Authorization service *)

RefPatternMatches(pattern, ref) ==
  pattern = Any \/ (ref # None /\ ref \in Matches[pattern])

AuthorizeAdmin(identity) == IF identity = "admin" THEN "ok" ELSE "forbidden"

AuthorizeOidcProject(c, project) ==
  IF /\ c.repository # None
     /\ \E b \in ListMatchingProjectOidcIdentities(c.repository) : b.project = project
    THEN "ok" ELSE "forbidden"

\* Mutant of AuthorizeOidcProjectRef: bindings of other projects count.
AuthorizeOidcAnyProject(c, project, ref) ==
  IF /\ c.ref \in {None, ref}
     /\ c.repository # None
     /\ \E b \in ListMatchingProjectOidcIdentities(c.repository) :
          RefPatternMatches(b.pattern, c.ref)
    THEN "ok" ELSE "forbidden"

AuthorizeOidcProjectRef(c, project, ref) ==
  IF /\ c.ref \in {None, ref}
     /\ c.repository # None
     /\ \E b \in ListMatchingProjectOidcIdentities(c.repository) :
          b.project = project /\ RefPatternMatches(b.pattern, c.ref)
    THEN "ok" ELSE "forbidden"

AuthorizeTokenProject(id, project) ==
  IF ListActiveTokens(id) = {} THEN "unauthorized"
  ELSE IF tokens[id].project = project THEN "ok" ELSE "forbidden"

AuthorizeTokenProjectRef(id, project, ref) ==
  IF ListActiveTokens(id) = {} THEN "unauthorized"
  ELSE IF /\ tokens[id].project = project
          /\ \E p \in tokens[id].patterns : RefPatternMatches(p, ref)
    THEN "ok" ELSE "forbidden"

AuthorizeProject(identity, c, project) ==
  CASE identity = "admin" -> "ok"
    [] identity = "oidc" -> AuthorizeOidcProject(c, project)
    [] OTHER -> AuthorizeTokenProject(c.token, project)

AuthorizeProjectRef(identity, c, project, ref) ==
  CASE identity = "admin" -> "ok"
    [] identity = "oidc" -> AuthorizeOidcProjectRef(c, project, ref)
    [] OTHER -> AuthorizeTokenProjectRef(c.token, project, ref)

-----------------------------------------------------------------------------
(***************************************************************************)
(* What a credential entitles its holder to, said without reference to the *)
(* steps above: for the properties, not for the code.  "keys" are the keys *)
(* that count as the provider's.                                           *)
(***************************************************************************)
Expired(t) == t.expires # Never /\ t.expires <= now

\* The date of a token that was written west of UTC reads as past, by the time in UTC.
ReadsPast(t) == t.offset < 0 /\ t.expires # Never /\ t.expires + t.offset <= now

HasLapsedEarly(c) ==
  c.kind = "token" /\ c.token \in DOMAIN tokens /\ ReadsPast(tokens[c.token])

IsAdmin(c) == setting.static /\ c.kind = "static"

HoldsToken(c, project) ==
  /\ c.kind = "token" /\ c.token \in DOMAIN tokens
  /\ tokens[c.token].live /\ ~Expired(tokens[c.token])
  /\ tokens[c.token].project = project

HoldsIdentity(c, keys) == setting.oidc /\ c.kind = "oidc" /\ c.key \in keys /\ c.bound

EntitledToProject(c, project, keys) ==
  \/ IsAdmin(c)
  \/ HoldsToken(c, project)
  \/ HoldsIdentity(c, keys) /\ \E b \in bindings : b.project = project /\ b.repository = c.repository

EntitledToRef(c, project, ref, keys) ==
  \/ IsAdmin(c)
  \/ HoldsToken(c, project) /\ \E p \in tokens[c.token].patterns : p = Any \/ ref \in Matches[p]
  \/ /\ HoldsIdentity(c, keys)
     /\ c.ref \in {None, ref}
     /\ \E b \in bindings :
          /\ b.project = project
          /\ b.repository = c.repository
          /\ b.pattern = Any \/ (c.ref # None /\ c.ref \in Matches[b.pattern])
=============================================================================
