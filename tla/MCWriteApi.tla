----------------------------- MODULE MCWriteApi -----------------------------
(***************************************************************************)
(* Constants for TLC: servers and the calls that their clients make.  Each *)
(* setting is a question of its own, so that the calls of one do not       *)
(* multiply the states of another.                                         *)
(***************************************************************************)
EXTENDS WriteApi

MCMatches == [p \in Patterns |-> {"main"}]

Static == [kind |-> "static"]
Nothing == [kind |-> "none"]
Wrong == [kind |-> "unknown"]
Token(t) == [kind |-> "token", token |-> t]
Oidc(key, ref, bound) ==
  [kind |-> "oidc", key |-> key, repository |-> "repo", ref |-> ref, bound |-> bound]

BeginBy(c, project, ref) ==
  [op |-> "begin", credential |-> c, project |-> project, ref |-> ref]
ForBuild(op, c, build) == [op |-> op, credential |-> c, build |-> build]
ForProject(op, c, project) == [op |-> op, credential |-> c, project |-> project]
Pin(op, c, scope) == [op |-> op, credential |-> c, project |-> scope, name |-> "pin"]
Generate(named) ==
  [op |-> "generate_key", credential |-> Static, project |-> "p", named |-> named]
Bind(patterns) == [op |-> "bind", credential |-> Static, project |-> "p",
                   repository |-> "repo", patterns |-> patterns]
ForUpstream(op, enabled) ==
  [op |-> op, credential |-> Static, project |-> "p", upstream |-> "u", enabled |-> enabled]
NewToken(patterns, expires, offset) ==
  [op |-> "create_token", credential |-> Static, project |-> "p", patterns |-> patterns,
   expires |-> expires, offset |-> offset]
Revoke(t) == [op |-> "revoke", credential |-> Static, token |-> t]

Server == [static |-> TRUE, oidc |-> FALSE, encryption |-> FALSE, requests |-> 3, horizon |-> 0,
           projects |-> {"p", "q"}, bindings |-> {}, tokens |-> <<>>, builds |-> <<>>,
           published |-> {1}, calls |-> {}]

Row(project, pattern) == [project |-> project, repository |-> "repo", pattern |-> pattern]
TokenRow(patterns, expires) ==
  [project |-> "p", patterns |-> patterns, expires |-> expires, offset |-> 0, live |-> TRUE]
WesternRow(expires) == [TokenRow({Any}, expires) EXCEPT !.offset = -1]

\* Tokens of a provider that rotates its keys.
Rotation == [Server EXCEPT !.oidc = TRUE, !.bindings = {Row("p", "m*"), Row("q", Any)},
  !.calls = {BeginBy(Oidc(1, "main", TRUE), "p", "main"),
             BeginBy(Oidc(2, "main", TRUE), "p", "main")}]

\* Bindings that change, for tokens with and without a ref, of another project, or not
\* as the configuration wants them.
Binding == [Server EXCEPT !.oidc = TRUE, !.requests = 2, !.bindings = {Row("p", "m*")},
  !.calls = {BeginBy(Oidc(1, "main", TRUE), "p", "main"),
             BeginBy(Oidc(1, "dev", TRUE), "p", "main"),
             BeginBy(Oidc(1, None, TRUE), "p", "dev"),
             BeginBy(Oidc(1, "main", TRUE), "q", "main"),
             BeginBy(Oidc(1, "main", FALSE), "p", "main"),
             BeginBy(Nothing, "p", "main"), BeginBy(Wrong, "p", "main"),
             Pin("create_pin", Oidc(1, "dev", TRUE), "p"),
             Bind({}), Bind({"m*"}), 
             [op |-> "unbind", credential |-> Static, project |-> "p", repository |-> "repo"]}]

\* Access tokens that expire and are revoked.
Expiry == [Server EXCEPT !.horizon = 1, !.tokens = <<TokenRow({"m*"}, 1)>>,
  !.calls = {BeginBy(Token(1), "p", "main"), BeginBy(Token(1), "p", "dev"),
             BeginBy(Token(2), "p", "dev"), BeginBy(Token(1), "q", "main"),
             NewToken({}, Never, 0), Revoke(1), Revoke(2), Pin("create_pin", Token(1), Global)}]

\* Expiry dates written west of UTC: the text of the first is past a tick before it is.
West == [Server EXCEPT !.horizon = 1, !.tokens = <<WesternRow(2)>>,
  !.calls = {BeginBy(Token(1), "p", "main"), BeginBy(Token(2), "p", "main"),
             NewToken({}, 3, -1), Revoke(2)}]

\* The operations of a build.
Building == [Server EXCEPT !.requests = 2, !.tokens = <<TokenRow({"m*"}, Never)>>,
  !.builds = <<[project |-> "p", ref |-> "main"], [project |-> "p", ref |-> "dev"]>>,
  !.calls = {ForBuild(op, Token(1), 1) : op \in BuildOps}
              \cup {ForBuild("register", Token(1), b) : b \in {2, 3}} \cup {Revoke(1)}]

\* The signing keys of a project that does not exist at the start.
Signing == [Server EXCEPT !.encryption = TRUE, !.projects = {},
  !.calls = {ForProject("upsert_project", Static, "p"), Generate(TRUE), Generate(FALSE),
             ForProject("import_key", Static, "p")}]

\* A retention policy, and pins in two scopes.
Keeping == [Server EXCEPT !.tokens = <<TokenRow({Any}, Never)>>,
  !.calls = {ForProject("get_policy", Static, "p"), ForProject("delete_policy", Static, "p"),
             [op |-> "put_policy", credential |-> Static, project |-> "p", policy |-> "policy"]}]

Pinning == [Server EXCEPT !.tokens = <<TokenRow({Any}, Never)>>,
  !.calls = {Pin("create_pin", Token(1), "p"), Pin("delete_pin", Token(1), "p"),
             Pin("create_pin", Static, Global), Pin("list_pins", Token(1), "p")}]

\* Upstreams, and what a server without key encryption key refuses.
Upstreaming == [Server EXCEPT !.requests = 2,
  !.calls = {ForUpstream("upsert_upstream", TRUE), ForUpstream("set_upstream", FALSE),
             ForUpstream("link", TRUE), ForUpstream("unlink", TRUE), Generate(FALSE),
             ForProject("import_key", Static, "p"), ForProject("gc", Static, Global),
             ForProject("list", Static, "p"), ForProject("upsert_project", Static, "p")}]

MCSettings == {Rotation, Binding, Expiry, West, Building, Signing, Keeping, Pinning, Upstreaming}

\* The expiry of a token as a client two ticks ahead of UTC writes it.
Abroad == [Server EXCEPT !.requests = 2, !.horizon = 1,
  !.calls = {NewToken({}, 1, 2), BeginBy(Token(1), "p", "main")}]
MCAbroad == {Abroad}
=============================================================================
