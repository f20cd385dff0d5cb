------------------------------ MODULE Commands ------------------------------
(***************************************************************************)
(* Administrators at work with depot-ctl (crates/depot-ctl), which makes   *)
(* one or two calls of the HTTP client (crates/depot-client) per command.  *)
(* A server executes each call on the tables of Administration; a request  *)
(* or its answer may be lost.                                              *)
(*                                                                         *)
(* Each administrator works through a script, and enters a command again   *)
(* until it exits without an error; a command whose arguments depot-ctl or *)
(* the server refuses for what they are is given up.                       *)
(***************************************************************************)
EXTENDS Administration, RetentionRules

CONSTANTS
  Administrators,
  Settings,   \* rows the server starts with, and the scripts
  MaxFaults   \* bound: calls that go wrong

Refused(c) == c.op = "set_retention" /\ c.policy \notin Profiles /\ ~CustomSetParses(c.policy)

UpstreamOps == {"upsert_upstream", "set_upstream", "link", "unlink"}

\* A command of a script.  A custom policy that is not refused is one of Policies.
WellFormed(c) ==
  /\ c.project \in Projects \/ (c.op \in {"create_pin", "delete_pin"} /\ c.project = Global)
  /\ c.op \in {"create_pin", "delete_pin"} => c.name \in PinNames
  /\ c.op = "add_identity" => c.repository \in Repositories
  /\ c.op \in {"add_identity", "create_token"} => c.patterns \subseteq Patterns
  /\ c.op = "set_retention" /\ ~Refused(c) /\ (c.policy \in Profiles \/ PrioritiesDiffer(c.policy))
       => c.policy \in Policies
  /\ c.op \in UpstreamOps => c.upstream \in UpstreamNames

ASSUME CommandConstants ==
  /\ NoPolicy \notin Policies
  /\ MaxFaults \in Nat
  /\ \A s \in Settings :
       /\ s.projects \subseteq Projects
       /\ s.tokens \in Seq(AccessTokens)
       /\ \A a \in Administrators :
            LET script == s.scripts[a]
            IN  /\ script \in Seq({script[i] : i \in DOMAIN script})
                /\ \A i \in DOMAIN script : WellFormed(script[i])

VARIABLES
  at,      \* number of the command in each administrator's script
  pc,      \* "enter" or enter again, "list" first, "call", and the answer is on its way
  answer,  \* "ok" for 2xx, "missing" for 404, "bad" for any other status
  faults

commandVars == <<at, pc, answer, faults>>
vars == <<accessVars, adminVars, commandVars>>

Script(a) == setting.scripts[a]
Ended(a) == at[a] > Len(Script(a))
Command(a) == Script(a)[at[a]]
Doing(a, op) == ~Ended(a) /\ pc[a] = "call" /\ Command(a).op = op

TypeOK ==
  /\ AccessTypeOK /\ AdminTypeOK
  /\ at \in [Administrators -> Nat]
  /\ \A a \in Administrators : at[a] \in 1..(Len(Script(a)) + 1)
  /\ pc \in [Administrators -> {"enter", "list", "call", "answered"}]
  /\ answer \in [Administrators -> {"none", "ok", "missing", "bad"}]
  /\ faults \in 0..MaxFaults

TablesUnchanged == UNCHANGED <<accessVars, adminVars>>
ServerUnchanged == UNCHANGED <<setting, now, providerVars, builds>>

Goto(a, place) == pc' = [pc EXCEPT ![a] = place] /\ UNCHANGED <<at, answer>>

Exit(a) ==
  /\ at' = [at EXCEPT ![a] = @ + 1]
  /\ pc' = [pc EXCEPT ![a] = "enter"]
  /\ answer' = [answer EXCEPT ![a] = "none"]

\* The command exits with an error, and is entered again.
Fail(a) ==
  /\ pc' = [pc EXCEPT ![a] = "enter"]
  /\ answer' = [answer EXCEPT ![a] = "none"]
  /\ UNCHANGED at

-----------------------------------------------------------------------------
\* depot-ctl: the arguments (Refused), and the lists that --if-not-exists asks for

ListsFirst(c) == c.op \in {"create_project", "add_identity"} /\ c.flag

Enter(a) ==
  /\ ~Ended(a) /\ pc[a] = "enter"
  /\ IF Refused(Command(a)) THEN Exit(a)
     ELSE Goto(a, IF ListsFirst(Command(a)) THEN "list" ELSE "call")
  /\ TablesUnchanged /\ UNCHANGED faults

AlreadyThere(c) ==
  \/ c.op = "create_project" /\ c.project \in projects
  \/ c.op = "add_identity" /\ BoundTo(c.project, c.repository) # {}

\* The list of identities of a project that does not exist is an error.
ListExisting(a) ==
  /\ ~Ended(a) /\ pc[a] = "list"
  /\ IF AlreadyThere(Command(a)) THEN Exit(a)
     ELSE IF Command(a).op = "add_identity" /\ Command(a).project \notin projects THEN Fail(a)
     ELSE Goto(a, "call")
  /\ TablesUnchanged /\ UNCHANGED faults

\* Mutant of Conclude: an absent object is an error whatever the flag.
ConcludeStrictly(a) ==
  /\ pc[a] = "answered"
  /\ IF answer[a] = "ok" THEN Exit(a) ELSE Fail(a)
  /\ TablesUnchanged /\ UNCHANGED faults

\* 404 is "missing", no error with --ignore-missing; a policy that the server refuses
\* is not set again.
Conclude(a) ==
  /\ pc[a] = "answered"
  /\ IF \/ answer[a] = "ok"
        \/ answer[a] = "missing" /\ Command(a).flag
        \/ /\ answer[a] = "bad"
           /\ Command(a).op = "set_retention"
           /\ Command(a).policy \notin Profiles
           /\ ~PrioritiesDiffer(Command(a).policy)
       THEN Exit(a) ELSE Fail(a)
  /\ TablesUnchanged /\ UNCHANGED faults

-----------------------------------------------------------------------------
\* The server: one action per call that changes a table

Respond(a, status) ==
  /\ answer' = [answer EXCEPT ![a] = status]
  /\ pc' = [pc EXCEPT ![a] = "answered"]
  /\ UNCHANGED <<at, faults>>

Found(condition) == IF condition THEN "ok" ELSE "missing"

\* The answer when the project is unknown is 400; a pin needs none.
Known(a) == Command(a).project \in projects \cup {Global}

InProject(a, status) == IF Known(a) THEN status ELSE "bad"

Server == <<setting, now, providerVars, builds>>
OnlyProjects == UNCHANGED <<Server, bindings, tokens, policies, rules, pins, upstreams, links>>
OnlyBindings == UNCHANGED <<Server, projects, tokens, keys, policies, rules, pins, upstreams, links>>
OnlyTokens == UNCHANGED <<Server, projects, bindings, keys, policies, rules, pins, upstreams, links>>
OnlyKeys == UNCHANGED <<Server, tableVars, policies, rules, pins, upstreams, links>>
OnlyPolicies == UNCHANGED <<Server, tableVars, keys, pins, upstreams, links>>
OnlyPins == UNCHANGED <<Server, tableVars, keys, policies, rules, upstreams, links>>
OnlyUpstreams == UNCHANGED <<Server, tableVars, keys, policies, rules, pins, links>>
OnlyLinks == UNCHANGED <<Server, tableVars, keys, policies, rules, pins, upstreams>>

\* A project without an active signing key gets one.
CreateProject(a) ==
  /\ Doing(a, "create_project")
  /\ InsertProject(Command(a).project)
  /\ IF ActiveKey(Command(a).project) = 0
       THEN ReplaceSigningKey(Command(a).project, NextKeyNumber(Command(a).project), TRUE)
       ELSE UNCHANGED keys
  /\ Respond(a, "ok")
  /\ OnlyProjects

AddOidcIdentity(a) ==
  /\ Doing(a, "add_identity")
  /\ IF Known(a)
       THEN ReplaceProjectOidcIdentity(Command(a).project, Command(a).repository,
                                       Command(a).patterns)
       ELSE UNCHANGED bindings
  /\ Respond(a, InProject(a, "ok"))
  /\ OnlyBindings

RemoveOidcIdentity(a) ==
  /\ Doing(a, "remove_identity")
  /\ DeleteProjectOidcIdentity(Command(a).project, Command(a).repository)
  /\ Respond(a, InProject(a, Found(bindings' # bindings)))
  /\ OnlyBindings

SetRetentionPolicy(a) ==
  /\ Doing(a, "set_retention")
  /\ LET policy == Command(a).policy
         unique == policy \in Profiles \/ PrioritiesDiffer(policy)
     IN  /\ IF unique /\ Known(a)
              THEN ReplaceRetentionPolicy(Command(a).project, policy)
              ELSE UNCHANGED <<policies, rules>>
         /\ Respond(a, InProject(a, IF unique THEN "ok" ELSE "bad"))
  /\ OnlyPolicies

ResetRetentionPolicy(a) ==
  /\ Doing(a, "reset_retention")
  /\ DeleteRetentionPolicy(Command(a).project)
  /\ Respond(a, InProject(a, Found(policies' # policies)))
  /\ OnlyPolicies

CreatePin(a) ==
  /\ Doing(a, "create_pin")
  /\ IF Known(a) THEN UpsertPin(Command(a).project, Command(a).name) ELSE UNCHANGED pins
  /\ Respond(a, InProject(a, "ok"))
  /\ OnlyPins

RemovePin(a) ==
  /\ Doing(a, "delete_pin")
  /\ DeletePin(Command(a).project, Command(a).name)
  /\ Respond(a, InProject(a, Found(pins' # pins)))
  /\ OnlyPins

CreateToken(a) ==
  /\ Doing(a, "create_token")
  /\ IF Known(a)
       THEN InsertAccessToken(Command(a).project, Command(a).patterns, Never, 0)
       ELSE UNCHANGED tokens
  /\ Respond(a, InProject(a, "ok"))
  /\ OnlyTokens

RevokeAccessToken(a) ==
  /\ Doing(a, "revoke_token")
  /\ LET t == Command(a).token
         live == t \in DOMAIN tokens /\ tokens[t].live
     IN  /\ IF live THEN RevokeToken(t) ELSE UNCHANGED tokens
         /\ Respond(a, Found(live))
  /\ OnlyTokens

UpsertUpstream(a) ==
  /\ Doing(a, "upsert_upstream")
  /\ UpsertUpstreamByName(Command(a).upstream, Command(a).enabled)
  /\ Respond(a, "ok")
  /\ OnlyUpstreams

SetUpstreamEnabled(a) ==
  /\ Doing(a, "set_upstream")
  /\ UpdateUpstreamEnabled(Command(a).upstream, Command(a).enabled)
  /\ Respond(a, Found(upstreams[Command(a).upstream] # "absent"))
  /\ OnlyUpstreams

LinkProjectUpstream(a) ==
  /\ Doing(a, "link")
  /\ LET known == upstreams[Command(a).upstream] # "absent"
     IN  /\ IF known /\ Known(a)
              THEN LinkUpstreamByName(Command(a).project, Command(a).upstream)
              ELSE UNCHANGED links
         /\ Respond(a, IF known THEN InProject(a, "ok") ELSE "missing")
  /\ OnlyLinks

UnlinkProjectUpstream(a) ==
  /\ Doing(a, "unlink")
  /\ UnlinkUpstreamByName(Command(a).project, Command(a).upstream)
  /\ Respond(a, InProject(a, Found(links' # links)))
  /\ OnlyLinks

\* Both "keys rotate" and "keys import"; the number and the insertion are one step here.
RotateProjectKey(a) ==
  /\ Doing(a, "rotate_key")
  /\ IF Known(a)
       THEN ReplaceSigningKey(Command(a).project, NextKeyNumber(Command(a).project), TRUE)
       ELSE UNCHANGED keys
  /\ Respond(a, InProject(a, "ok"))
  /\ OnlyKeys

-----------------------------------------------------------------------------
\* Calls that go wrong: the list or the request does not reach the server, its answer
\* is lost, or the server fails, for a project also when it was stored already.

Fault == faults < MaxFaults /\ faults' = faults + 1

CallFails(a) ==
  /\ ~Ended(a) /\ pc[a] \in {"list", "call", "answered"}
  /\ Fault
  /\ Fail(a)
  /\ TablesUnchanged

-----------------------------------------------------------------------------

Init ==
  /\ setting \in Settings
  /\ now = 0
  /\ projects = setting.projects
  /\ bindings = {}
  /\ tokens = setting.tokens
  /\ published = {} /\ everPublished = {} /\ reachable = FALSE /\ cache = NoCache
  /\ builds = <<>>
  /\ keys = [p \in Projects |-> <<>>]
  /\ policies = [p \in Projects |-> NoPolicy]
  /\ rules = [p \in Projects |-> NoPolicy]
  /\ pins = {}
  /\ upstreams = [u \in UpstreamNames |-> "absent"]
  /\ links = {}
  /\ at = [a \in Administrators |-> 1]
  /\ pc = [a \in Administrators |-> "enter"]
  /\ answer = [a \in Administrators |-> "none"]
  /\ faults = 0

ServerStep(a) ==
  \/ CreateProject(a)
  \/ AddOidcIdentity(a)
  \/ RemoveOidcIdentity(a)
  \/ SetRetentionPolicy(a)
  \/ ResetRetentionPolicy(a)
  \/ CreatePin(a)
  \/ RemovePin(a)
  \/ CreateToken(a)
  \/ RevokeAccessToken(a)
  \/ UpsertUpstream(a)
  \/ SetUpstreamEnabled(a)
  \/ LinkProjectUpstream(a)
  \/ UnlinkProjectUpstream(a)
  \/ RotateProjectKey(a)

Step(a) == Enter(a) \/ ListExisting(a) \/ ServerStep(a) \/ Conclude(a)

Next == \E a \in Administrators : Step(a) \/ CallFails(a)

\* Administrators and the server go on; nothing has to go wrong.
Fairness == \A a \in Administrators : WF_vars(Step(a))

Spec == Init /\ [][Next]_vars /\ Fairness

-----------------------------------------------------------------------------
\* Properties

\* What a command is for.
Achieved(c) ==
  CASE c.op = "create_project" -> c.project \in projects
    [] c.op = "add_identity" -> BoundTo(c.project, c.repository) # {}
    [] c.op = "remove_identity" -> BoundTo(c.project, c.repository) = {}
    [] c.op = "set_retention" -> policies[c.project] = c.policy /\ rules[c.project] = c.policy
    [] c.op = "reset_retention" -> policies[c.project] = NoPolicy
    [] c.op = "create_pin" -> [scope |-> c.project, name |-> c.name] \in pins
    [] c.op = "delete_pin" -> [scope |-> c.project, name |-> c.name] \notin pins
    [] c.op = "create_token" ->
         \E t \in DOMAIN tokens :
           tokens[t].project = c.project /\ tokens[t].patterns = NormalizedPatterns(c.patterns)
    [] c.op = "revoke_token" -> ~tokens[c.token].live
    [] c.op \in {"upsert_upstream", "set_upstream"} ->
         upstreams[c.upstream] \in {"absent", Upserted(c.enabled)}
    [] c.op = "link" -> <<c.project, c.upstream>> \in links
    [] c.op = "unlink" -> <<c.project, c.upstream>> \notin links
    [] c.op = "rotate_key" -> keys[c.project] # <<>>

\* Later commands on the same object count instead.
Pairs == {{"add_identity", "remove_identity"}, {"set_retention", "reset_retention"},
          {"create_pin", "delete_pin"}, {"upsert_upstream", "set_upstream"}, {"link", "unlink"}}

Overrides(later, c) ==
  /\ later.project = c.project
  /\ later.op = c.op \/ {later.op, c.op} \in Pairs

GivenUp(c) ==
  /\ c.op = "set_retention" /\ c.policy \notin Profiles
  /\ ~CustomSetParses(c.policy) \/ ~PrioritiesDiffer(c.policy)

Lasting(a, i) ==
  /\ ~GivenUp(Script(a)[i])
  /\ \A j \in (i + 1)..Len(Script(a)) : ~Overrides(Script(a)[j], Script(a)[i])

(***************************************************************************)
(* Scripts whose commands carry --if-not-exists and --ignore-missing come  *)
(* to their end, whichever requests and answers are lost and although two  *)
(* administrators run them at the same time, and what they are for is then *)
(* there to stay: a command that was executed although it failed does no   *)
(* harm when it is entered again.                                          *)
(***************************************************************************)
ScriptsAchieve ==
  \A a \in Administrators :
    <>[](Ended(a) /\ \A i \in DOMAIN Script(a) : Lasting(a, i) => Achieved(Script(a)[i]))

\* A project without policy has the rules of the database, meant as the balanced profile.
Rank == [none |-> 2, aggressive |-> 1, balanced |-> 2, conservative |-> 3]
Ranked == DOMAIN Rank

Kept(project, ref) ==
  IF policies[project] = NoPolicy
  THEN Retention(DefaultRetentionRules, DefaultKeepLatest, ref)
  ELSE Retention(RulesOf(rules[project]), KeepLatestOf(policies[project]), ref)

KeepsAtLeast(more, less) ==
  more.builds >= less.builds /\ more.ttl >= less.ttl

(***************************************************************************)
(* Going to a profile that is not stricter, from or to the built-in policy *)
(* too, never makes the collector keep fewer builds of any ref, or keep    *)
(* them for a shorter time, by the rules stored and the one that applies.  *)
(***************************************************************************)
MilderProfileKeepsMore ==
  [][\A p \in Projects, ref \in Refs :
       (/\ policies[p] \in Ranked /\ policies'[p] \in Ranked
        /\ Rank[policies[p]] <= Rank[policies'[p]])
       => KeepsAtLeast(Kept(p, ref)', Kept(p, ref))]_vars

-----------------------------------------------------------------------------
(***************************************************************************)
(* The inductive invariant behind them: an administrator within a command  *)
(* has one, with arguments that depot-ctl accepts, and the rules of a      *)
(* policy are its own, whichever policies came before it.                  *)
(***************************************************************************)
CommandsInv ==
  /\ TypeOK
  /\ setting \in Settings
  /\ \A a \in Administrators : pc[a] # "enter" => ~Ended(a) /\ ~Refused(Command(a))
  /\ \A p \in Projects : policies[p] # NoPolicy => rules[p] = policies[p]
=============================================================================
