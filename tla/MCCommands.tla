----------------------------- MODULE MCCommands -----------------------------
(***************************************************************************)
(* Constants for TLC: a script that provisions a project, run by one and   *)
(* by two administrators, and one that goes through retention policies.    *)
(***************************************************************************)
EXTENDS Commands

MCMatches == [p \in Patterns |-> {"main"}]

MCRefs == {<<"heads", "main">>, <<"heads", "master">>, <<"heads", "trunk">>, <<"tags", "v1">>,
           <<"heads", "release", "1">>, <<"pull", "7", "merge">>, <<"merge-requests", "7", "head">>,
           <<"heads", "feature">>, <<"heads", "main", "old">>, <<"nightly">>}

Days14 == [amount |-> 14, unit |-> "d"]
RuleText(priority, ttl, keep, count) ==
  [priority |-> priority, pattern |-> Below(<<>>), ttl |-> ttl, keep |-> keep, count |-> count]
Arguments(list) == [keep_builds |-> 4, grace |-> [amount |-> 24, unit |-> "h"], rules |-> list]
MCCustomSets ==
  [custom |-> Arguments(<<RuleText(10, Days14, "default", 0), RuleText(5, Days14, "count", 1)>>),
   twice |-> Arguments(<<RuleText(10, Days14, "default", 0), RuleText(10, Days14, "count", 1)>>),
   zero |-> Arguments(<<RuleText(10, Days14, "count", 0)>>),
   none |-> Arguments(<<>>)]

Simple(op) == [op |-> op, project |-> "p", flag |-> TRUE]
Identity(op, patterns) ==
  [op |-> op, project |-> "p", flag |-> TRUE, repository |-> "repo", patterns |-> patterns]
PinIn(op, scope) == [op |-> op, project |-> scope, flag |-> TRUE, name |-> "pin"]
Set(policy) == [op |-> "set_retention", project |-> "p", flag |-> FALSE, policy |-> policy]
Upstream(op, enabled) ==
  [op |-> op, project |-> "p", flag |-> TRUE, upstream |-> "u", enabled |-> enabled]

Provision == <<Simple("create_project"), Identity("add_identity", {"m*"}), PinIn("delete_pin", Global),
               Upstream("set_upstream", FALSE), Upstream("upsert_upstream", TRUE),
               Upstream("link", TRUE), Set("balanced")>>
Retire == <<Identity("remove_identity", {}),
            [op |-> "revoke_token", project |-> "p", flag |-> TRUE, token |-> 1],
            Upstream("unlink", TRUE), Upstream("set_upstream", FALSE), Simple("reset_retention"),
            PinIn("create_pin", Global), Simple("rotate_key"),
            [op |-> "create_token", project |-> "p", flag |-> FALSE, patterns |-> {}]>>
Policy == <<Set("aggressive"), Set("zero"), Set("conservative"), Simple("reset_retention"),
            Set("conservative"), Set("twice"), Set("custom"), Set("balanced"),
            Simple("reset_retention"), Set("aggressive"), Set("balanced")>>

Token == [project |-> "p", patterns |-> {Any}, expires |-> Never, offset |-> 0, live |-> TRUE]
Start(first, second) ==
  [projects |-> {}, tokens |-> <<Token>>, scripts |-> [a |-> first, b |-> second]]
Started(first, second) == [Start(first, second) EXCEPT !.projects = {"p"}]

MCSettings == {Start(Provision, Provision), Start(Provision \o Retire, <<>>),
               Started(Retire, Retire), Started(Policy, <<>>), Started(Policy, Policy)}
=============================================================================
