--------------------------- MODULE Administration ---------------------------
(***************************************************************************)
(* The tables that the write API administers, as far as Catalog and Access *)
(* do not have them: builds with their refs (only who they belong to), the *)
(* signing keys of projects, retention policies, pins by name and scope,   *)
(* and upstream caches.  One operator per statement or transaction of      *)
(* crates/depot-db.                                                        *)
(***************************************************************************)
EXTENDS Access

CONSTANTS
  Policies,      \* retention policies that clients put
  PinNames,
  UpstreamNames

VARIABLES
  builds,    \* builds begun: their project and ref
  keys,      \* rows of project_signing_keys by project; the last one is the active one
  policies,  \* rows of project_retention_policies by project
  rules,     \* rows of project_ref_retention_rules: the policy they were put with
  pins,      \* rows of pins: their scope and name
  upstreams, \* rows of upstream_caches: those enabled and those not
  links      \* rows of project_upstreams

adminVars == <<builds, keys, policies, rules, pins, upstreams, links>>

Global == "global"   \* the scope of a pin without project
NoPolicy == "none"
Given == 0           \* stands for a key name that the caller chose

BuildRows == [project : Projects, ref : RefNames]

AdminTypeOK ==
  /\ builds \in Seq(BuildRows)
  /\ keys \in [Projects -> Seq([number : Nat, alone : BOOLEAN])]
  /\ policies \in [Projects -> Policies \cup {NoPolicy}]
  /\ rules \in [Projects -> Policies \cup {NoPolicy}]
  /\ pins \subseteq [scope : Projects \cup {Global}, name : PinNames]
  /\ upstreams \in [UpstreamNames -> {"absent", "enabled", "disabled"}]
  /\ links \subseteq Projects \X UpstreamNames

-----------------------------------------------------------------------------
(* Projects, builds and their signing keys *)

InsertProject(project) == projects' = projects \cup {project}

InsertBuild(project, ref) == builds' = Append(builds, [project |-> project, ref |-> ref])

ActiveKey(project) == Len(keys[project])  \* 0: none

\* Mutant of NextKeyNumber: retired keys are not counted.
CountActiveKeys(project) == (IF ActiveKey(project) = 0 THEN 0 ELSE 1) + 1

\* The name of the next key is the slug of the project with this number.
NextKeyNumber(project) == Len(keys[project]) + 1

\* One transaction: the active key is retired, and this one inserted.  "alone" is
\* history: no other request was making a key for the project meanwhile.
ReplaceSigningKey(project, number, alone) ==
  keys' = [keys EXCEPT ![project] = Append(@, [number |-> number, alone |-> alone])]

-----------------------------------------------------------------------------
(* Retention policies, pins and upstream caches *)

\* One transaction that replaces the policy and its rules.
ReplaceRetentionPolicy(project, policy) ==
  /\ policies' = [policies EXCEPT ![project] = policy]
  /\ rules' = [rules EXCEPT ![project] = policy]

\* Mutant of DeleteRetentionPolicy: its rules go with it.
DeletePolicyAndRules(project) ==
  /\ policies' = [policies EXCEPT ![project] = NoPolicy]
  /\ rules' = [rules EXCEPT ![project] = NoPolicy]

\* The rules stay, and count no more.
DeleteRetentionPolicy(project) ==
  /\ policies' = [policies EXCEPT ![project] = NoPolicy]
  /\ UNCHANGED rules

\* Mutant of UpsertPin: the scope is not resolved.
UpsertPinUnscoped(scope, name) == pins' = pins \cup {[scope |-> None, name |-> name]}

UpsertPin(scope, name) == pins' = pins \cup {[scope |-> scope, name |-> name]}

\* Mutant of DeletePin: the name alone decides.
DeletePinInAnyScope(scope, name) == pins' = {p \in pins : p.name # name}

DeletePin(scope, name) == pins' = pins \ {[scope |-> scope, name |-> name]}

Upserted(enabled) == IF enabled THEN "enabled" ELSE "disabled"

UpsertUpstreamByName(name, enabled) ==
  upstreams' = [upstreams EXCEPT ![name] = Upserted(enabled)]

UpdateUpstreamEnabled(name, enabled) ==
  upstreams' = IF upstreams[name] = "absent" THEN upstreams
               ELSE [upstreams EXCEPT ![name] = Upserted(enabled)]

LinkUpstreamByName(project, name) ==
  links' = IF upstreams[name] = "absent" THEN links ELSE links \cup {<<project, name>>}

UnlinkUpstreamByName(project, name) == links' = links \ {<<project, name>>}
=============================================================================
