------------------------------ MODULE Catalog ------------------------------
(***************************************************************************)
(* The state the depot server keeps: the SQLite metadata database          *)
(* (crates/depot-db) and the blobs of the storage backend                  *)
(* (crates/depot-store), with one operator for each database method that   *)
(* the publishing service and the garbage collector call.                  *)
(*                                                                         *)
(* The connection pool holds a single connection, so a statement or a      *)
(* transaction is one atomic step; everything a handler does in two        *)
(* statements is two steps, in the modules that extend this one.           *)
(***************************************************************************)
EXTENDS Integers, FiniteSets, Timestamps

CONSTANTS
  Paths,        \* store paths, each known by its store path hash
  Nars,         \* NAR objects, each known by its object path nar/<hash>.nar.zst
  NarOf,        \* the NAR object a path's narinfo names; two paths may share one
  References,   \* the store paths a path's narinfo references
  Upstream,     \* NAR objects that an enabled upstream cache serves
  Builds,       \* build ids, handed out by begin_build
  Refs,         \* (project, ref_name) pairs
  RefOf,        \* the ref a build was begun for
  Projects,
  ProjectOf,    \* the project of a ref
  Policies,     \* the retention policies that an administrator may set
  NoPolicy,     \* a project without a policy of its own, which has the defaults
  KeepLatest,   \* keep_latest_builds_per_ref of a policy, and of the defaults
  RuleFor,      \* the rule of a policy, and of the defaults, for each ref that
                \* matching_retention_rule finds one for
  Latest,       \* keep_builds of a rule that leaves the number to the policy
  Ttls,         \* the ttl_seconds of rules ...
  Forever,      \* ... and that of a rule without
  PinNames,     \* (scope, name) pairs
  MaxClock,     \* bound: the last instant
  NoBuild, NoPath

ASSUME CatalogConstants ==
  /\ NarOf \in [Paths -> Nars]
  /\ References \in [Paths -> SUBSET Paths]
  /\ Upstream \subseteq Nars
  /\ RefOf \in [Builds -> Refs]
  /\ ProjectOf \in [Refs -> Projects]
  /\ NoPolicy \notin Policies
  /\ Ttls \subseteq Nat
  /\ Refs \subseteq DOMAIN RuleFor[NoPolicy]  \* the last one is for "*"
  /\ KeepLatest \in [Policies \cup {NoPolicy} -> Nat]
  /\ \A policy \in Policies \cup {NoPolicy} :
       \A r \in Refs \cap DOMAIN RuleFor[policy] :
         RuleFor[policy][r] \in [builds : Nat \cup {Latest}, ttl : Ttls \cup {Forever}]
  /\ NoBuild \notin Builds
  /\ NoPath \notin Paths
  /\ MaxClock \in Nat

VARIABLES
  pathInfos,    \* rows of path_infos; never deleted
  buildPaths,   \* rows of build_paths, by build; never deleted
  links,        \* paths with their row in path_objects; never deleted
  row,          \* the row of a NAR in storage_objects and its tombstone
  blobs,        \* NARs whose blob the storage backend holds
  status,       \* builds.status
  finalizedAt,  \* builds.finalized_at, 0 for NULL
  refs,         \* project_refs.build_id, NoBuild where the ref has no row
  updatedAt,    \* project_refs.updated_at, counted in publications of the ref
  expiredTo,    \* the publications of a ref that are older than each TTL
  pins,         \* pins.store_path_hash, NoPath where the pin has no row
  policies,     \* project_retention_policies: a project's row, or NoPolicy
  rules,        \* project_ref_retention_rules: whose rules a project has rows of
  clock         \* the instant at which a publication last read the clock

catalogVars == <<pathInfos, buildPaths, links, row, blobs, status, finalizedAt,
                 refs, updatedAt, expiredTo, pins, policies, rules, clock>>

(***************************************************************************)
(* A storage_objects row is absent, visible ("live"), or tombstoned.  A    *)
(* tombstone is "fresh" until first_deleted_at is older than the default   *)
(* grace period and "expired" from then on.                                *)
(***************************************************************************)
Tombstoned == {"fresh", "expired"}
RowStates == {"none", "live"} \cup Tombstoned
Statuses == {"absent", "pending", "finalized"}

CatalogTypeOK ==
  /\ pathInfos \subseteq Paths
  /\ buildPaths \in [Builds -> SUBSET Paths]
  /\ links \subseteq Paths
  /\ row \in [Nars -> RowStates]
  /\ blobs \subseteq Nars
  /\ status \in [Builds -> Statuses]
  /\ finalizedAt \in [Builds -> Nat]
  /\ refs \in [Refs -> Builds \cup {NoBuild}]
  /\ updatedAt \in [Refs -> Nat]
  /\ expiredTo \in [Refs -> [Ttls -> Nat]]
  /\ pins \in [PinNames -> Paths \cup {NoPath}]
  /\ rules \in [Projects -> Policies \cup {NoPolicy}]
  /\ policies \in [Projects -> Policies \cup {NoPolicy}]
  /\ \A project \in Projects : policies[project] \in {NoPolicy, rules[project]}
  /\ clock \in Nat

\* A server that has just been set up: nothing stored, and no policy set.
CatalogInit ==
  /\ pathInfos = {}
  /\ buildPaths = [b \in Builds |-> {}]
  /\ links = {}
  /\ row = [n \in Nars |-> "none"]
  /\ blobs = {}
  /\ status = [b \in Builds |-> "absent"]
  /\ finalizedAt = [b \in Builds |-> 0]
  /\ refs = [r \in Refs |-> NoBuild]
  /\ updatedAt = [r \in Refs |-> 0]
  /\ expiredTo = [r \in Refs |-> [ttl \in Ttls |-> 0]]
  /\ pins = [x \in PinNames |-> NoPath]
  /\ policies = [project \in Projects |-> NoPolicy]
  /\ rules = [project \in Projects |-> NoPolicy]
  /\ clock = 0

-----------------------------------------------------------------------------
(* Queries *)

\* The recursive CTE live_paths: the registered roots and every registered
\* path reachable from them, as the least set closed under references.
ClosedUnderReferences(C) == \A p \in C : References[p] \cap pathInfos \subseteq C

LivePaths(roots) ==
  {p \in Paths : \A C \in SUBSET Paths :
     (roots \cap pathInfos \subseteq C /\ ClosedUnderReferences(C)) => p \in C}

\* The CTE live_objects: the objects linked to a live path.
LiveObjects(roots) == {NarOf[p] : p \in LivePaths(roots) \cap links}

\* The builds query of list_retained_build_ids_for_gc: the first builds of a ref
\* by descending text of finalized_at, up to a limit.
NewerBuilds(b) ==
  {c \in Builds : /\ RefOf[c] = RefOf[b]
                  /\ status[c] = "finalized"
                  /\ SortsAfter(finalizedAt[c], finalizedAt[b])}

NewestBuilds(r, limit) ==
  {b \in Builds : /\ RefOf[b] = r
                  /\ status[b] = "finalized"
                  /\ Cardinality(NewerBuilds(b)) < limit}

\* How many builds a rule keeps beside the policy's row that was read with it.
Limit(policy, rule) == IF rule.builds = Latest THEN KeepLatest[policy] ELSE rule.builds

\* ref_is_active for an updated_at that was read as publication number t.
Outlived(r, ttl) == IF ttl = Forever THEN 0 ELSE expiredTo[r][ttl]
RefIsActive(r, t, ttl) == t > Outlived(r, ttl)

\* What list_retained_build_ids_for_gc would answer of the tables as they are: the
\* builds that the policies in force retain.
PolicyOf(r) == policies[ProjectOf[r]]
HasRule(r) == r \in DOMAIN RuleFor[PolicyOf(r)]
RuleOf(r) == RuleFor[PolicyOf(r)][r]
ActiveRefs == {r \in Refs : /\ refs[r] # NoBuild
                            /\ HasRule(r)
                            /\ RefIsActive(r, updatedAt[r], RuleOf(r).ttl)}
RetainedOf(r) == NewestBuilds(r, Limit(PolicyOf(r), RuleOf(r)))
RetainedBuilds == UNION {RetainedOf(r) : r \in ActiveRefs}

PendingBuilds == {b \in Builds : status[b] = "pending"}
PinnedPaths == {pins[x] : x \in PinNames} \ {NoPath}
PathsOf(bs) == UNION {buildPaths[b] : b \in bs}

\* Rows that list_storage_objects_ready_for_deletion returns: with a grace
\* period of zero every tombstone, else those older than it.
ReadyForDeletion(immediate) ==
  {n \in Nars : row[n] = "expired" \/ (immediate /\ row[n] = "fresh")}

\* What get_unscoped needs to serve an object: a visible row and the blob.
Served(n) == row[n] = "live" /\ n \in blobs

-----------------------------------------------------------------------------
(* Statements and transactions *)

\* Mutant of InsertBuild: a status that the column does not admit.
InsertBuildOpen(b) ==
  /\ status' = [status EXCEPT ![b] = "open"]
  /\ UNCHANGED <<pathInfos, buildPaths, links, row, blobs, finalizedAt, refs,
                 updatedAt, expiredTo, pins, policies, rules, clock>>

InsertBuild(b) ==
  /\ status' = [status EXCEPT ![b] = "pending"]
  /\ UNCHANGED <<pathInfos, buildPaths, links, row, blobs, finalizedAt, refs,
                 updatedAt, expiredTo, pins, policies, rules, clock>>

UpsertPathInfo(p) ==
  /\ pathInfos' = pathInfos \cup {p}
  /\ UNCHANGED <<buildPaths, links, row, blobs, status, finalizedAt, refs,
                 updatedAt, expiredTo, pins, policies, rules, clock>>

AttachBuildPath(b, p) ==
  /\ buildPaths' = [buildPaths EXCEPT ![b] = @ \cup {p}]
  /\ UNCHANGED <<pathInfos, links, row, blobs, status, finalizedAt, refs,
                 updatedAt, expiredTo, pins, policies, rules, clock>>

\* ON CONFLICT clears deleted_at and first_deleted_at.
UpsertStorageObject(n) ==
  /\ row' = [row EXCEPT ![n] = "live"]
  /\ UNCHANGED <<pathInfos, buildPaths, links, blobs, status, finalizedAt, refs,
                 updatedAt, expiredTo, pins, policies, rules, clock>>

LinkPathObject(p) ==
  /\ links' = links \cup {p}
  /\ UNCHANGED <<pathInfos, buildPaths, row, blobs, status, finalizedAt, refs,
                 updatedAt, expiredTo, pins, policies, rules, clock>>

\* No two publications read the same instant.
ReadClock(t) ==
  /\ t \in (clock + 1) .. MaxClock
  /\ clock' = t
  /\ UNCHANGED <<pathInfos, buildPaths, links, row, blobs, status, finalizedAt,
                 refs, updatedAt, expiredTo, pins, policies, rules>>

\* The transaction of publish_build_to_ref: it moves the ref and finalizes the
\* build, with the time t that was read before the transaction began.
PublishBuildToRef(b, t) ==
  /\ refs' = [refs EXCEPT ![RefOf[b]] = b]
  /\ updatedAt' = [updatedAt EXCEPT ![RefOf[b]] = @ + 1]
  /\ status' = [status EXCEPT ![b] = "finalized"]
  /\ finalizedAt' = [finalizedAt EXCEPT ![b] = t]
  /\ UNCHANGED <<pathInfos, buildPaths, links, row, blobs, expiredTo, pins,
                 policies, rules, clock>>

SetRow(newRow) ==
  /\ row' = newRow
  /\ UNCHANGED <<pathInfos, buildPaths, links, blobs, status, finalizedAt, refs,
                 updatedAt, expiredTo, pins, policies, rules, clock>>

ClearDeletedStateForLive(roots) ==
  SetRow([n \in Nars |-> IF row[n] \in Tombstoned /\ n \in LiveObjects(roots)
                         THEN "live" ELSE row[n]])

\* Mutant of MarkStale: only the objects of the roots themselves are spared.
MarkStaleShallow(roots) ==
  SetRow([n \in Nars |-> IF row[n] = "live" /\ n \notin {NarOf[p] : p \in roots \cap links}
                         THEN "fresh" ELSE row[n]])

\* Mutant of MarkStale: without COALESCE every run renews the tombstones.
MarkStaleRenewing(roots) ==
  SetRow([n \in Nars |-> IF row[n] # "none" /\ n \notin LiveObjects(roots)
                         THEN "fresh" ELSE row[n]])

\* COALESCE keeps the time of an older tombstone.
MarkStale(roots) ==
  SetRow([n \in Nars |-> IF row[n] = "live" /\ n \notin LiveObjects(roots)
                         THEN "fresh" ELSE row[n]])

DeleteRows(ns) ==
  SetRow([n \in Nars |-> IF n \in ns THEN "none" ELSE row[n]])

SetPin(x, p) ==
  /\ pins' = [pins EXCEPT ![x] = p]
  /\ UNCHANGED <<pathInfos, buildPaths, links, row, blobs, status, finalizedAt,
                 refs, updatedAt, expiredTo, policies, rules, clock>>

\* The transaction of replace_project_retention_policy: the row and the rules.
ReplaceRetentionPolicy(project, policy) ==
  /\ policies' = [policies EXCEPT ![project] = policy]
  /\ rules' = [rules EXCEPT ![project] = policy]
  /\ UNCHANGED <<pathInfos, buildPaths, links, row, blobs, status, finalizedAt,
                 refs, updatedAt, expiredTo, pins, clock>>

\* The rules stay.
DeleteRetentionPolicy(project) ==
  /\ policies' = [policies EXCEPT ![project] = NoPolicy]
  /\ UNCHANGED <<pathInfos, buildPaths, links, row, blobs, status, finalizedAt,
                 refs, updatedAt, expiredTo, pins, rules, clock>>

-----------------------------------------------------------------------------
(* Storage backend *)

\* put_stream and complete_multipart_upload install the object atomically.
PutBlob(n) ==
  /\ blobs' = blobs \cup {n}
  /\ UNCHANGED <<pathInfos, buildPaths, links, row, status, finalizedAt, refs,
                 updatedAt, expiredTo, pins, policies, rules, clock>>

\* Deleting an object that is not there succeeds.
DeleteBlob(n) ==
  /\ blobs' = blobs \ {n}
  /\ UNCHANGED <<pathInfos, buildPaths, links, row, status, finalizedAt, refs,
                 updatedAt, expiredTo, pins, policies, rules, clock>>

-----------------------------------------------------------------------------
(* The passage of time *)

\* The default grace period of a tombstone passes.
Age(n) ==
  /\ row[n] = "fresh"
  /\ SetRow([row EXCEPT ![n] = "expired"])

\* A TTL passes for the publications of a ref up to number t, after every shorter one.
ExpirePublications(r, ttl, t) ==
  /\ t > expiredTo[r][ttl]
  /\ t <= updatedAt[r]
  /\ \A shorter \in Ttls : shorter < ttl => t <= expiredTo[r][shorter]
  /\ expiredTo' = [expiredTo EXCEPT ![r][ttl] = t]
  /\ UNCHANGED <<pathInfos, buildPaths, links, row, blobs, status, finalizedAt,
                 refs, updatedAt, pins, policies, rules, clock>>
=============================================================================
