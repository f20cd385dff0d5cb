--------------------------------- MODULE Gc ---------------------------------
(***************************************************************************)
(* The garbage collector (run_local_gc_with_grace_period in                *)
(* crates/depot-ingest/src/gc.rs, with crates/depot-db/src/gc.rs and       *)
(* list_retained_build_ids_for_gc in retention.rs).  A collection scans    *)
(* the roots, clears the tombstones of the live objects, scans the roots   *)
(* again, tombstones the stale ones, and deletes what is ready: the blobs  *)
(* one by one, then the rows.  The root scan is a row of queries, each a   *)
(* step of its own that uses what earlier ones read, and neither it nor    *)
(* anything else holds off the publishing service, a change of policy or   *)
(* another collection.  A dry run only reads and is left out; so are the   *)
(* lookups of a project's id, as projects are never deleted.               *)
(***************************************************************************)
EXTENDS Catalog

CONSTANTS
  Collectors,  \* collections that can run at once
  NoRef,
  GraceZero    \* the requests to take: FALSE asks for the default grace
               \* period, TRUE for a grace_period_seconds of 0

ASSUME GcConstants == GraceZero \subseteq BOOLEAN /\ NoRef \notin Refs

VARIABLE collector  \* each collection and where it stands

Resting == [pc |-> "idle", pass |-> "clear", immediate |-> FALSE,
            listed |-> [r \in Refs |-> 0],
            ref |-> NoRef, policy |-> NoPolicy, ttl |-> Forever, limit |-> 0,
            builds |-> {}, roots |-> {}, ready |-> {}, deleted |-> {}]

CollectorStates ==
  [pc : {"idle", "refs", "builds", "rules", "active", "newest", "pins", "apply",
         "ready", "delete"},
   pass : {"clear", "mark"},
   immediate : BOOLEAN,
   listed : [Refs -> Nat],    \* updated_at of the refs listed and not yet dealt with
   ref : Refs \cup {NoRef},   \* the ref at hand
   policy : Policies \cup {NoPolicy},  \* whose row was read for it
   ttl : Ttls \cup {Forever}, \* ttl_seconds of its rule
   limit : Nat,               \* builds to keep of it
   builds : SUBSET Builds,    \* retained builds whose paths are not yet listed
   roots : SUBSET Paths,      \* root paths so far
   ready : SUBSET Nars,       \* objects listed for deletion
   deleted : SUBSET Nars]     \* those whose blob is gone

GcTypeOK == collector \in [Collectors -> CollectorStates]

GcInit == collector = [c \in Collectors |-> Resting]

\* Collection c, which is at pc, moves on to the state s.
Moves(c, pc, s) ==
  /\ collector[c].pc = pc
  /\ collector' = [collector EXCEPT ![c] = s]

RunGc(c, immediate) ==
  /\ Moves(c, "idle", [Resting EXCEPT !.pc = "refs", !.immediate = immediate])
  /\ UNCHANGED catalogVars

-----------------------------------------------------------------------------
(* list_root_store_path_hashes, which every pass begins with *)

ListRefs(c) ==
  /\ Moves(c, "refs",
           [collector[c] EXCEPT !.pc = "builds", !.listed =
              [r \in Refs |-> IF refs[r] = NoBuild THEN 0 ELSE updatedAt[r]]])
  /\ UNCHANGED catalogVars

RefsLeft(c) == {r \in Refs : collector[c].listed[r] > 0}

\* The ref r is done with; the builds bs of it are retained.
Done(c, r, bs) ==
  [collector[c] EXCEPT !.pc = "builds", !.listed[r] = 0, !.builds = @ \cup bs,
     !.ref = NoRef, !.policy = NoPolicy, !.ttl = Forever, !.limit = 0]

\* The collection goes on by the rule that stored has for the ref r; a rule with
\* a TTL has to be judged first.
ByRule(c, r, policy, stored) ==
  LET rule == RuleFor[stored][r]
  IN  [collector[c] EXCEPT !.pc = IF rule.ttl = Forever THEN "newest" ELSE "active",
         !.ref = r, !.policy = NoPolicy, !.ttl = rule.ttl, !.limit = Limit(policy, rule)]

\* The query of the next ref's policy.  The defaults are at hand without a query.
GetDefaultPolicy(c, r) ==
  /\ r \in RefsLeft(c)
  /\ PolicyOf(r) = NoPolicy
  /\ Moves(c, "builds", ByRule(c, r, NoPolicy, NoPolicy))
  /\ UNCHANGED catalogVars

GetCustomPolicy(c, r) ==
  /\ r \in RefsLeft(c)
  /\ PolicyOf(r) # NoPolicy
  /\ Moves(c, "builds", [collector[c] EXCEPT !.pc = "rules", !.ref = r,
                                             !.policy = PolicyOf(r)])
  /\ UNCHANGED catalogVars

\* The query of the rules, which need not be those that the row came with.
ListRules(c, r) ==
  LET stored == rules[ProjectOf[r]] IN
  /\ r = collector[c].ref
  /\ \/ /\ r \in DOMAIN RuleFor[stored]
        /\ Moves(c, "rules", ByRule(c, r, collector[c].policy, stored))
     \/ /\ r \notin DOMAIN RuleFor[stored]
        /\ Moves(c, "rules", Done(c, r, {}))
  /\ UNCHANGED catalogVars

\* Mutant of JudgeRef: a ref counts as active one publication too late.
JudgeLater(c, r) ==
  /\ r = collector[c].ref
  /\ Moves(c, "active", IF RefIsActive(r, collector[c].listed[r] - 1, collector[c].ttl)
                        THEN [collector[c] EXCEPT !.pc = "newest", !.ttl = Forever]
                        ELSE Done(c, r, {}))
  /\ UNCHANGED catalogVars

\* ref_is_active reads the clock after the rules have arrived.
JudgeRef(c, r) ==
  /\ r = collector[c].ref
  /\ Moves(c, "active", IF RefIsActive(r, collector[c].listed[r], collector[c].ttl)
                        THEN [collector[c] EXCEPT !.pc = "newest", !.ttl = Forever]
                        ELSE Done(c, r, {}))
  /\ UNCHANGED catalogVars

\* Mutant of ListNewestBuilds: one build too few.
ListTooFewBuilds(c, r) ==
  /\ r = collector[c].ref
  /\ Moves(c, "newest", Done(c, r, NewestBuilds(r, collector[c].limit - 1)))
  /\ UNCHANGED catalogVars

\* The builds query, with the limit that earlier queries gave.
ListNewestBuilds(c, r) ==
  /\ r = collector[c].ref
  /\ Moves(c, "newest", Done(c, r, NewestBuilds(r, collector[c].limit)))
  /\ UNCHANGED catalogVars

ListRetainedPaths(c, b) ==
  /\ RefsLeft(c) = {}
  /\ b \in collector[c].builds
  /\ Moves(c, "builds", [collector[c] EXCEPT !.builds = @ \ {b},
                                             !.roots = @ \cup buildPaths[b]])
  /\ UNCHANGED catalogVars

\* Mutant of ListPendingPaths: pending builds are no roots.
ListNoPendingPaths(c) ==
  /\ RefsLeft(c) = {}
  /\ collector[c].builds = {}
  /\ Moves(c, "builds", [collector[c] EXCEPT !.pc = "pins"])
  /\ UNCHANGED catalogVars

ListPendingPaths(c) ==
  /\ RefsLeft(c) = {}
  /\ collector[c].builds = {}
  /\ Moves(c, "builds", [collector[c] EXCEPT !.pc = "pins",
                                             !.roots = @ \cup PathsOf(PendingBuilds)])
  /\ UNCHANGED catalogVars

ListPinnedPaths(c) ==
  /\ Moves(c, "pins", [collector[c] EXCEPT !.pc = "apply", !.roots = @ \cup PinnedPaths])
  /\ UNCHANGED catalogVars

-----------------------------------------------------------------------------

\* Mutant of ClearTombstones: the pass changes nothing.
ClearNothing(c) ==
  /\ collector[c].pass = "clear"
  /\ Moves(c, "apply", [collector[c] EXCEPT !.pc = "refs", !.pass = "mark", !.roots = {}])
  /\ UNCHANGED catalogVars

ClearTombstones(c) ==
  /\ collector[c].pass = "clear"
  /\ Moves(c, "apply", [collector[c] EXCEPT !.pc = "refs", !.pass = "mark", !.roots = {}])
  /\ ClearDeletedStateForLive(collector[c].roots)

MarkStaleObjects(c) ==
  /\ collector[c].pass = "mark"
  /\ Moves(c, "apply", [collector[c] EXCEPT !.pc = "ready", !.roots = {}])
  /\ MarkStale(collector[c].roots)

ListReady(c) ==
  /\ Moves(c, "ready", [collector[c] EXCEPT !.pc = "delete",
                          !.ready = ReadyForDeletion(collector[c].immediate)])
  /\ UNCHANGED catalogVars

DeleteObject(c, n) ==
  /\ n \in collector[c].ready
  /\ DeleteBlob(n)
  /\ Moves(c, "delete", [collector[c] EXCEPT !.ready = @ \ {n}, !.deleted = @ \cup {n}])

DeleteObjectRows(c) ==
  /\ collector[c].ready = {}
  /\ DeleteRows(collector[c].deleted)
  /\ Moves(c, "delete", Resting)

\* The request is dropped, the server stops, or a query or the deletion of a
\* blob fails; the rows of blobs already deleted then stay.
AbandonGc(c) ==
  /\ collector[c].pc # "idle"
  /\ collector' = [collector EXCEPT ![c] = Resting]
  /\ UNCHANGED catalogVars

CollectorStep(c) ==
  \/ ListRefs(c)
  \/ \E r \in Refs : \/ GetDefaultPolicy(c, r)
                    \/ GetCustomPolicy(c, r)
                    \/ ListRules(c, r)
                    \/ JudgeRef(c, r)
                    \/ ListNewestBuilds(c, r)
  \/ \E b \in Builds : ListRetainedPaths(c, b)
  \/ ListPendingPaths(c)
  \/ ListPinnedPaths(c)
  \/ ClearTombstones(c)
  \/ MarkStaleObjects(c)
  \/ ListReady(c)
  \/ \E n \in Nars : DeleteObject(c, n)
  \/ DeleteObjectRows(c)
=============================================================================
