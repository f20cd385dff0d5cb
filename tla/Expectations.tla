---------------------------- MODULE Expectations ----------------------------
(***************************************************************************)
(* What the repository's tests and error messages say of publishing and    *)
(* collecting.  The tests run one call after another; the interleavings    *)
(* that Depot allows between two awaits refute each of these statements.   *)
(***************************************************************************)
EXTENDS Depot

\* "cannot finalize build: required nar object is not available locally or
\* upstream" (finalize_build): a build that is published has its objects.
PublishedIsAvailable ==
  [][\A b \in PendingBuilds : status'[b] = "finalized" =>
       \A p \in buildPaths[b] : NarOf[p] \in blobs \cup Upstream]_vars

\* gc_retains_latest_builds_for_active_refs_according_to_policy
\* (depot-db/src/lib.rs): the build that an active ref shows is retained.
ReferencedBuildRetained ==
  \A r \in ActiveRefs : Limit(PolicyOf(r), RuleOf(r)) > 0 => refs[r] \in RetainedOf(r)

=============================================================================
