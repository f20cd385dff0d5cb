------------------------------- MODULE Depot --------------------------------
(***************************************************************************)
(* The depot server: the publishing service and the garbage collector at   *)
(* work on one catalog, with the passage of time and the administrator's   *)
(* changes of retention.                                                   *)
(***************************************************************************)
EXTENDS Ingest, Gc

VARIABLES
  steady,  \* history: the holds in force ever since no collection was running
  kept     \* history: the holds in force ever since their object was served
           \* while no collection was running

vars == <<catalogVars, ingestVars, collector, steady, kept>>

-----------------------------------------------------------------------------
(***************************************************************************)
(* A claim is one reason for which the collector must treat a path as a    *)
(* root; a hold is a claim together with an object that it keeps alive.    *)
(* The claim of a retained build names the policy in force and counts the  *)
(* publications of its ref that the rule's TTL has outlived.  It lapses    *)
(* when either changes, though the build may still be retained: a running  *)
(* collection has perhaps read the limit of the old policy, or goes by the *)
(* older publication, and then it does not list the build.                 *)
(***************************************************************************)
Claim(kind, owner, p, policy, cut) ==
  [kind |-> kind, owner |-> owner, path |-> p, policy |-> policy, cut |-> cut]

PendingClaims ==
  UNION {{Claim("pending", b, p, NoPolicy, 0) : p \in buildPaths[b]} : b \in PendingBuilds}

RetainedClaims ==
  UNION {{Claim("retained", b, p, PolicyOf(RefOf[b]),
                Outlived(RefOf[b], RuleOf(RefOf[b]).ttl)) : p \in buildPaths[b]} :
         b \in RetainedBuilds}

PinClaims ==
  {Claim("pin", x, pins[x], NoPolicy, 0) : x \in {y \in PinNames : pins[y] # NoPath}}

Claims == PendingClaims \cup RetainedClaims \cup PinClaims

Holds ==
  UNION {{[claim |-> cl, nar |-> n] : n \in LiveObjects({cl.path})} : cl \in Claims}

HeldNars == {x.nar : x \in Holds}

Quiet == \A c \in Collectors : collector[c].pc = "idle"

\* The objects that a failed upload is about to delete.
FailedUploads ==
  {NarOf[handler[h].path] : h \in {g \in Handlers : handler[g].pc = "cleanup"}}

HistoryInit == steady = {} /\ kept = {}

HistoryNext ==
  /\ steady' = IF Quiet' THEN Holds' ELSE {x \in steady : x \in Holds'}
  /\ kept' = {x \in steady' : /\ x \in kept \/ (Quiet' /\ Served(x.nar)')
                             /\ x.nar \notin FailedUploads'}

-----------------------------------------------------------------------------

Init ==
  /\ CatalogInit
  /\ IngestInit
  /\ GcInit
  /\ HistoryInit

\* The administrator's requests: another policy, or none of its own any more.
ReplacePolicy(project, policy) ==
  /\ policies[project] # policy
  /\ ReplaceRetentionPolicy(project, policy)

DeletePolicy(project) ==
  /\ policies[project] # NoPolicy
  /\ DeleteRetentionPolicy(project)

DropGc(c) ==
  /\ faults < MaxFaults
  /\ faults' = faults + 1
  /\ AbandonGc(c)
  /\ UNCHANGED handler

Serve(h) == HandlerStep(h) /\ UNCHANGED collector /\ HistoryNext

Collect(c) ==
  /\ CollectorStep(c) \/ \E immediate \in GraceZero : RunGc(c, immediate)
  /\ UNCHANGED ingestVars
  /\ HistoryNext

Ageing(n) == Age(n) /\ UNCHANGED <<ingestVars, collector>> /\ HistoryNext

Next ==
  \/ IngestNext /\ UNCHANGED collector /\ HistoryNext
  \/ \E c \in Collectors : Collect(c)
  \/ \E c \in Collectors : DropGc(c) /\ HistoryNext
  \/ \E n \in Nars : Ageing(n)
  \/ /\ \E r \in Refs, ttl \in Ttls : \E t \in 1 .. updatedAt[r] : ExpirePublications(r, ttl, t)
     /\ UNCHANGED <<ingestVars, collector>>
     /\ HistoryNext
  \/ /\ \E project \in Projects :
          \/ \E policy \in Policies : ReplacePolicy(project, policy)
          \/ DeletePolicy(project)
     /\ UNCHANGED <<ingestVars, collector>>
     /\ HistoryNext

Spec == Init /\ [][Next]_vars

\* The runtime polls every request that can go on, time passes, and the
\* administrator's timer starts a collection again and again.
Fairness ==
  /\ \A h \in Handlers : WF_vars(Serve(h))
  /\ \A c \in Collectors : WF_vars(Collect(c))
  /\ \A n \in Nars : WF_vars(Ageing(n))

FairSpec == Spec /\ Fairness

-----------------------------------------------------------------------------
(* Safety *)

\* Type correctness of the whole state.
TypeOK == CatalogTypeOK /\ IngestTypeOK /\ GcTypeOK

\* An object that a pending build, a pin, or a build retained under one and the
\* same policy has kept alive without a break since before the running
\* collections began is on no collection's list of objects to delete: the clear
\* pass of run_local_gc_with_grace_period lifts its tombstone, and no root scan,
\* made of separate queries, may lose its root before the mark pass.  A policy
\* that changes under a scan breaks the hold: see Claim.
Condemned(c) == collector[c].ready \cup collector[c].deleted
SteadyNars == {x.nar : x \in steady}

SteadyNotCondemned ==
  \A c \in Collectors : Condemned(c) \cap SteadyNars = {}

\* An object that was served while no collection ran is served for as long as
\* what held it then still holds it, whatever requests and collections overlap
\* in the meantime; only an upload of the same object whose metadata cannot be
\* written may take it away, in the cleanup of upload_object.  What holds it is
\* a pending build, a pin, or a build retained under one and the same policy.
KeptServed == \A x \in kept : Served(x.nar)

\* A finalization that has come as far as the publication has linked every
\* local object of the paths it listed: without its row in path_objects an
\* object is garbage to the collector however often its path is a root.
Verified(h) == handler[h].pc \in {"stamp", "commit"}

PublishedIsLinked ==
  \A h \in Handlers : Verified(h) =>
    /\ handler[h].paths # {}
    /\ handler[h].paths \subseteq buildPaths[handler[h].build]
    /\ \A p \in handler[h].paths : p \in links \/ NarOf[p] \in Upstream

\* Each finalization that has listed the paths of its build is an attempt at a
\* publication; a request that has not, and every collection, changes nothing of
\* what publishing promises.
Finalizing(h) == handler[h].op = "finalize" /\ handler[h].pc \notin {"idle", "list"}

Attempt(h) == [build |-> handler[h].build, paths |-> handler[h].paths]
Attempts == {Attempt(h) : h \in {g \in Handlers : Finalizing(g)}}

Published == INSTANCE Publication WITH
  Elsewhere <- {p \in Paths : NarOf[p] \in Upstream},
  state     <- status,
  content   <- buildPaths,
  known     <- pathInfos,
  available <- links,
  attempts  <- Attempts,
  shown     <- refs

\* The server implements what publishing promises, whatever requests for the same
\* builds and paths overlap, and wherever they are dropped.
KeepsPublication == Published!Spec

-----------------------------------------------------------------------------
(* Liveness *)

\* The row of an object that nothing holds any more is deleted in the end.
GarbageIsReclaimed ==
  \A n \in Nars : []<>(row[n] = "none" \/ n \in HeldNars)

\* The tombstone of an object that is steadily held is lifted in the end: a
\* collection that overlapped the requests which came to hold the object may
\* have hidden it from readers, and the next one's clear pass brings it back.
HeldIsRevived ==
  \A n \in Nars :
    (row[n] \in Tombstoned /\ n \in SteadyNars) ~> (row[n] = "live" \/ n \notin SteadyNars)
=============================================================================
