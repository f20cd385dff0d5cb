--------------------------- MODULE DepotInvariant ---------------------------
(***************************************************************************)
(* The inductive invariants: IInv, behind SteadyNotCondemned and           *)
(* KeptServed, LinkInv, behind PublishedIsLinked, and PublicationInv,      *)
(* behind KeepsPublication.                                                *)
(***************************************************************************)
EXTENDS Depot

\* A collection at rest remembers nothing, and one that has not listed the
\* ready objects condemns none.
CollectorShape ==
  \A c \in Collectors :
    /\ collector[c].pc = "idle" => collector[c] = Resting
    /\ collector[c].pc = "rules" => collector[c].policy # NoPolicy
    /\ collector[c].pc \in {"ready", "delete"} => collector[c].pass = "mark"
    /\ collector[c].pc # "delete" => Condemned(c) = {}

\* The build of a retained claim is among those a scan has found, or its path is.
Found(scan, cl) == cl.owner \in scan.builds \/ cl.path \in scan.roots

\* What a scan has read for the ref at hand is what the claim goes by: the row of
\* its policy, then the TTL and the number of builds of the policy's rule.
GoesByClaim(scan, cl) ==
  LET rule == RuleFor[cl.policy][scan.ref] IN
  /\ scan.pc = "rules" => scan.policy = cl.policy
  /\ scan.pc = "active" => scan.ttl = rule.ttl
  /\ scan.pc \in {"active", "newest"} => scan.limit = Limit(cl.policy, rule)

\* The scan has the build of a retained claim, or will come by it with its ref.
ComesBy(scan, cl) ==
  \/ Found(scan, cl)
  \/ /\ scan.listed[RefOf[cl.owner]] > cl.cut
     /\ scan.ref = RefOf[cl.owner] => GoesByClaim(scan, cl)

AmongRefs == {"builds", "rules", "active", "newest"}

\* Where a scan stands, it has the path of a claim among its roots, or it will
\* still come by the claim: a retained build by its ref, with the right limit,
\* and then by the build, a pending build by the query of pending builds, a pin
\* by the query of pins.
RootSeen(c, cl) ==
  LET scan == collector[c] IN
  /\ scan.pc \in AmongRefs /\ cl.kind = "retained" => ComesBy(scan, cl)
  /\ scan.pc = "pins" /\ cl.kind \in {"retained", "pending"} => cl.path \in scan.roots
  /\ scan.pc = "apply" => cl.path \in scan.roots

SteadyScanned == \A c \in Collectors : \A x \in steady : RootSeen(c, x.claim)

\* Once a collection has cleared, what is steadily held has no tombstone, and
\* the collection never condemns it.
SteadyCleared ==
  \A c \in Collectors : \A x \in steady :
    collector[c].pass = "mark" => /\ row[x.nar] \notin Tombstoned
                                  /\ x.nar \notin Condemned(c)

\* What is kept is steady, served, and not about to be lost to a failed upload.
KeptShape ==
  \A x \in kept : x \in steady /\ Served(x.nar) /\ x.nar \notin FailedUploads

IInv ==
  /\ TypeOK
  /\ steady \subseteq Holds
  /\ CollectorShape
  /\ SteadyScanned
  /\ SteadyCleared
  /\ KeptShape

-----------------------------------------------------------------------------

\* A finalization that is under way has dealt with the listed paths that its loop
\* no longer has to visit: their objects are linked, or upstream.
Settled(h) ==
  /\ handler[h].paths # {}
  /\ handler[h].paths \subseteq buildPaths[handler[h].build]
  /\ handler[h].todo \subseteq handler[h].paths
  /\ \A p \in handler[h].paths \ handler[h].todo : p \in links \/ NarOf[p] \in Upstream

LinkInv ==
  /\ TypeOK
  /\ \A h \in Handlers :
       /\ (handler[h].op = "finalize" /\ handler[h].pc \notin {"idle", "list"}) => Settled(h)
       /\ handler[h].pc \in {"info", "attach"} => handler[h].op = "register"
       /\ Verified(h) => handler[h].op = "finalize" /\ handler[h].todo = {}

\* What a request at state s knows of its build and its paths: the build was begun,
\* a path that is about to be attached is registered, those past that are attached,
\* and only a registration or a finalization visits one path after the other.
Founded(s) ==
  s.pc # "idle" =>
    /\ status[s.build] # "absent"
    /\ s.op # "none"
    /\ s.pc = "head" => s.op # "upload"
    /\ s.pc = "list" => s.op = "finalize"
    /\ s.pc = "attach" => s.path \in pathInfos
    /\ s.pc \in {"row", "link"} => s.path \in buildPaths[s.build]
    /\ s.op = "register" =>
         /\ s.todo \subseteq s.paths
         /\ s.pc \in {"info", "attach"} => s.paths \subseteq buildPaths[s.build] \cup s.todo
         /\ s.pc \notin {"info", "attach"} => s.paths \subseteq buildPaths[s.build]

PublicationInv == LinkInv /\ \A h \in Handlers : Founded(handler[h])
=============================================================================
