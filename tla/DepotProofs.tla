---------------------------- MODULE DepotProofs -----------------------------
(***************************************************************************)
(* The invariant IInv is inductive, so that SteadyNotCondemned and         *)
(* KeptServed hold for every value of the constants: any number of         *)
(* builds, paths and refs, of requests and of overlapping collections.     *)
(***************************************************************************)
EXTENDS DepotInvariant, TypeProofs

-----------------------------------------------------------------------------
(* Liveness of paths and objects, claims and holds *)

\* More roots keep at least the same paths and objects alive.
LEMMA LivePathsMonotone ==
  ASSUME NEW R, NEW S, R \subseteq S
  PROVE  LivePaths(R) \subseteq LivePaths(S)
  <1>. SUFFICES ASSUME NEW p \in LivePaths(R)
                PROVE  p \in LivePaths(S)
    OBVIOUS
  <1>1. ASSUME NEW C \in SUBSET Paths, S \cap pathInfos \subseteq C, ClosedUnderReferences(C)
        PROVE  p \in C
    <2>1. R \cap pathInfos \subseteq C
      BY <1>1
    <2>. QED
      BY <1>1, <2>1 DEF LivePaths
  <1>. QED
    BY <1>1 DEF LivePaths

LEMMA LiveObjectsMonotone ==
  ASSUME NEW R, NEW S, R \subseteq S
  PROVE  LiveObjects(R) \subseteq LiveObjects(S)
  BY LivePathsMonotone DEF LiveObjects

LEMMA LiveObjectsType ==
  ASSUME NEW R
  PROVE  LiveObjects(R) \subseteq Nars
  BY CatalogConstants DEF LiveObjects, LivePaths

LEMMA HoldFacts ==
  ASSUME NEW x \in Holds
  PROVE  /\ x.claim \in Claims
         /\ x.nar \in LiveObjects({x.claim.path})
         /\ x.nar \in Nars
  <1>1. PICK cl \in Claims : x \in {[claim |-> cl, nar |-> n] : n \in LiveObjects({cl.path})}
    BY DEF Holds
  <1>2. PICK n \in LiveObjects({cl.path}) : x = [claim |-> cl, nar |-> n]
    BY <1>1
  <1>. QED
    BY <1>2, LiveObjectsType

\* An object that a hold keeps alive is live for every set of roots that the
\* path of its claim belongs to.
LEMMA HeldIsLive ==
  ASSUME NEW x \in Holds, NEW S, x.claim.path \in S
  PROVE  x.nar \in LiveObjects(S)
  <1>1. {x.claim.path} \subseteq S
    OBVIOUS
  <1>2. LiveObjects({x.claim.path}) \subseteq LiveObjects(S)
    BY <1>1, LiveObjectsMonotone
  <1>. QED
    BY <1>2, HoldFacts

\* The ref of a retained build has a row and a rule, whose TTL has not outlived it.
LEMMA RetainedFacts ==
  ASSUME NEW b \in RetainedBuilds
  PROVE  /\ b \in Builds
         /\ RefOf[b] \in ActiveRefs
         /\ b \in RetainedOf(RefOf[b])
  <1>1. PICK r \in ActiveRefs : b \in RetainedOf(r)
    BY DEF RetainedBuilds
  <1>2. b \in Builds /\ RefOf[b] = r
    BY <1>1 DEF RetainedOf, NewestBuilds
  <1>. QED
    BY <1>1, <1>2

LEMMA ClaimFacts ==
  ASSUME NEW cl \in Claims
  PROVE  /\ cl.kind \in {"pending", "retained", "pin"}
         /\ cl.kind = "pending" => /\ cl.owner \in PendingBuilds
                                   /\ cl.path \in buildPaths[cl.owner]
         /\ cl.kind = "retained" =>
              /\ cl.owner \in RetainedBuilds
              /\ cl.path \in buildPaths[cl.owner]
              /\ cl.policy = PolicyOf(RefOf[cl.owner])
              /\ cl.cut = Outlived(RefOf[cl.owner], RuleOf(RefOf[cl.owner]).ttl)
         /\ cl.kind = "pin" => cl.path \in PinnedPaths
  <1>1. CASE cl \in PendingClaims
    <2>1. PICK b \in PendingBuilds :
            cl \in {Claim("pending", b, p, NoPolicy, 0) : p \in buildPaths[b]}
      BY <1>1 DEF PendingClaims
    <2>2. PICK p \in buildPaths[b] : cl = Claim("pending", b, p, NoPolicy, 0)
      BY <2>1
    <2>. QED
      BY <2>2 DEF Claim
  <1>2. CASE cl \in RetainedClaims
    <2>. DEFINE Of(b, p) == Claim("retained", b, p, PolicyOf(RefOf[b]),
                                  Outlived(RefOf[b], RuleOf(RefOf[b]).ttl))
    <2>1. PICK b \in RetainedBuilds : cl \in {Of(b, p) : p \in buildPaths[b]}
      BY <1>2 DEF RetainedClaims
    <2>2. PICK p \in buildPaths[b] : cl = Of(b, p)
      BY <2>1
    <2>. QED
      BY <2>2 DEF Claim
  <1>3. CASE cl \in PinClaims
    <2>1. PICK y \in {z \in PinNames : pins[z] # NoPath} :
            cl = Claim("pin", y, pins[y], NoPolicy, 0)
      BY <1>3 DEF PinClaims
    <2>2. cl.kind = "pin" /\ cl.path = pins[y]
      BY <2>1 DEF Claim
    <2>. QED
      BY <2>1, <2>2 DEF PinnedPaths
  <1>. QED
    BY <1>1, <1>2, <1>3 DEF Claims

\* A retained build is among the newest of its ref, as many as the rule of the
\* claim's policy keeps, and the publication that shows it is not outlived.
LEMMA RetainedClaimFacts ==
  ASSUME CatalogTypeOK, NEW cl \in Claims, cl.kind = "retained"
  PROVE  LET r == RefOf[cl.owner]
             rule == RuleFor[cl.policy][r]
         IN  /\ r \in Refs
             /\ refs[r] # NoBuild
             /\ cl.policy = PolicyOf(r)
             /\ r \in DOMAIN RuleFor[cl.policy]
             /\ cl.cut = Outlived(r, rule.ttl)
             /\ cl.cut \in Nat
             /\ updatedAt[r] > cl.cut
             /\ cl.owner \in NewestBuilds(r, Limit(cl.policy, rule))
             /\ cl.path \in buildPaths[cl.owner]
  <1>. DEFINE r == RefOf[cl.owner]
  <1>1. /\ r \in ActiveRefs
        /\ cl.owner \in RetainedOf(r)
        /\ cl.path \in buildPaths[cl.owner]
        /\ cl.policy = PolicyOf(r)
        /\ cl.cut = Outlived(r, RuleOf(r).ttl)
    BY ClaimFacts, RetainedFacts
  <1>2. /\ r \in Refs
        /\ refs[r] # NoBuild
        /\ r \in DOMAIN RuleFor[cl.policy]
        /\ updatedAt[r] > cl.cut
    BY <1>1 DEF ActiveRefs, HasRule, RefIsActive
  <1>3. RuleOf(r) = RuleFor[cl.policy][r]
    BY <1>1 DEF RuleOf
  <1>4. cl.cut \in Nat
    <2>1. RuleOf(r) \in [builds : Nat \cup {Latest}, ttl : Ttls \cup {Forever}]
      BY <1>2, <1>3, <1>1, CatalogConstants DEF PolicyOf, CatalogTypeOK
    <2>. QED
      BY <1>1, <1>2, <2>1 DEF Outlived, CatalogTypeOK
  <1>. QED
    BY <1>1, <1>2, <1>3, <1>4 DEF RetainedOf

-----------------------------------------------------------------------------
(* What a step has to respect *)

\* It sets no tombstone on what is steadily held ...
SparesSteady == \A x \in steady : row[x.nar] \notin Tombstoned => row'[x.nar] \notin Tombstoned

\* ... and goes on serving what is kept.
SparesKept == \A x \in kept : Served(x.nar) => Served(x.nar)'

\* A collection that moves keeps what it knows of the steady holds.
Knows(c) ==
  \A x \in steady :
    /\ RootSeen(c, x.claim)'
    /\ (collector[c].pass = "mark")' =>
         /\ row'[x.nar] \notin Tombstoned
         /\ x.nar \notin Condemned(c)'

LEMMA HistoryFacts ==
  ASSUME HistoryNext, steady \subseteq Holds
  PROVE  /\ steady' \subseteq Holds'
         /\ ~Quiet' => steady' \subseteq steady
         /\ \A x \in kept' : /\ x \in Holds'
                             /\ x \in kept \/ (Quiet' /\ Served(x.nar)')
                             /\ x.nar \notin FailedUploads'
  BY DEF HistoryNext

LEMMA StepPreserves ==
  ASSUME IInv, HistoryNext, TypeOK', CollectorShape', SparesSteady, SparesKept,
         \A c \in Collectors : collector'[c] = collector[c] \/ Knows(c)
  PROVE  IInv'
  <1>1. /\ steady \subseteq Holds
        /\ SteadyScanned
        /\ SteadyCleared
        /\ KeptShape
    BY DEF IInv
  <1>2. steady' \subseteq Holds' /\ (~Quiet' => steady' \subseteq steady)
    BY <1>1, HistoryFacts
  <1>3. ASSUME NEW c \in Collectors, NEW x \in steady'
        PROVE  /\ RootSeen(c, x.claim)'
               /\ (collector[c].pass = "mark")' =>
                     row'[x.nar] \notin Tombstoned /\ x.nar \notin Condemned(c)'
    <2>1. CASE collector'[c].pc = "idle"
      <3>1. collector'[c] = Resting
        BY <2>1 DEF CollectorShape
      <3>. QED
        BY <3>1 DEF Resting, RootSeen, AmongRefs
    <2>2. CASE collector'[c].pc # "idle"
      <3>1. x \in steady
        BY <1>2, <2>2 DEF Quiet
      <3>2. CASE Knows(c)
        BY <3>1, <3>2 DEF Knows
      <3>3. CASE collector'[c] = collector[c]
        <4>1. RootSeen(c, x.claim)'
          BY <1>1, <3>1, <3>3 DEF SteadyScanned, RootSeen
        <4>2. ASSUME collector'[c].pass = "mark"
              PROVE  row'[x.nar] \notin Tombstoned /\ x.nar \notin Condemned(c)'
          BY <1>1, <3>1, <3>3, <4>2 DEF SteadyCleared, SparesSteady, Condemned
        <4>. QED
          BY <4>1, <4>2
      <3>. QED
        BY <3>2, <3>3
    <2>. QED
      BY <2>1, <2>2
  <1>4. SteadyScanned' /\ SteadyCleared'
    BY <1>3 DEF SteadyScanned, SteadyCleared
  <1>5. KeptShape'
    <2>. SUFFICES ASSUME NEW x \in kept'
                  PROVE  x \in steady' /\ Served(x.nar)' /\ x.nar \notin FailedUploads'
      BY DEF KeptShape
    <2>1. /\ x \in Holds'
          /\ x \in kept \/ (Quiet' /\ Served(x.nar)')
          /\ x.nar \notin FailedUploads'
      BY <1>1, HistoryFacts
    <2>2. x \in steady'
      BY <1>1, <2>1 DEF HistoryNext, KeptShape
    <2>3. Served(x.nar)'
      BY <1>1, <2>1 DEF KeptShape, SparesKept
    <2>. QED
      BY <2>1, <2>2, <2>3
  <1>. QED
    BY <1>2, <1>4, <1>5 DEF IInv

-----------------------------------------------------------------------------
(* The steps that are not a collection's *)

LEMMA OthersPreserve ==
  ASSUME IInv, HistoryNext, TypeOK', UNCHANGED collector, SparesSteady, SparesKept
  PROVE  IInv'
  <1>1. CollectorShape'
    BY DEF IInv, CollectorShape, Condemned
  <1>2. \A c \in Collectors : collector'[c] = collector[c]
    OBVIOUS
  <1>. QED
    BY <1>1, <1>2, StepPreserves

LEMMA SteadyFacts ==
  ASSUME IInv
  PROVE  /\ \A x \in steady : x.nar \in Nars
         /\ \A x \in kept : x \in steady /\ x.nar \notin FailedUploads
         /\ row \in [Nars -> RowStates]
  BY HoldFacts DEF IInv, KeptShape, TypeOK, CatalogTypeOK

LEMMA SameObjects ==
  ASSUME UNCHANGED <<row, blobs>>
  PROVE  SparesSteady /\ SparesKept
  BY DEF SparesSteady, SparesKept, Served

LEMMA UpsertSpares ==
  ASSUME IInv, NEW n, UpsertStorageObject(n)
  PROVE  SparesSteady /\ SparesKept
  BY SteadyFacts DEF UpsertStorageObject, SparesSteady, SparesKept, Served, Tombstoned

LEMMA HandlerStepSpares ==
  ASSUME IInv, NEW h \in Handlers, HandlerStep(h)
  PROVE  SparesSteady /\ SparesKept
  <1>1. ASSUME NEW p \in Paths,
               \/ RegisterInfo(h, p) \/ HeadFound(h, p)
               \/ HeadPassedOver(h, p) \/ FinalizeRejected(h, p)
        PROVE  SparesSteady /\ SparesKept
    BY <1>1, SameObjects DEF RegisterInfo, UpsertPathInfo, HeadFound, HeadPassedOver,
       FinalizeRejected, catalogVars
  <1>2. CASE \/ RegisterAttach(h) \/ PersistLink(h) \/ UploadRejected(h)
             \/ PersistFails(h) \/ ListBuildPaths(h) \/ (\E t \in (clock + 1) .. MaxClock : StampBuild(h, t))
             \/ Publish(h)
    BY <1>2, SameObjects DEF RegisterAttach, AttachBuildPath, PersistLink, LinkPathObject,
       UploadRejected, PersistFails, ListBuildPaths, StampBuild, ReadClock, Publish,
       PublishBuildToRef, catalogVars
  <1>3. CASE PersistRow(h)
    BY <1>3, UpsertSpares DEF PersistRow
  <1>4. CASE PutObject(h)
    BY <1>4 DEF PutObject, PutBlob, SparesSteady, SparesKept, Served
  <1>5. CASE CleanUpUpload(h)
    <2>1. NarOf[handler[h].path] \in FailedUploads
      BY <1>5 DEF CleanUpUpload, Goes, FailedUploads
    <2>. QED
      BY <1>5, <2>1, SteadyFacts DEF CleanUpUpload, DeleteBlob, SparesSteady, SparesKept, Served
  <1>. QED
    BY <1>1, <1>2, <1>3, <1>4, <1>5 DEF HandlerStep

LEMMA IngestSpares ==
  ASSUME IInv, IngestNext
  PROVE  SparesSteady /\ SparesKept
  <1>1. ASSUME NEW b \in Builds, BeginBuild(b)
        PROVE  SparesSteady /\ SparesKept
    BY <1>1, SameObjects DEF BeginBuild, InsertBuild
  <1>2. ASSUME NEW h \in Handlers, Request(h) \/ DropRequest(h)
        PROVE  SparesSteady /\ SparesKept
    BY <1>2, SameObjects DEF Request, RegisterPaths, UploadObject, FinalizeBuild,
       DropRequest, catalogVars
  <1>3. ASSUME NEW x \in PinNames, DeletePin(x) \/ \E p \in Paths : CreatePin(x, p)
        PROVE  SparesSteady /\ SparesKept
    BY <1>3, SameObjects DEF DeletePin, CreatePin, SetPin
  <1>. QED
    BY <1>1, <1>2, <1>3, HandlerStepSpares DEF IngestNext

LEMMA AgeSpares ==
  ASSUME IInv, NEW n \in Nars, Age(n)
  PROVE  SparesSteady /\ SparesKept
  BY SteadyFacts DEF Age, SetRow, SparesSteady, SparesKept, Served, Tombstoned

-----------------------------------------------------------------------------
(* The steps of a collection *)

LEMMA MoveFacts ==
  ASSUME IInv, NEW c \in Collectors, NEW pc, NEW s, Moves(c, pc, s)
  PROVE  /\ collector[c].pc = pc
         /\ collector'[c] = s
         /\ \A d \in Collectors : d = c \/ collector'[d] = collector[d]
         /\ collector[c] \in CollectorStates
  BY DEF Moves, IInv, TypeOK, GcTypeOK

\* The state s that a collection moves to keeps the shape of collections.
WellShaped(s) ==
  /\ s.pc = "idle" => s = Resting
  /\ s.pc = "rules" => s.policy # NoPolicy
  /\ s.pc \in {"ready", "delete"} => s.pass = "mark"
  /\ s.pc # "delete" => s.ready \cup s.deleted = {}

LEMMA MovePreserves ==
  ASSUME IInv, HistoryNext, TypeOK', NEW c \in Collectors, NEW pc, NEW s, Moves(c, pc, s),
         WellShaped(s), SparesSteady, SparesKept, Knows(c)
  PROVE  IInv'
  <1>1. /\ collector'[c] = s
        /\ \A d \in Collectors : d = c \/ collector'[d] = collector[d]
    BY MoveFacts
  <1>2. CollectorShape'
    BY <1>1 DEF IInv, CollectorShape, Condemned, WellShaped
  <1>3. \A d \in Collectors : collector'[d] = collector[d] \/ Knows(d)
    BY <1>1
  <1>. QED
    BY <1>2, <1>3, StepPreserves

\* What the invariant says of the collection c and a steady hold x.
LEMMA KnownSoFar ==
  ASSUME IInv, NEW c \in Collectors, NEW x \in steady
  PROVE  /\ x \in Holds
         /\ x.nar \in Nars
         /\ x.claim \in Claims
         /\ CatalogTypeOK
         /\ RootSeen(c, x.claim)
         /\ collector[c].pass = "mark" => /\ row[x.nar] \notin Tombstoned
                                          /\ x.nar \notin Condemned(c)
         /\ collector[c].pc # "delete" => Condemned(c) = {}
         /\ collector[c].pc \in {"ready", "delete"} => collector[c].pass = "mark"
  BY HoldFacts DEF IInv, SteadyScanned, SteadyCleared, CollectorShape, TypeOK

\* A step of the root scan changes neither what is stored nor the pass.
LEMMA ScanPreserves ==
  ASSUME IInv, HistoryNext, TypeOK', UNCHANGED catalogVars,
         NEW c \in Collectors, NEW pc \in AmongRefs \cup {"refs", "pins"},
         NEW s, Moves(c, pc, s),
         s.pc \in AmongRefs \cup {"pins", "apply"}, s.pass = collector[c].pass,
         s.pc = "rules" => s.policy # NoPolicy,
         s.ready = collector[c].ready, s.deleted = collector[c].deleted,
         \A x \in steady : RootSeen(c, x.claim)'
  PROVE  IInv'
  <1>1. /\ collector[c].pc = pc
        /\ collector'[c] = s
    BY MoveFacts
  <1>2. SparesSteady /\ SparesKept
    BY SameObjects DEF catalogVars
  <1>3. WellShaped(s)
    BY <1>1 DEF WellShaped, IInv, CollectorShape, Condemned, AmongRefs
  <1>4. Knows(c)
    BY <1>1, KnownSoFar DEF Knows, Condemned, catalogVars, AmongRefs
  <1>. QED
    BY <1>2, <1>3, <1>4, MovePreserves

LEMMA ListRefsPreserves ==
  ASSUME IInv, HistoryNext, TypeOK', NEW c \in Collectors, ListRefs(c)
  PROVE  IInv'
  <1>. DEFINE list == [r \in Refs |-> IF refs[r] = NoBuild THEN 0 ELSE updatedAt[r]]
              s == [collector[c] EXCEPT !.pc = "builds", !.listed = list]
  <1>1. Moves(c, "refs", s) /\ UNCHANGED catalogVars
    BY DEF ListRefs
  <1>2. collector'[c] = s /\ collector[c] \in CollectorStates
    BY <1>1, MoveFacts
  <1>3. ASSUME NEW x \in steady
        PROVE  RootSeen(c, x.claim)'
    <2>1. x.claim.kind = "retained" => list[RefOf[x.claim.owner]] > x.claim.cut
      BY KnownSoFar, RetainedClaimFacts
    <2>. QED
      BY <1>2, <2>1 DEF RootSeen, ComesBy, GoesByClaim, AmongRefs, CollectorStates
  <1>. QED
    BY <1>1, <1>2, <1>3, ScanPreserves DEF CollectorStates, AmongRefs

\* A step among the refs that still comes by every retained claim it came by.
LEMMA RefStepPreserves ==
  ASSUME IInv, HistoryNext, TypeOK', UNCHANGED catalogVars,
         NEW c \in Collectors, NEW pc \in AmongRefs, NEW s, Moves(c, pc, s),
         s.pc \in AmongRefs, s.pass = collector[c].pass,
         s.pc = "rules" => s.policy # NoPolicy,
         s.ready = collector[c].ready, s.deleted = collector[c].deleted,
         \A cl \in Claims :
           cl.kind = "retained" /\ ComesBy(collector[c], cl) => ComesBy(s, cl)
  PROVE  IInv'
  <1>1. collector[c].pc = pc /\ collector'[c] = s
    BY MoveFacts
  <1>2. ASSUME NEW x \in steady
        PROVE  RootSeen(c, x.claim)'
    <2>1. RootSeen(c, x.claim) /\ x.claim \in Claims
      BY KnownSoFar
    <2>2. x.claim.kind = "retained" => ComesBy(s, x.claim)
      BY <1>1, <2>1 DEF RootSeen
    <2>3. RootSeen(c, x.claim)' =
            (/\ s.pc \in AmongRefs /\ x.claim.kind = "retained" => ComesBy(s, x.claim)
             /\ s.pc = "pins" /\ x.claim.kind \in {"retained", "pending"} =>
                  x.claim.path \in s.roots
             /\ s.pc = "apply" => x.claim.path \in s.roots)
      BY <1>1 DEF RootSeen
    <2>. QED
      BY <2>2, <2>3 DEF AmongRefs
  <1>. QED
    BY <1>2, ScanPreserves

LEMMA FoundStaysFound ==
  ASSUME IInv, NEW c \in Collectors, NEW r \in Refs, NEW bs, NEW cl,
         Found(collector[c], cl)
  PROVE  ComesBy(Done(c, r, bs), cl)
  BY DEF ComesBy, Found, Done, IInv, TypeOK, GcTypeOK, CollectorStates

\* A ref is done with once the builds that the claims on it go by are found.
LEMMA DoneComesBy ==
  ASSUME IInv, NEW c \in Collectors, NEW r \in Refs, NEW bs, NEW cl \in Claims,
         cl.kind = "retained", ComesBy(collector[c], cl),
         RefOf[cl.owner] = r /\ collector[c].listed[r] > cl.cut => cl.owner \in bs
  PROVE  ComesBy(Done(c, r, bs), cl)
  <1>1. collector[c] \in CollectorStates /\ CatalogTypeOK
    BY DEF IInv, TypeOK, GcTypeOK
  <1>2. RefOf[cl.owner] \in Refs
    BY <1>1, RetainedClaimFacts
  <1>3. /\ Done(c, r, bs).builds = collector[c].builds \cup bs
        /\ Done(c, r, bs).roots = collector[c].roots
        /\ Done(c, r, bs).listed = [collector[c].listed EXCEPT ![r] = 0]
        /\ Done(c, r, bs).ref = NoRef
    BY <1>1 DEF Done, CollectorStates
  <1>4. collector[c].listed \in [Refs -> Nat]
    BY <1>1 DEF CollectorStates
  <1>5. NoRef # RefOf[cl.owner]
    BY <1>2, GcConstants
  <1>. QED
    BY <1>2, <1>3, <1>4, <1>5 DEF ComesBy, Found

LEMMA DoneShape ==
  ASSUME IInv, NEW c \in Collectors, NEW r \in Refs, NEW bs
  PROVE  /\ Done(c, r, bs).pc = "builds"
         /\ Done(c, r, bs).pass = collector[c].pass
         /\ Done(c, r, bs).ready = collector[c].ready
         /\ Done(c, r, bs).deleted = collector[c].deleted
  BY DEF Done, IInv, TypeOK, GcTypeOK, CollectorStates

\* A collection that goes on by the rule of the policy that a claim names goes by
\* the claim.
LEMMA ByRuleComesBy ==
  ASSUME IInv, NEW c \in Collectors, NEW r \in Refs, NEW policy, NEW stored,
         NEW cl \in Claims, cl.kind = "retained", ComesBy(collector[c], cl),
         RefOf[cl.owner] = r /\ collector[c].listed[r] > cl.cut =>
           Found(collector[c], cl) \/ (policy = cl.policy /\ stored = cl.policy)
  PROVE  ComesBy(ByRule(c, r, policy, stored), cl)
  <1>. DEFINE s == ByRule(c, r, policy, stored)
              rule == RuleFor[stored][r]
  <1>1. /\ s.builds = collector[c].builds
        /\ s.roots = collector[c].roots
        /\ s.listed = collector[c].listed
        /\ s.ref = r
        /\ s.ttl = rule.ttl
        /\ s.limit = Limit(policy, rule)
        /\ s.pc \in {"newest", "active"}
    BY DEF ByRule, IInv, TypeOK, GcTypeOK, CollectorStates
  <1>. HIDE DEF s
  <1>2. ASSUME Found(collector[c], cl)
        PROVE  ComesBy(s, cl)
    BY <1>1, <1>2 DEF ComesBy, Found
  <1>3. ASSUME ~Found(collector[c], cl)
        PROVE  ComesBy(s, cl)
    <2>1. s.listed[RefOf[cl.owner]] > cl.cut
      BY <1>1, <1>3 DEF ComesBy
    <2>2. s.ref = RefOf[cl.owner] => GoesByClaim(s, cl)
      BY <1>1, <1>3, <2>1 DEF GoesByClaim
    <2>. QED
      BY <2>1, <2>2 DEF ComesBy
  <1>. QED
    BY <1>2, <1>3 DEF s

LEMMA ByRuleShape ==
  ASSUME IInv, NEW c \in Collectors, NEW r \in Refs, NEW policy, NEW stored
  PROVE  /\ ByRule(c, r, policy, stored).pc \in {"newest", "active"}
         /\ ByRule(c, r, policy, stored).pass = collector[c].pass
         /\ ByRule(c, r, policy, stored).ready = collector[c].ready
         /\ ByRule(c, r, policy, stored).deleted = collector[c].deleted
  BY DEF ByRule, IInv, TypeOK, GcTypeOK, CollectorStates

LEMMA GetDefaultPolicyPreserves ==
  ASSUME IInv, HistoryNext, TypeOK', NEW c \in Collectors, NEW r \in Refs,
         GetDefaultPolicy(c, r)
  PROVE  IInv'
  <1>. DEFINE s == ByRule(c, r, NoPolicy, NoPolicy)
  <1>1. /\ Moves(c, "builds", s)
        /\ UNCHANGED catalogVars
        /\ PolicyOf(r) = NoPolicy
    BY DEF GetDefaultPolicy
  <1>2. ASSUME NEW cl \in Claims, cl.kind = "retained", ComesBy(collector[c], cl)
        PROVE  ComesBy(s, cl)
    <2>1. RefOf[cl.owner] = r => cl.policy = NoPolicy
      BY <1>1, <1>2, RetainedClaimFacts DEF IInv, TypeOK
    <2>. QED
      BY <1>2, <2>1, ByRuleComesBy
  <1>3. /\ s.pc \in {"newest", "active"}
        /\ s.pass = collector[c].pass
        /\ s.ready = collector[c].ready
        /\ s.deleted = collector[c].deleted
    BY ByRuleShape
  <1>. HIDE DEF s
  <1>. QED
    BY <1>1, <1>2, <1>3, RefStepPreserves DEF AmongRefs

LEMMA GetCustomPolicyPreserves ==
  ASSUME IInv, HistoryNext, TypeOK', NEW c \in Collectors, NEW r \in Refs,
         GetCustomPolicy(c, r)
  PROVE  IInv'
  <1>. DEFINE s == [collector[c] EXCEPT !.pc = "rules", !.ref = r, !.policy = PolicyOf(r)]
  <1>1. /\ Moves(c, "builds", s)
        /\ UNCHANGED catalogVars
        /\ PolicyOf(r) # NoPolicy
    BY DEF GetCustomPolicy
  <1>2. /\ s.pc = "rules"
        /\ s.ref = r
        /\ s.policy = PolicyOf(r)
        /\ s.pass = collector[c].pass
        /\ s.listed = collector[c].listed
        /\ s.builds = collector[c].builds
        /\ s.roots = collector[c].roots
        /\ s.ready = collector[c].ready
        /\ s.deleted = collector[c].deleted
    BY DEF IInv, TypeOK, GcTypeOK, CollectorStates
  <1>. HIDE DEF s
  <1>3. ASSUME NEW cl \in Claims, cl.kind = "retained", ComesBy(collector[c], cl)
        PROVE  ComesBy(s, cl)
    <2>1. cl.policy = PolicyOf(RefOf[cl.owner])
      BY <1>3, ClaimFacts
    <2>. QED
      BY <1>2, <1>3, <2>1 DEF ComesBy, Found, GoesByClaim
  <1>. QED
    BY <1>1, <1>2, <1>3, RefStepPreserves DEF AmongRefs

\* A policy whose row is there has its own rules, so the two queries agree on it.
LEMMA ListRulesPreserves ==
  ASSUME IInv, HistoryNext, TypeOK', NEW c \in Collectors, NEW r \in Refs, ListRules(c, r)
  PROVE  IInv'
  <1>. DEFINE stored == rules[ProjectOf[r]]
              read == collector[c].policy
  <1>1. /\ UNCHANGED catalogVars
        /\ collector[c].pc = "rules"
        /\ collector[c].ref = r
    BY MoveFacts DEF ListRules
  <1>2. ASSUME NEW cl \in Claims, cl.kind = "retained", ComesBy(collector[c], cl),
               RefOf[cl.owner] = r, ~Found(collector[c], cl)
        PROVE  read = cl.policy /\ stored = cl.policy /\ r \in DOMAIN RuleFor[stored]
    <2>1. read = cl.policy
      BY <1>1, <1>2 DEF ComesBy, GoesByClaim
    <2>2. cl.policy # NoPolicy
      BY <1>1, <2>1 DEF IInv, CollectorShape
    <2>3. cl.policy = policies[ProjectOf[r]] /\ r \in DOMAIN RuleFor[cl.policy]
      BY <1>2, RetainedClaimFacts DEF IInv, TypeOK, PolicyOf
    <2>4. policies[ProjectOf[r]] \in {NoPolicy, stored}
      BY CatalogConstants DEF IInv, TypeOK, CatalogTypeOK
    <2>. QED
      BY <2>1, <2>2, <2>3, <2>4
  <1>3. CASE Moves(c, "rules", ByRule(c, r, read, stored))
    <2>. DEFINE s == ByRule(c, r, read, stored)
    <2>1. ASSUME NEW cl \in Claims, cl.kind = "retained", ComesBy(collector[c], cl)
          PROVE  ComesBy(s, cl)
      BY <1>2, <2>1, ByRuleComesBy
    <2>2. /\ s.pc \in {"newest", "active"}
          /\ s.pass = collector[c].pass
          /\ s.ready = collector[c].ready
          /\ s.deleted = collector[c].deleted
      BY ByRuleShape
    <2>3. Moves(c, "rules", s)
      BY <1>3
    <2>. HIDE DEF s
    <2>. QED
      BY <1>1, <2>1, <2>2, <2>3, RefStepPreserves DEF AmongRefs
  <1>4. CASE Moves(c, "rules", Done(c, r, {})) /\ r \notin DOMAIN RuleFor[stored]
    <2>. DEFINE s == Done(c, r, {})
    <2>1. ASSUME NEW cl \in Claims, cl.kind = "retained", ComesBy(collector[c], cl)
          PROVE  ComesBy(s, cl)
      <3>1. CASE Found(collector[c], cl)
        BY <3>1, FoundStaysFound
      <3>2. CASE ~Found(collector[c], cl)
        BY <1>2, <1>4, <2>1, <3>2, DoneComesBy
      <3>. QED
        BY <3>1, <3>2
    <2>2. /\ s.pc = "builds"
          /\ s.pass = collector[c].pass
          /\ s.ready = collector[c].ready
          /\ s.deleted = collector[c].deleted
      BY DoneShape
    <2>3. Moves(c, "rules", s)
      BY <1>4
    <2>. HIDE DEF s
    <2>. QED
      BY <1>1, <2>1, <2>2, <2>3, RefStepPreserves DEF AmongRefs
  <1>. QED
    BY <1>3, <1>4 DEF ListRules

LEMMA JudgeRefPreserves ==
  ASSUME IInv, HistoryNext, TypeOK', NEW c \in Collectors, NEW r \in Refs, JudgeRef(c, r)
  PROVE  IInv'
  <1>. DEFINE active == RefIsActive(r, collector[c].listed[r], collector[c].ttl)
              goesOn == [collector[c] EXCEPT !.pc = "newest", !.ttl = Forever]
              s == IF active THEN goesOn ELSE Done(c, r, {})
  <1>1. /\ UNCHANGED catalogVars
        /\ Moves(c, "active", s)
        /\ collector[c].pc = "active"
        /\ collector[c].ref = r
    BY MoveFacts DEF JudgeRef
  <1>2. /\ goesOn.pc = "newest"
        /\ goesOn.ref = collector[c].ref
        /\ goesOn.limit = collector[c].limit
        /\ goesOn.pass = collector[c].pass
        /\ goesOn.listed = collector[c].listed
        /\ goesOn.builds = collector[c].builds
        /\ goesOn.roots = collector[c].roots
        /\ goesOn.ready = collector[c].ready
        /\ goesOn.deleted = collector[c].deleted
    BY DEF IInv, TypeOK, GcTypeOK, CollectorStates
  <1>. HIDE DEF goesOn
  <1>3. ASSUME NEW cl \in Claims, cl.kind = "retained", ComesBy(collector[c], cl)
        PROVE  ComesBy(s, cl)
    <2>1. CASE active
      BY <1>1, <1>2, <1>3, <2>1 DEF ComesBy, Found, GoesByClaim
    <2>2. CASE Found(collector[c], cl)
      BY <2>1, <2>2, FoundStaysFound
    <2>3. CASE ~active /\ ~Found(collector[c], cl)
      <3>1. ~(RefOf[cl.owner] = r /\ collector[c].listed[r] > cl.cut)
        <4>1. SUFFICES ASSUME RefOf[cl.owner] = r, collector[c].listed[r] > cl.cut
                       PROVE  FALSE
          OBVIOUS
        <4>2. collector[c].ttl = RuleFor[cl.policy][r].ttl
          BY <1>1, <1>3, <2>3, <4>1 DEF ComesBy, GoesByClaim
        <4>3. cl.cut = Outlived(r, collector[c].ttl)
          BY <1>3, <4>1, <4>2, RetainedClaimFacts DEF IInv, TypeOK
        <4>. QED
          BY <2>3, <4>1, <4>3 DEF RefIsActive
      <3>. QED
        BY <1>3, <2>3, <3>1, DoneComesBy
    <2>. QED
      BY <2>1, <2>2, <2>3
  <1>4. /\ s.pc \in {"newest", "builds"}
        /\ s.pass = collector[c].pass
        /\ s.ready = collector[c].ready
        /\ s.deleted = collector[c].deleted
    BY <1>2, DoneShape
  <1>. HIDE DEF s
  <1>. QED
    BY <1>1, <1>3, <1>4, RefStepPreserves DEF AmongRefs

LEMMA ListNewestBuildsPreserves ==
  ASSUME IInv, HistoryNext, TypeOK', NEW c \in Collectors, NEW r \in Refs,
         ListNewestBuilds(c, r)
  PROVE  IInv'
  <1>. DEFINE newest == NewestBuilds(r, collector[c].limit)
              s == Done(c, r, newest)
  <1>1. /\ UNCHANGED catalogVars
        /\ Moves(c, "newest", s)
        /\ collector[c].pc = "newest"
        /\ collector[c].ref = r
    BY MoveFacts DEF ListNewestBuilds
  <1>2. ASSUME NEW cl \in Claims, cl.kind = "retained", ComesBy(collector[c], cl)
        PROVE  ComesBy(s, cl)
    <2>1. CASE Found(collector[c], cl)
      BY <2>1, FoundStaysFound
    <2>2. CASE ~Found(collector[c], cl)
      <3>1. RefOf[cl.owner] = r => collector[c].limit = Limit(cl.policy, RuleFor[cl.policy][r])
        BY <1>1, <1>2, <2>2 DEF ComesBy, GoesByClaim
      <3>2. RefOf[cl.owner] = r => cl.owner \in newest
        BY <1>2, <3>1, RetainedClaimFacts DEF IInv, TypeOK
      <3>. QED
        BY <1>2, <3>2, DoneComesBy
    <2>. QED
      BY <2>1, <2>2
  <1>3. /\ s.pc = "builds"
        /\ s.pass = collector[c].pass
        /\ s.ready = collector[c].ready
        /\ s.deleted = collector[c].deleted
    BY DoneShape
  <1>. HIDE DEF s
  <1>. QED
    BY <1>1, <1>2, <1>3, RefStepPreserves DEF AmongRefs

LEMMA ListRetainedPathsPreserves ==
  ASSUME IInv, HistoryNext, TypeOK', NEW c \in Collectors, NEW b \in Builds,
         ListRetainedPaths(c, b)
  PROVE  IInv'
  <1>. DEFINE s == [collector[c] EXCEPT !.builds = @ \ {b}, !.roots = @ \cup buildPaths[b]]
  <1>1. Moves(c, "builds", s) /\ UNCHANGED catalogVars
    BY DEF ListRetainedPaths
  <1>2. /\ collector[c].pc = "builds"
        /\ collector'[c] = s
        /\ collector[c] \in CollectorStates
    BY <1>1, MoveFacts
  <1>3. ASSUME NEW x \in steady
        PROVE  RootSeen(c, x.claim)'
    <2>1. RootSeen(c, x.claim)
      BY KnownSoFar
    <2>2. x.claim.kind = "retained" => x.claim.path \in buildPaths[x.claim.owner]
      BY KnownSoFar, ClaimFacts
    <2>. QED
      BY <1>2, <2>1, <2>2 DEF RootSeen, ComesBy, Found, GoesByClaim, AmongRefs,
         CollectorStates
  <1>. QED
    BY <1>1, <1>2, <1>3, ScanPreserves DEF CollectorStates, AmongRefs

LEMMA ListPendingPathsPreserves ==
  ASSUME IInv, HistoryNext, TypeOK', NEW c \in Collectors, ListPendingPaths(c)
  PROVE  IInv'
  <1>. DEFINE s == [collector[c] EXCEPT !.pc = "pins", !.roots = @ \cup PathsOf(PendingBuilds)]
  <1>1. /\ Moves(c, "builds", s)
        /\ UNCHANGED catalogVars
        /\ RefsLeft(c) = {}
        /\ collector[c].builds = {}
    BY DEF ListPendingPaths
  <1>2. /\ collector[c].pc = "builds"
        /\ collector'[c] = s
        /\ collector[c] \in CollectorStates
    BY <1>1, MoveFacts
  <1>3. ASSUME NEW x \in steady
        PROVE  RootSeen(c, x.claim)'
    <2>. DEFINE cl == x.claim
    <2>1. RootSeen(c, cl) /\ cl \in Claims /\ CatalogTypeOK
      BY KnownSoFar
    <2>2. cl.kind = "retained" => cl.path \in collector[c].roots
      <3>1. ASSUME cl.kind = "retained"
            PROVE  ~(collector[c].listed[RefOf[cl.owner]] > cl.cut)
        <4>1. RefOf[cl.owner] \in Refs /\ cl.cut \in Nat
          BY <2>1, <3>1, RetainedClaimFacts
        <4>. QED
          BY <1>1, <1>2, <4>1 DEF RefsLeft, CollectorStates
      <3>. QED
        BY <1>1, <1>2, <2>1, <3>1 DEF RootSeen, ComesBy, Found, AmongRefs
    <2>3. cl.kind = "pending" => cl.path \in PathsOf(PendingBuilds)
      BY <2>1, ClaimFacts DEF PathsOf
    <2>. QED
      BY <1>2, <2>2, <2>3 DEF RootSeen, AmongRefs, CollectorStates
  <1>. QED
    BY <1>1, <1>2, <1>3, ScanPreserves DEF CollectorStates, AmongRefs

LEMMA ListPinnedPathsPreserves ==
  ASSUME IInv, HistoryNext, TypeOK', NEW c \in Collectors, ListPinnedPaths(c)
  PROVE  IInv'
  <1>. DEFINE s == [collector[c] EXCEPT !.pc = "apply", !.roots = @ \cup PinnedPaths]
  <1>1. Moves(c, "pins", s) /\ UNCHANGED catalogVars
    BY DEF ListPinnedPaths
  <1>2. /\ collector[c].pc = "pins"
        /\ collector'[c] = s
        /\ collector[c] \in CollectorStates
    BY <1>1, MoveFacts
  <1>3. ASSUME NEW x \in steady
        PROVE  RootSeen(c, x.claim)'
    <2>1. /\ RootSeen(c, x.claim)
          /\ x.claim.kind \in {"pending", "retained", "pin"}
          /\ x.claim.kind = "pin" => x.claim.path \in PinnedPaths
      BY KnownSoFar, ClaimFacts
    <2>. QED
      BY <1>2, <2>1 DEF RootSeen, AmongRefs, CollectorStates
  <1>. QED
    BY <1>1, <1>2, <1>3, ScanPreserves DEF CollectorStates, AmongRefs

\* Clearing the tombstones of everything live clears those of the steady holds.
LEMMA ClearTombstonesPreserves ==
  ASSUME IInv, HistoryNext, TypeOK', NEW c \in Collectors, ClearTombstones(c)
  PROVE  IInv'
  <1>. DEFINE s == [collector[c] EXCEPT !.pc = "refs", !.pass = "mark", !.roots = {}]
  <1>1. /\ Moves(c, "apply", s)
        /\ ClearDeletedStateForLive(collector[c].roots)
    BY DEF ClearTombstones
  <1>2. /\ collector[c].pc = "apply"
        /\ collector'[c] = s
        /\ collector[c] \in CollectorStates
    BY <1>1, MoveFacts
  <1>3. \A n \in Nars : row'[n] = IF row[n] \in Tombstoned /\ n \in LiveObjects(collector[c].roots)
                                  THEN "live" ELSE row[n]
    BY <1>1 DEF ClearDeletedStateForLive, SetRow
  <1>4. ASSUME NEW x \in steady
        PROVE  row'[x.nar] \notin Tombstoned
    <2>1. x.claim.path \in collector[c].roots
      BY <1>2, KnownSoFar DEF RootSeen
    <2>2. x.nar \in LiveObjects(collector[c].roots)
      BY <2>1, KnownSoFar, HeldIsLive
    <2>. QED
      BY <1>3, <2>2, KnownSoFar DEF Tombstoned
  <1>5. SparesSteady
    BY <1>4 DEF SparesSteady
  <1>6. SparesKept
    <2>1. blobs' = blobs
      BY <1>1 DEF ClearDeletedStateForLive, SetRow
    <2>. QED
      BY <1>3, <2>1, SteadyFacts DEF SparesKept, Served, Tombstoned
  <1>7. Condemned(c) = {}
    BY <1>2 DEF IInv, CollectorShape
  <1>8. WellShaped(s)
    BY <1>2, <1>7 DEF WellShaped, Condemned, CollectorStates
  <1>9. Knows(c)
    BY <1>2, <1>4, <1>7 DEF Knows, RootSeen, AmongRefs, Condemned, CollectorStates
  <1>. QED
    BY <1>1, <1>5, <1>6, <1>8, <1>9, MovePreserves

\* Tombstoning everything stale leaves the steady holds alone.
LEMMA MarkStaleObjectsPreserves ==
  ASSUME IInv, HistoryNext, TypeOK', NEW c \in Collectors, MarkStaleObjects(c)
  PROVE  IInv'
  <1>. DEFINE s == [collector[c] EXCEPT !.pc = "ready", !.roots = {}]
  <1>1. /\ Moves(c, "apply", s)
        /\ MarkStale(collector[c].roots)
        /\ collector[c].pass = "mark"
    BY DEF MarkStaleObjects
  <1>2. /\ collector[c].pc = "apply"
        /\ collector'[c] = s
        /\ collector[c] \in CollectorStates
    BY <1>1, MoveFacts
  <1>3. ASSUME NEW x \in steady
        PROVE  row'[x.nar] = row[x.nar]
    <2>1. x.claim.path \in collector[c].roots
      BY <1>2, KnownSoFar DEF RootSeen
    <2>2. x.nar \in LiveObjects(collector[c].roots)
      BY <2>1, KnownSoFar, HeldIsLive
    <2>. QED
      BY <1>1, <2>2, KnownSoFar DEF MarkStale, SetRow
  <1>4. SparesSteady
    BY <1>3 DEF SparesSteady
  <1>5. SparesKept
    <2>1. blobs' = blobs
      BY <1>1 DEF MarkStale, SetRow
    <2>. QED
      BY <1>3, <2>1, SteadyFacts DEF SparesKept, Served
  <1>6. Condemned(c) = {}
    BY <1>2 DEF IInv, CollectorShape
  <1>7. WellShaped(s)
    BY <1>1, <1>2, <1>6 DEF WellShaped, Condemned, CollectorStates
  <1>8. ASSUME NEW x \in steady
        PROVE  row[x.nar] \notin Tombstoned
    BY <1>1, KnownSoFar
  <1>9. Knows(c)
    BY <1>2, <1>3, <1>6, <1>8 DEF Knows, RootSeen, AmongRefs, Condemned, CollectorStates
  <1>. QED
    BY <1>1, <1>4, <1>5, <1>7, <1>9, MovePreserves

\* What is listed for deletion has a tombstone, and so is not steadily held.
LEMMA ListReadyPreserves ==
  ASSUME IInv, HistoryNext, TypeOK', NEW c \in Collectors, ListReady(c)
  PROVE  IInv'
  <1>. DEFINE ready == ReadyForDeletion(collector[c].immediate)
              s == [collector[c] EXCEPT !.pc = "delete", !.ready = ready]
  <1>1. Moves(c, "ready", s) /\ UNCHANGED catalogVars
    BY DEF ListReady
  <1>2. /\ collector[c].pc = "ready"
        /\ collector'[c] = s
        /\ collector[c] \in CollectorStates
    BY <1>1, MoveFacts
  <1>3. collector[c].pass = "mark" /\ Condemned(c) = {}
    BY <1>2 DEF IInv, CollectorShape
  <1>4. ASSUME NEW x \in steady
        PROVE  row[x.nar] \notin Tombstoned /\ x.nar \notin ready
    BY <1>3, KnownSoFar DEF ReadyForDeletion, Tombstoned
  <1>5. SparesSteady /\ SparesKept
    BY <1>1, SameObjects DEF catalogVars
  <1>6. WellShaped(s)
    BY <1>2, <1>3 DEF WellShaped, CollectorStates
  <1>7. Knows(c)
    BY <1>1, <1>2, <1>3, <1>4 DEF Knows, RootSeen, AmongRefs, Condemned, CollectorStates, catalogVars
  <1>. QED
    BY <1>1, <1>5, <1>6, <1>7, MovePreserves

LEMMA DeleteObjectPreserves ==
  ASSUME IInv, HistoryNext, TypeOK', NEW c \in Collectors, NEW n \in Nars, DeleteObject(c, n)
  PROVE  IInv'
  <1>. DEFINE s == [collector[c] EXCEPT !.ready = @ \ {n}, !.deleted = @ \cup {n}]
  <1>1. /\ Moves(c, "delete", s)
        /\ DeleteBlob(n)
        /\ n \in collector[c].ready
    BY DEF DeleteObject
  <1>2. /\ collector[c].pc = "delete"
        /\ collector'[c] = s
        /\ collector[c] \in CollectorStates
    BY <1>1, MoveFacts
  <1>3. row' = row /\ blobs' = blobs \ {n}
    BY <1>1 DEF DeleteBlob
  <1>4. ASSUME NEW x \in steady
        PROVE  /\ row[x.nar] \notin Tombstoned
               /\ x.nar \notin Condemned(c)
               /\ x.nar # n
    BY <1>1, <1>2, KnownSoFar DEF Condemned
  <1>5. SparesSteady
    BY <1>3 DEF SparesSteady
  <1>6. SparesKept
    BY <1>3, <1>4, SteadyFacts DEF SparesKept, Served
  <1>7. collector[c].pass = "mark"
    BY <1>2 DEF IInv, CollectorShape
  <1>8. WellShaped(s)
    BY <1>2, <1>7 DEF WellShaped, CollectorStates
  <1>9. Knows(c)
    BY <1>2, <1>3, <1>4 DEF Knows, RootSeen, AmongRefs, Condemned, CollectorStates
  <1>. QED
    BY <1>1, <1>5, <1>6, <1>8, <1>9, MovePreserves

\* A collection that ends, however it ends, remembers nothing.
LEMMA RestingKnows ==
  ASSUME NEW c \in Collectors, collector'[c] = Resting
  PROVE  Knows(c) /\ WellShaped(Resting)
  BY DEF Knows, RootSeen, AmongRefs, WellShaped, Resting

LEMMA DeleteObjectRowsPreserves ==
  ASSUME IInv, HistoryNext, TypeOK', NEW c \in Collectors, DeleteObjectRows(c)
  PROVE  IInv'
  <1>1. /\ Moves(c, "delete", Resting)
        /\ DeleteRows(collector[c].deleted)
    BY DEF DeleteObjectRows
  <1>2. /\ collector[c].pc = "delete"
        /\ collector'[c] = Resting
    BY <1>1, MoveFacts
  <1>3. ASSUME NEW x \in steady
        PROVE  row'[x.nar] = row[x.nar]
    BY <1>1, <1>2, KnownSoFar DEF DeleteRows, SetRow, Condemned
  <1>4. blobs' = blobs
    BY <1>1 DEF DeleteRows, SetRow
  <1>5. SparesSteady /\ SparesKept
    BY <1>3, <1>4, SteadyFacts DEF SparesSteady, SparesKept, Served
  <1>. QED
    BY <1>1, <1>2, <1>5, RestingKnows, MovePreserves

LEMMA AbandonGcPreserves ==
  ASSUME IInv, HistoryNext, TypeOK', NEW c \in Collectors, AbandonGc(c)
  PROVE  IInv'
  <1>1. /\ Moves(c, collector[c].pc, Resting)
        /\ UNCHANGED catalogVars
    BY DEF AbandonGc, Moves
  <1>2. SparesSteady /\ SparesKept
    BY <1>1, SameObjects DEF catalogVars
  <1>3. collector'[c] = Resting
    BY <1>1, MoveFacts
  <1>. QED
    BY <1>1, <1>2, <1>3, RestingKnows, MovePreserves

LEMMA RunGcPreserves ==
  ASSUME IInv, HistoryNext, TypeOK', NEW c \in Collectors, NEW immediate \in GraceZero,
         RunGc(c, immediate)
  PROVE  IInv'
  <1>. DEFINE s == [Resting EXCEPT !.pc = "refs", !.immediate = immediate]
  <1>1. Moves(c, "idle", s) /\ UNCHANGED catalogVars
    BY DEF RunGc
  <1>2. collector'[c] = s
    BY <1>1, MoveFacts
  <1>3. SparesSteady /\ SparesKept
    BY <1>1, SameObjects DEF catalogVars
  <1>4. WellShaped(s) /\ Knows(c)
    BY <1>2 DEF WellShaped, Knows, RootSeen, AmongRefs, Resting
  <1>. QED
    BY <1>1, <1>3, <1>4, MovePreserves

LEMMA CollectPreserves ==
  ASSUME IInv, TypeOK', NEW c \in Collectors, Collect(c)
  PROVE  IInv'
  <1>. HistoryNext
    BY DEF Collect
  <1>1. CASE CollectorStep(c)
    BY <1>1, ListRefsPreserves, GetDefaultPolicyPreserves, GetCustomPolicyPreserves,
       ListRulesPreserves, JudgeRefPreserves, ListNewestBuildsPreserves,
       ListRetainedPathsPreserves,
       ListPendingPathsPreserves, ListPinnedPathsPreserves, ClearTombstonesPreserves,
       MarkStaleObjectsPreserves, ListReadyPreserves, DeleteObjectPreserves,
       DeleteObjectRowsPreserves DEF CollectorStep
  <1>2. CASE \E immediate \in GraceZero : RunGc(c, immediate)
    BY <1>2, RunGcPreserves
  <1>. QED
    BY <1>1, <1>2 DEF Collect

-----------------------------------------------------------------------------
(* The theorems *)

LEMMA InitInvariant == Init => IInv
  <1>. SUFFICES ASSUME Init PROVE IInv
    OBVIOUS
  <1>1. TypeOK
    BY InitType
  <1>2. steady = {} /\ kept = {} /\ \A c \in Collectors : collector[c] = Resting
    BY DEF Init, HistoryInit, GcInit
  <1>3. Resting.pc = "idle" /\ Resting.ready = {} /\ Resting.deleted = {}
    BY DEF Resting
  <1>4. CollectorShape
    BY <1>2, <1>3 DEF CollectorShape, Condemned
  <1>. QED
    BY <1>1, <1>2, <1>4 DEF IInv, SteadyScanned, SteadyCleared, KeptShape

LEMMA StutterInvariant ==
  ASSUME IInv, UNCHANGED vars
  PROVE  IInv'
  <1>. /\ UNCHANGED catalogVars
       /\ handler' = handler /\ faults' = faults
       /\ collector' = collector /\ steady' = steady /\ kept' = kept
    BY DEF vars, ingestVars
  <1>1. TypeOK'
    BY NextType DEF IInv
  <1>2. steady' \subseteq Holds'
    <2>1. Holds' = Holds
      BY DEF catalogVars, Holds, Claims, PendingClaims, RetainedClaims, PinClaims, Claim,
         PendingBuilds, RetainedBuilds, ActiveRefs, RetainedOf, NewestBuilds, NewerBuilds,
         RefIsActive, Outlived, Limit, PolicyOf, HasRule, RuleOf, LiveObjects, LivePaths,
         ClosedUnderReferences
    <2>. QED
      BY <2>1 DEF IInv
  <1>3. CollectorShape' /\ SteadyScanned' /\ SteadyCleared'
    BY DEF IInv, CollectorShape, SteadyScanned, SteadyCleared, RootSeen, Condemned, catalogVars
  <1>4. KeptShape'
    BY DEF IInv, KeptShape, Served, FailedUploads, catalogVars
  <1>. QED
    BY <1>1, <1>2, <1>3, <1>4 DEF IInv

LEMMA NextInvariant == IInv /\ [Next]_vars => IInv'
  <1>. SUFFICES ASSUME IInv, [Next]_vars PROVE IInv'
    OBVIOUS
  <1>. TypeOK'
    BY NextType DEF IInv
  <1>1. CASE UNCHANGED vars
    BY <1>1, StutterInvariant
  <1>2. CASE IngestNext /\ UNCHANGED collector /\ HistoryNext
    BY <1>2, IngestSpares, OthersPreserve
  <1>3. ASSUME NEW c \in Collectors, Collect(c)
        PROVE  IInv'
    BY <1>3, CollectPreserves
  <1>4. ASSUME NEW c \in Collectors, DropGc(c), HistoryNext
        PROVE  IInv'
    BY <1>4, AbandonGcPreserves DEF DropGc
  <1>5. ASSUME NEW n \in Nars, Ageing(n)
        PROVE  IInv'
    BY <1>5, AgeSpares, OthersPreserve DEF Ageing
  <1>6. ASSUME NEW r, NEW ttl, NEW t, ExpirePublications(r, ttl, t), UNCHANGED collector, HistoryNext
        PROVE  IInv'
    BY <1>6, SameObjects, OthersPreserve DEF ExpirePublications
  <1>7. ASSUME NEW project, DeletePolicy(project) \/ \E policy : ReplacePolicy(project, policy),
               UNCHANGED collector, HistoryNext
        PROVE  IInv'
    BY <1>7, SameObjects, OthersPreserve DEF ReplacePolicy, ReplaceRetentionPolicy,
       DeletePolicy, DeleteRetentionPolicy
  <1>. QED
    BY <1>1, <1>2, <1>3, <1>4, <1>5, <1>6, <1>7 DEF Next

\* The inductive invariant: how far the root scan, the clear pass and the mark
\* pass of every collection have dealt with every steady hold.
THEOREM Inductive == Spec => []IInv
  BY InitInvariant, NextInvariant, PTL DEF Spec

\* No collection of run_local_gc_with_grace_period, however many overlap with
\* each other and with publishing requests, comes to list or to delete an object
\* that a pending build, a retained build or a pin has held since before it began.
THEOREM SteadySafe == Spec => []SteadyNotCondemned
  <1>1. IInv => SteadyNotCondemned
    BY DEF IInv, CollectorShape, SteadyCleared, SteadyNotCondemned, SteadyNars, Condemned
  <1>. QED
    BY <1>1, Inductive, PTL

\* An object that was served while no collection ran is served for as long as it
\* is held, unless a failed upload of the same object takes it away.
THEOREM KeptSafe == Spec => []KeptServed
  <1>1. IInv => KeptServed
    BY DEF IInv, KeptShape, KeptServed
  <1>. QED
    BY <1>1, Inductive, PTL
=============================================================================
