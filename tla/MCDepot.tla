------------------------------ MODULE MCDepot -------------------------------
(* Small instances of Depot: the values of its constants. *)
EXTENDS Expectations, DepotInvariant, TLC

CONSTANTS p1, p2, n1, n2, b1, b2, r1, h1, h2, c1, c2, x1, Q1, Q2

OnePath == {p1}
TwoPaths == {p1, p2}
OneNar == {n1}
TwoNars == {n1, n2}
OwnNar == p1 :> n1 @@ p2 :> n2
OneOwnNar == p1 :> n1
NoneOf(ps) == [p \in ps |-> {}]
OneNoReferences == NoneOf(OnePath)
TwoNoReferences == NoneOf(TwoPaths)
Chain == p1 :> {p2} @@ p2 :> {}
SameRef == [b \in Builds |-> r1]
OneProject == [r \in Refs |-> "project"]

\* Of the defaults, the rule for a tag, which keeps one build for good, or the last
\* one, which has a TTL.
Rule(builds, ttl) == r1 :> [builds |-> builds, ttl |-> ttl]
OneForGood == NoPolicy :> Rule(1, Forever)
OneForAWhile == NoPolicy :> Rule(1, 30)

\* Policies: Q1 keeps nothing, by a rule or for lack of one; Q2 leaves the number of
\* builds to its row, which says 2.
KeepLatestOf == [policy \in Policies \cup {NoPolicy} |-> IF policy = Q1 THEN 1 ELSE 2]
TwoByTheRow == Q2 :> Rule(Latest, Forever)
OneOrTwo == OneForGood @@ TwoByTheRow
OneOrNone == OneForGood @@ Q1 :> Rule(0, Forever)
OneOrNoneOrTwo == OneForAWhile @@ Q1 :> [r \in {} |-> 0] @@ TwoByTheRow

BothGraces == {FALSE, TRUE}
DefaultGrace == {FALSE}

\* Requests are interchangeable, and so are collections, builds of one ref, and
\* paths without references.
Symmetry ==
  Permutations({h1, h2} \cap Handlers) \cup Permutations({c1, c2} \cap Collectors)
    \cup Permutations({b1, b2} \cap Builds)
PathSymmetry == Symmetry \cup {p1 :> p2 @@ p2 :> p1 @@ n1 :> n2 @@ n2 :> n1}

\* Bound of Publishing: either requests overlap, which are all for one path, or a
\* policy is set (not deleted again), while one request for one path is served at a
\* time and each build has a path of its own, so that the newer build does not keep
\* what the older one does.
RequestsOverlap ==
  /\ \E p \in Paths : /\ pathInfos \subseteq {p}
                      /\ \A h \in Handlers : /\ handler[h].paths \subseteq {p}
                                             /\ handler[h].path \in {p, NoPath}
  /\ \A project \in Projects : rules[project] = NoPolicy
PoliciesChange ==
  /\ Cardinality({h \in Handlers : handler[h] # Idle}) <= 1
  /\ \A h \in Handlers : Cardinality(handler[h].paths) <= 1
  /\ \A b \in Builds : Cardinality(buildPaths[b]) <= 1
  /\ \A b, d \in Builds : b # d => buildPaths[b] \cap buildPaths[d] = {}
  /\ policies = rules
OneOrTheOther == RequestsOverlap \/ PoliciesChange

\* Action constraint: no request and no collection lasts as long as the default
\* grace period, so that a tombstone expires only while none is under way.
GraceOutlastsAll ==
  (\E n \in Nars : row[n] = "fresh" /\ row'[n] = "expired")
    => Quiet /\ \A h \in Handlers : handler[h] = Idle
=============================================================================
