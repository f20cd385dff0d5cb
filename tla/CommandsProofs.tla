--------------------------- MODULE CommandsProofs ---------------------------
(***************************************************************************)
(* Commands of administrators, for any number of them and any scripts: the *)
(* types, and that a milder retention profile never keeps less.            *)
(***************************************************************************)
EXTENDS Commands, TLAPS

-----------------------------------------------------------------------------
(* Scripts and the administrators' places in them *)

LEMMA ScriptTyped ==
  ASSUME CommandsInv, NEW a \in Administrators
  PROVE  /\ Len(Script(a)) \in Nat
         /\ DOMAIN Script(a) = 1 .. Len(Script(a))
         /\ \A i \in DOMAIN Script(a) : WellFormed(Script(a)[i])
<1>1. setting \in Settings
  BY DEF CommandsInv
<1>2. /\ Script(a) \in Seq({Script(a)[i] : i \in DOMAIN Script(a)})
      /\ \A i \in DOMAIN Script(a) : WellFormed(Script(a)[i])
  BY <1>1, CommandConstants DEF Script
<1>. QED
  BY <1>2

\* An administrator who has not come to the end has a command.
LEMMA CommandTyped ==
  ASSUME CommandsInv, NEW a \in Administrators, ~Ended(a)
  PROVE  /\ at[a] \in 1 .. Len(Script(a))
         /\ WellFormed(Command(a))
<1>1. at[a] \in 1 .. Len(Script(a))
  BY ScriptTyped DEF CommandsInv, TypeOK, Ended
<1>. QED
  BY <1>1, ScriptTyped DEF Command

\* What an administrator's own step does to the places of all.
PlacesKept ==
  /\ at' \in [Administrators -> Nat]
  /\ pc' \in [Administrators -> {"enter", "list", "call", "answered"}]
  /\ answer' \in [Administrators -> {"none", "ok", "missing", "bad"}]
  /\ \A a \in Administrators :
       /\ at'[a] \in 1 .. (Len(Script(a)) + 1)
       /\ pc'[a] # "enter" =>
            at'[a] = at[a] /\ ~Ended(a) /\ ~Refused(Command(a))

LEMMA ExitKeeps ==
  ASSUME CommandsInv, NEW a \in Administrators, ~Ended(a), Exit(a) \/ Fail(a)
  PROVE  PlacesKept
<1>1. at[a] + 1 \in 1 .. (Len(Script(a)) + 1) /\ at[a] + 1 \in Nat
  BY CommandTyped, ScriptTyped
<1>2. CASE Exit(a)
  BY <1>1, <1>2 DEF CommandsInv, TypeOK, Exit, PlacesKept
<1>3. CASE Fail(a)
  BY <1>3 DEF CommandsInv, TypeOK, Fail, PlacesKept
<1>. QED
  BY <1>2, <1>3

LEMMA GotoKeeps ==
  ASSUME CommandsInv, NEW a \in Administrators, ~Ended(a), ~Refused(Command(a)),
         \/ Goto(a, "list") \/ Goto(a, "call")
         \/ \E status \in {"ok", "missing", "bad"} : Respond(a, status)
  PROVE  PlacesKept
BY DEF CommandsInv, TypeOK, Goto, Respond, PlacesKept

\* The step of one administrator, apart from the tables.
LEMMA PlacesStep ==
  ASSUME CommandsInv, NEW a \in Administrators, Step(a) \/ CallFails(a)
  PROVE  PlacesKept /\ faults' \in 0 .. MaxFaults
<1>. USE DEF CommandsInv, TypeOK
<1>1. pc[a] # "enter" => ~Ended(a) /\ ~Refused(Command(a))
  OBVIOUS
<1>2. CASE Enter(a)
  BY <1>2, ExitKeeps, GotoKeeps DEF Enter
<1>3. CASE ListExisting(a)
  BY <1>1, <1>3, ExitKeeps, GotoKeeps DEF ListExisting
<1>4. CASE Conclude(a)
  BY <1>1, <1>4, ExitKeeps DEF Conclude
<1>5. CASE CallFails(a)
  <2>1. PlacesKept
    BY <1>5, ExitKeeps DEF CallFails
  <2>. QED
    BY <1>5, <2>1, CommandConstants DEF CallFails, Fault
<1>6. ASSUME NEW status, status \in {"ok", "missing", "bad"}, Respond(a, status), pc[a] = "call"
      PROVE  PlacesKept /\ faults' = faults
  BY <1>1, <1>6, GotoKeeps DEF Respond
<1>7. CASE ServerStep(a)
  <2>1. pc[a] = "call" /\ \E status : status \in {"ok", "missing", "bad"} /\ Respond(a, status)
    <3>1. CASE CreateProject(a) \/ AddOidcIdentity(a) \/ RemoveOidcIdentity(a)
      BY <3>1 DEF Doing, InProject, Found, CreateProject, AddOidcIdentity, RemoveOidcIdentity
    <3>2. CASE SetRetentionPolicy(a) \/ ResetRetentionPolicy(a) \/ CreatePin(a) \/ RemovePin(a)
      BY <3>2 DEF Doing, InProject, Found, SetRetentionPolicy, ResetRetentionPolicy, CreatePin,
                  RemovePin
    <3>3. CASE CreateToken(a) \/ RevokeAccessToken(a) \/ UpsertUpstream(a) \/ SetUpstreamEnabled(a)
      BY <3>3 DEF Doing, InProject, Found, CreateToken, RevokeAccessToken, UpsertUpstream,
                  SetUpstreamEnabled
    <3>4. CASE LinkProjectUpstream(a) \/ UnlinkProjectUpstream(a) \/ RotateProjectKey(a)
      BY <3>4 DEF Doing, InProject, Found, LinkProjectUpstream, UnlinkProjectUpstream,
                  RotateProjectKey
    <3>. QED
      BY <1>7, <3>1, <3>2, <3>3, <3>4 DEF ServerStep
  <2>. QED
    BY <1>6, <2>1
<1>. QED
  BY <1>2, <1>3, <1>4, <1>5, <1>7 DEF Step

-----------------------------------------------------------------------------
(* The tables *)

PolicyHasItsRules == \A p \in Projects : policies[p] # NoPolicy => rules[p] = policies[p]

LEMMA AppendTyped ==
  ASSUME NEW S, NEW s \in Seq(S), NEW x \in S
  PROVE  Append(s, x) \in Seq(S)
OBVIOUS

\* A signing key more in the place of the active one.
LEMMA KeysTyped ==
  ASSUME TypeOK, NEW p \in Projects, ReplaceSigningKey(p, NextKeyNumber(p), TRUE)
  PROVE  keys' \in [Projects -> Seq([number : Nat, alone : BOOLEAN])]
<1>1. keys[p] \in Seq([number : Nat, alone : BOOLEAN])
  BY DEF TypeOK, AdminTypeOK
<1>2. [number |-> NextKeyNumber(p), alone |-> TRUE] \in [number : Nat, alone : BOOLEAN]
  BY <1>1 DEF NextKeyNumber
<1>3. Append(keys[p], [number |-> NextKeyNumber(p), alone |-> TRUE])
        \in Seq([number : Nat, alone : BOOLEAN])
  BY <1>1, <1>2, AppendTyped
<1>. QED
  BY <1>3 DEF TypeOK, AdminTypeOK, ReplaceSigningKey

\* Each call of the server keeps its tables well typed, and a policy with its own rules.
LEMMA TablesStep ==
  ASSUME CommandsInv, NEW a \in Administrators, ServerStep(a)
  PROVE  AccessTypeOK' /\ AdminTypeOK' /\ PolicyHasItsRules' /\ setting' = setting
<1>. DEFINE c == Command(a)
<1>. USE DEF CommandsInv, TypeOK, AccessTypeOK, AdminTypeOK, PolicyHasItsRules, Server, providerVars,
             tableVars, Doing, Any
<1>0. ~Ended(a) => WellFormed(c)
  BY CommandTyped
<1>1. CASE CreateProject(a)
  <2>1. c.project \in Projects
    BY <1>0, <1>1 DEF CreateProject, WellFormed
  <2>2. keys' \in [Projects -> Seq([number : Nat, alone : BOOLEAN])]
    BY <1>1, <2>1, KeysTyped DEF CreateProject
  <2>. QED
    BY <1>1, <2>1, <2>2 DEF CreateProject, InsertProject, OnlyProjects
<1>2. CASE AddOidcIdentity(a)
  <2>1. /\ c.project \in Projects /\ c.repository \in Repositories
        /\ NormalizedPatterns(c.patterns) \subseteq Patterns \cup {Any}
    BY <1>0, <1>2 DEF AddOidcIdentity, WellFormed, NormalizedPatterns
  <2>2. {[project |-> c.project, repository |-> c.repository, pattern |-> p] :
           p \in NormalizedPatterns(c.patterns)} \subseteq Bindings
    BY <2>1 DEF Bindings
  <2>3. bindings' \subseteq Bindings
    <3>. DEFINE new == {[project |-> c.project, repository |-> c.repository, pattern |-> p] :
                          p \in NormalizedPatterns(c.patterns)}
    <3>1. bindings' = bindings \/ bindings' = (bindings \ BoundTo(c.project, c.repository)) \cup new
      BY <1>2 DEF AddOidcIdentity, ReplaceProjectOidcIdentity
    <3>. HIDE DEF new
    <3>2. new \subseteq Bindings
      BY <2>2 DEF new
    <3>. QED
      BY <3>1, <3>2
  <2>. QED
    BY <1>2, <2>3 DEF AddOidcIdentity, OnlyBindings
<1>3. CASE RemoveOidcIdentity(a)
  BY <1>3 DEF RemoveOidcIdentity, DeleteProjectOidcIdentity, OnlyBindings
<1>4. CASE SetRetentionPolicy(a)
  <2>1. CASE UNCHANGED <<policies, rules>>
    BY <1>4, <2>1 DEF SetRetentionPolicy, OnlyPolicies
  <2>2. CASE ReplaceRetentionPolicy(c.project, c.policy)
             /\ (c.policy \in Profiles \/ PrioritiesDiffer(c.policy))
    <3>1. c.project \in Projects /\ c.policy \in Policies
      BY <1>0, <1>4, <2>2 DEF SetRetentionPolicy, WellFormed
    <3>. QED
      BY <1>4, <2>2, <3>1 DEF SetRetentionPolicy, ReplaceRetentionPolicy, OnlyPolicies
  <2>. QED
    BY <1>4, <2>1, <2>2 DEF SetRetentionPolicy
<1>5. CASE ResetRetentionPolicy(a)
  BY <1>5 DEF ResetRetentionPolicy, DeleteRetentionPolicy, OnlyPolicies
<1>6. CASE CreatePin(a)
  <2>1. [scope |-> c.project, name |-> c.name] \in [scope : Projects \cup {Global}, name : PinNames]
    BY <1>0, <1>6 DEF CreatePin, WellFormed
  <2>. QED
    BY <1>6, <2>1 DEF CreatePin, UpsertPin, OnlyPins
<1>7. CASE RemovePin(a)
  BY <1>7 DEF RemovePin, DeletePin, OnlyPins
<1>8. CASE CreateToken(a)
  <2>1. c.project \in Projects /\ NormalizedPatterns(c.patterns) \subseteq Patterns \cup {Any}
    BY <1>0, <1>8 DEF CreateToken, WellFormed, NormalizedPatterns
  <2>. DEFINE row == [project |-> c.project, patterns |-> NormalizedPatterns(c.patterns),
                      expires |-> Never, offset |-> 0, live |-> TRUE]
  <2>2. row \in AccessTokens
    BY <2>1 DEF AccessTokens, Never
  <2>3. tokens' = tokens \/ tokens' = Append(tokens, row)
    BY <1>8 DEF CreateToken, InsertAccessToken
  <2>. HIDE DEF row
  <2>4. tokens' \in Seq(AccessTokens)
    <3>1. tokens \in Seq(AccessTokens)
      OBVIOUS
    <3>2. Append(tokens, row) \in Seq(AccessTokens)
      BY <2>2, <3>1, AppendTyped
    <3>. QED
      BY <2>3, <3>1, <3>2
  <2>. QED
    BY <1>8, <2>4 DEF CreateToken, OnlyTokens
<1>9. CASE RevokeAccessToken(a)
  <2>1. CASE c.token \in DOMAIN tokens /\ RevokeToken(c.token)
    <3>1. [tokens[c.token] EXCEPT !.live = FALSE] \in AccessTokens
      <4>1. tokens[c.token] \in AccessTokens
        BY <2>1
      <4>. QED
        BY <4>1 DEF AccessTokens
    <3>2. tokens' \in Seq(AccessTokens)
      BY <2>1, <3>1 DEF RevokeToken
    <3>. QED
      BY <1>9, <3>2 DEF RevokeAccessToken, OnlyTokens
  <2>2. CASE UNCHANGED tokens
    BY <1>9, <2>2 DEF RevokeAccessToken, OnlyTokens
  <2>. QED
    BY <1>9, <2>1, <2>2 DEF RevokeAccessToken
<1>10. CASE UpsertUpstream(a)
  BY <1>10 DEF UpsertUpstream, UpsertUpstreamByName, Upserted, OnlyUpstreams
<1>11. CASE SetUpstreamEnabled(a)
  BY <1>11 DEF SetUpstreamEnabled, UpdateUpstreamEnabled, Upserted, OnlyUpstreams
<1>12. CASE LinkProjectUpstream(a)
  <2>1. <<c.project, c.upstream>> \in Projects \X UpstreamNames
    BY <1>0, <1>12 DEF LinkProjectUpstream, WellFormed, UpstreamOps
  <2>2. links' = links \/ links' = links \cup {<<c.project, c.upstream>>}
    BY <1>12 DEF LinkProjectUpstream, LinkUpstreamByName
  <2>3. links' \subseteq Projects \X UpstreamNames
    BY <2>1, <2>2
  <2>. QED
    BY <1>12, <2>3 DEF LinkProjectUpstream, OnlyLinks
<1>13. CASE UnlinkProjectUpstream(a)
  BY <1>13 DEF UnlinkProjectUpstream, UnlinkUpstreamByName, OnlyLinks
<1>14. CASE RotateProjectKey(a)
  <2>1. keys' \in [Projects -> Seq([number : Nat, alone : BOOLEAN])]
    BY <1>0, <1>14, KeysTyped DEF RotateProjectKey, WellFormed
  <2>. QED
    BY <1>14, <2>1 DEF RotateProjectKey, OnlyKeys
<1>. QED
  BY <1>1, <1>2, <1>3, <1>4, <1>5, <1>6, <1>7, <1>8, <1>9, <1>10, <1>11, <1>12, <1>13, <1>14
     DEF ServerStep

LEMMA CommandsInit == Init => CommandsInv
<1>. SUFFICES ASSUME Init
              PROVE  CommandsInv
  OBVIOUS
<1>1. setting \in Settings /\ \A a \in Administrators : Len(Script(a)) \in Nat
  BY CommandConstants DEF Init, Script
<1>2. AccessTypeOK
  BY <1>1, CommandConstants DEF Init, AccessTypeOK, NoCache
<1>3. AdminTypeOK
  BY DEF Init, AdminTypeOK
<1>. QED
  BY <1>1, <1>2, <1>3, CommandConstants DEF Init, CommandsInv, TypeOK

LEMMA CommandsStep == CommandsInv /\ [Next]_vars => CommandsInv'
<1>. SUFFICES ASSUME CommandsInv, [Next]_vars
              PROVE  CommandsInv'
  OBVIOUS
<1>1. CASE UNCHANGED vars
  BY <1>1 DEF vars, accessVars, adminVars, commandVars, CommandsInv, TypeOK, AccessTypeOK,
              AdminTypeOK, Script, Ended, Command
<1>2. ASSUME NEW a \in Administrators, Step(a) \/ CallFails(a)
      PROVE  CommandsInv'
  <2>1. PlacesKept /\ faults' \in 0 .. MaxFaults
    BY <1>2, PlacesStep
  <2>2. AccessTypeOK' /\ AdminTypeOK' /\ PolicyHasItsRules' /\ setting' = setting
    <3>1. CASE ServerStep(a)
      BY <3>1, TablesStep
    <3>2. CASE TablesUnchanged
      BY <3>2 DEF TablesUnchanged, accessVars, adminVars, CommandsInv, TypeOK, AccessTypeOK,
                  AdminTypeOK, PolicyHasItsRules
    <3>. QED
      BY <1>2, <3>1, <3>2 DEF Step, Enter, ListExisting, Conclude, CallFails
  <2>3. \A b \in Administrators : Script(b)' = Script(b)
    BY <2>2 DEF Script
  <2>4. TypeOK'
    BY <2>1, <2>2, <2>3 DEF TypeOK, PlacesKept
  <2>5. \A b \in Administrators : pc'[b] # "enter" => ~Ended(b)' /\ ~Refused(Command(b))'
    BY <2>1, <2>3 DEF PlacesKept, Ended, Command
  <2>. QED
    BY <2>2, <2>4, <2>5 DEF CommandsInv, PolicyHasItsRules
<1>. QED
  BY <1>1, <1>2 DEF Next

\* The inductive invariant of administrators at work.
THEOREM CommandsInductive == Spec => []CommandsInv
BY CommandsInit, CommandsStep, PTL DEF Spec

\* The tables stay well typed whatever the scripts do, at the same time and again
\* after an error.
THEOREM CommandsTypes == Spec => []TypeOK
<1>1. CommandsInv => TypeOK
  BY DEF CommandsInv
<1>. QED
  BY <1>1, CommandsInductive, PTL
-----------------------------------------------------------------------------
(* Retention profiles *)

Entries == 1 .. 9

\* The first of the patterns of the built-in rules that matches.
First(i, ref) ==
  /\ Matching(BuiltInPatterns[i], ref)
  /\ \A j \in Entries : Matching(BuiltInPatterns[j], ref) => i <= j

LEMMA PatternsCounted == DOMAIN BuiltInPatterns = Entries
BY DEF BuiltInPatterns, Entries

LEMMA FirstExists ==
  ASSUME NEW ref, NEW i \in Entries, Matching(BuiltInPatterns[i], ref)
  PROVE  \E k \in Entries : First(k, ref)
<1>. DEFINE M(j) == Matching(BuiltInPatterns[j], ref)
<1>1. \A k \in Entries : M(k) /\ (\A j \in Entries : M(j) => k <= j) => First(k, ref)
  BY DEF First
<1>. HIDE DEF M
<1>2. \E k \in Entries : M(k) /\ \A j \in Entries : M(j) => k <= j
  <2>1. M(i)
    BY DEF M
  <2>2. \/ M(1) \/ M(2) \/ M(3) \/ M(4) \/ M(5) \/ M(6) \/ M(7) \/ M(8) \/ M(9)
    BY <2>1 DEF Entries
  <2>3. CASE M(1)
    BY <2>3 DEF Entries
  <2>4. CASE ~M(1) /\ M(2)
    BY <2>4 DEF Entries
  <2>5. CASE ~M(1) /\ ~M(2) /\ M(3)
    BY <2>5 DEF Entries
  <2>6. CASE ~M(1) /\ ~M(2) /\ ~M(3) /\ M(4)
    BY <2>6 DEF Entries
  <2>7. CASE ~M(1) /\ ~M(2) /\ ~M(3) /\ ~M(4) /\ M(5)
    BY <2>7 DEF Entries
  <2>8. CASE ~M(1) /\ ~M(2) /\ ~M(3) /\ ~M(4) /\ ~M(5) /\ M(6)
    BY <2>8 DEF Entries
  <2>9. CASE ~M(1) /\ ~M(2) /\ ~M(3) /\ ~M(4) /\ ~M(5) /\ ~M(6) /\ M(7)
    BY <2>9 DEF Entries
  <2>10. CASE ~M(1) /\ ~M(2) /\ ~M(3) /\ ~M(4) /\ ~M(5) /\ ~M(6) /\ ~M(7) /\ M(8)
    BY <2>10 DEF Entries
  <2>11. CASE ~M(1) /\ ~M(2) /\ ~M(3) /\ ~M(4) /\ ~M(5) /\ ~M(6) /\ ~M(7) /\ ~M(8) /\ M(9)
    BY <2>11 DEF Entries
  <2>. QED
    BY <2>2, <2>3, <2>4, <2>5, <2>6, <2>7, <2>8, <2>9, <2>10, <2>11
<1>. QED
  BY <1>1, <1>2

\* The rule that the collector takes from a table is that of the first pattern
\* (matching_retention_rule: rules in the order of their priorities).
LEMMA RetentionOfTable ==
  ASSUME NEW days, NEW keep, NEW latest, NEW ref, NEW i \in Entries, First(i, ref)
  PROVE  Retention(RuleTable(days, keep), latest, ref) =
           [builds |-> IF keep[i] = Default THEN latest ELSE keep[i], ttl |-> Days(days[i])]
<1>. DEFINE table == RuleTable(days, keep)
            row(j) == Rule(10 * j, BuiltInPatterns[j], Days(days[j]), keep[j])
            applies(r) == /\ Matching(r.pattern, ref)
                          /\ \A s \in table : Matching(s.pattern, ref) => r.priority <= s.priority
<1>1. table = {row(j) : j \in Entries}
  BY PatternsCounted DEF RuleTable
<1>2. \A j : /\ row(j).priority = 10 * j /\ row(j).pattern = BuiltInPatterns[j]
             /\ row(j).ttl = Days(days[j]) /\ row(j).keep = keep[j]
  BY DEF Rule
<1>. HIDE DEF row, table
<1>3. row(i) \in table /\ applies(row(i))
  BY <1>1, <1>2 DEF First, Entries
<1>4. ASSUME NEW r \in table, applies(r)
      PROVE  r = row(i)
  <2>1. PICK j \in Entries : r = row(j)
    BY <1>1
  <2>2. Matching(BuiltInPatterns[j], ref) /\ 10 * j <= 10 * i
    BY <1>2, <1>3, <1>4, <2>1 DEF First
  <2>. QED
    BY <2>1, <2>2 DEF First, Entries
<1>5. MatchingRetentionRule(table, ref) = row(i)
  <2>1. MatchingRetentionRule(table, ref) = CHOOSE r \in table : applies(r)
    BY DEF MatchingRetentionRule
  <2>. HIDE DEF applies
  <2>. QED
    BY <1>3, <1>4, <2>1
<1>6. \E r \in table : Matching(r.pattern, ref)
  BY <1>3
<1>. QED
  BY <1>2, <1>5, <1>6 DEF Retention, table

LEMMA RetentionOfNone ==
  ASSUME NEW days, NEW keep, NEW latest, NEW ref, \A i \in Entries : ~First(i, ref)
  PROVE  Retention(RuleTable(days, keep), latest, ref) = [builds |-> 0, ttl |-> 0]
<1>1. \A i \in Entries : ~Matching(BuiltInPatterns[i], ref)
  BY FirstExists
<1>2. \A r \in RuleTable(days, keep) : ~Matching(r.pattern, ref)
  BY <1>1, PatternsCounted DEF RuleTable, Rule
<1>. QED
  BY <1>2 DEF Retention

-----------------------------------------------------------------------------
(* What each profile keeps *)

DaysOf ==
  [none |-> <<0, 0, 0, 0, 180, 14, 14, 60, 30>>, aggressive |-> <<0, 0, 0, 0, 90, 7, 7, 14, 14>>,
   balanced |-> <<0, 0, 0, 0, 180, 14, 14, 60, 30>>,
   conservative |-> <<0, 0, 0, 0, 0, 30, 30, 180, 90>>]

BuildsOf ==
  [none |-> <<2, 2, 2, 1, 2, 1, 1, 2, 1>>, aggressive |-> <<1, 1, 1, 1, 1, 1, 1, 1, 1>>,
   balanced |-> <<2, 2, 2, 1, 2, 1, 1, 2, 1>>, conservative |-> <<5, 5, 5, 2, 3, 2, 2, 3, 2>>]

LatestOf(x) == IF x = "none" THEN DefaultKeepLatest ELSE KeepLatestOf(x)

KeptBy(x, ref) == Retention(RuleTable(DaysOf[x], BuildsOf[x]), LatestOf(x), ref)

\* What the collector keeps by the tables is what the policy says.
KeptAsPolicySays ==
  \A p \in Projects, ref \in Refs :
    policies[p] \in Ranked => Kept(p, ref) = KeptBy(policies[p], ref)

LEMMA KeptByPolicy == CommandsInv => KeptAsPolicySays
<1>. SUFFICES ASSUME CommandsInv, NEW p \in Projects, NEW ref \in Refs, policies[p] \in Ranked
              PROVE  Kept(p, ref) = KeptBy(policies[p], ref)
  BY DEF KeptAsPolicySays
<1>1. policies[p] \in {"none", "aggressive", "balanced", "conservative"}
  BY DEF Ranked, Rank
<1>2. CASE policies[p] = "none"
  BY <1>2 DEF Kept, KeptBy, NoPolicy, DefaultRetentionRules, DaysOf, BuildsOf, LatestOf
<1>3. CASE policies[p] # "none"
  <2>1. rules[p] = policies[p] /\ policies[p] \in Profiles
    BY <1>1, <1>3 DEF CommandsInv, NoPolicy, Profiles
  <2>2. ProfileRules(policies[p]) = RuleTable(DaysOf[policies[p]], BuildsOf[policies[p]])
    <3>1. CASE policies[p] = "aggressive"
      BY <3>1 DEF ProfileRules, DaysOf, BuildsOf
    <3>2. CASE policies[p] = "balanced"
      BY <3>2 DEF ProfileRules, DaysOf, BuildsOf
    <3>3. CASE policies[p] = "conservative"
      BY <3>3 DEF ProfileRules, DaysOf, BuildsOf
    <3>. QED
      BY <1>1, <1>3, <3>1, <3>2, <3>3
  <2>. QED
    BY <1>3, <2>1, <2>2 DEF Kept, KeptBy, NoPolicy, RulesOf, LatestOf
<1>. QED
  BY <1>2, <1>3

\* Entry by entry, the numbers of a profile are at least those of a stricter one.
LEMMA RankedTables ==
  ASSUME NEW x \in Ranked, NEW y \in Ranked, Rank[x] <= Rank[y], NEW i \in Entries
  PROVE  /\ BuildsOf[x][i] \in Nat \ {0} /\ BuildsOf[y][i] \in Nat \ {0}
         /\ BuildsOf[y][i] >= BuildsOf[x][i]
         /\ Days(DaysOf[y][i]) >= Days(DaysOf[x][i])
<1>1. /\ x \in {"none", "aggressive", "balanced", "conservative"}
      /\ y \in {"none", "aggressive", "balanced", "conservative"}
  BY DEF Ranked, Rank
<1>2. i \in {1, 2, 3, 4, 5, 6, 7, 8, 9}
  BY DEF Entries
<1>3. /\ Days(0) = U64 /\ Days(7) = 604800 /\ Days(14) = 1209600 /\ Days(30) = 2592000
      /\ Days(60) = 5184000 /\ Days(90) = 7776000 /\ Days(180) = 15552000
      /\ U64 \in Nat /\ U64 > 15552000
  BY RetentionConstants DEF Days, Forever
<1>. HIDE DEF Days
<1>4. CASE x \in {"none", "balanced"} /\ y \in {"none", "balanced"}
  BY <1>2, <1>3, <1>4 DEF DaysOf, BuildsOf
<1>5. CASE x = "aggressive" /\ y = "aggressive"
  BY <1>2, <1>3, <1>5 DEF DaysOf, BuildsOf
<1>6. CASE x = "conservative" /\ y = "conservative"
  BY <1>2, <1>3, <1>6 DEF DaysOf, BuildsOf
<1>7. CASE x = "aggressive" /\ y \in {"none", "balanced"}
  BY <1>2, <1>3, <1>7 DEF DaysOf, BuildsOf
<1>8. CASE x = "aggressive" /\ y = "conservative"
  BY <1>2, <1>3, <1>8 DEF DaysOf, BuildsOf
<1>9. CASE x \in {"none", "balanced"} /\ y = "conservative"
  BY <1>2, <1>3, <1>9 DEF DaysOf, BuildsOf
<1>. QED
  BY <1>1, <1>4, <1>5, <1>6, <1>7, <1>8, <1>9 DEF Rank

LEMMA MilderKeepsMore ==
  ASSUME NEW x \in Ranked, NEW y \in Ranked, Rank[x] <= Rank[y], NEW ref
  PROVE  KeepsAtLeast(KeptBy(y, ref), KeptBy(x, ref))
<1>1. CASE \A i \in Entries : ~First(i, ref)
  BY <1>1, RetentionOfNone DEF KeptBy, KeepsAtLeast
<1>2. ASSUME NEW i \in Entries, First(i, ref)
      PROVE  KeepsAtLeast(KeptBy(y, ref), KeptBy(x, ref))
  <2>1. /\ KeptBy(x, ref) = [builds |-> IF BuildsOf[x][i] = Default THEN LatestOf(x)
                                        ELSE BuildsOf[x][i],
                             ttl |-> Days(DaysOf[x][i])]
        /\ KeptBy(y, ref) = [builds |-> IF BuildsOf[y][i] = Default THEN LatestOf(y)
                                        ELSE BuildsOf[y][i],
                             ttl |-> Days(DaysOf[y][i])]
    BY <1>2, RetentionOfTable DEF KeptBy
  <2>2. /\ KeptBy(x, ref) = [builds |-> BuildsOf[x][i], ttl |-> Days(DaysOf[x][i])]
        /\ KeptBy(y, ref) = [builds |-> BuildsOf[y][i], ttl |-> Days(DaysOf[y][i])]
    BY <2>1, RankedTables DEF Default
  <2>. QED
    BY <2>2, RankedTables DEF KeepsAtLeast
<1>. QED
  BY <1>1, <1>2

\* A change of profile that is meant to be milder keeps at least the builds, and for
\* at least the time, for every ref there may be: the patterns of all profiles and
\* of the built-in rules are the same, so the same entry of each table applies.
THEOREM MilderProfileSafe == Spec => MilderProfileKeepsMore
<1>1. ASSUME KeptAsPolicySays, KeptAsPolicySays'
      PROVE  \A p \in Projects, ref \in Refs :
               (/\ policies[p] \in Ranked /\ policies'[p] \in Ranked
                /\ Rank[policies[p]] <= Rank[policies'[p]])
               => KeepsAtLeast(Kept(p, ref)', Kept(p, ref))
  <2>. SUFFICES ASSUME NEW p \in Projects, NEW ref \in Refs,
                       policies[p] \in Ranked, policies'[p] \in Ranked,
                       Rank[policies[p]] <= Rank[policies'[p]]
                PROVE  KeepsAtLeast(Kept(p, ref)', Kept(p, ref))
    OBVIOUS
  <2>1. Kept(p, ref) = KeptBy(policies[p], ref)
    BY <1>1 DEF KeptAsPolicySays
  <2>2. Kept(p, ref)' = KeptBy(policies'[p], ref)
    BY <1>1 DEF KeptAsPolicySays
  <2>. QED
    BY <2>1, <2>2, MilderKeepsMore
<1>. QED
  BY <1>1, KeptByPolicy, CommandsInductive, PTL DEF MilderProfileKeepsMore
=============================================================================
