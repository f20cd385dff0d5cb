--------------------------- MODULE RetentionRules ---------------------------
(***************************************************************************)
(* The rules of retention policies: the built-in ones of                   *)
(* crates/depot-db/src/retention.rs, the three profiles and the custom     *)
(* rules of "depot-ctl projects retention set", and the rule that applies  *)
(* to a ref.                                                               *)
(*                                                                         *)
(* A ref is a sequence of segments.  A pattern is a sequence too; ending   *)
(* in a star it matches every longer ref that begins with it.              *)
(***************************************************************************)
EXTENDS Naturals, Sequences

CONSTANTS
  Refs,       \* refs whose retention is of interest
  CustomSets, \* "retention set" by name, without a profile: its arguments
  U64         \* 2^64: a product of two u64 wraps in a release build

\* Longer than the longest time of a profile, in seconds.
ASSUME RetentionConstants == U64 \in Nat /\ U64 > 180 * 24 * 60 * 60

Forever == U64  \* no ttl_seconds: longer than any
Default == 0    \* no keep_builds

Exactly(segments) == [segments |-> segments, star |-> FALSE]
Below(segments) == [segments |-> segments, star |-> TRUE]

Matching(pattern, ref) ==
  IF pattern.star
  THEN LET n == Len(pattern.segments)
       IN  n < Len(ref) /\ SubSeq(ref, 1, n) = pattern.segments
  ELSE pattern.segments = ref

Rule(priority, pattern, ttl, keep) ==
  [priority |-> priority, pattern |-> pattern, ttl |-> ttl, keep |-> keep]

\* A table has 0 for "forever".
Days(n) == IF n = 0 THEN Forever ELSE n * 24 * 60 * 60

\* The patterns of the built-in rules and of all profiles, in the order of their
\* priorities 10, 20, ...
BuiltInPatterns ==
  << Exactly(<<"heads", "main">>), Exactly(<<"heads", "master">>), Exactly(<<"heads", "trunk">>),
     Below(<<"tags">>), Below(<<"heads", "release">>), Below(<<"pull">>),
     Below(<<"merge-requests">>), Below(<<"heads">>), Below(<<>>) >>

RuleTable(days, keep) ==
  {Rule(10 * i, BuiltInPatterns[i], Days(days[i]), keep[i]) : i \in DOMAIN BuiltInPatterns}

\* Mutant of DefaultRetentionRules: branches are kept longer than in the profile.
DefaultRulesDrifted ==
  RuleTable(<<0, 0, 0, 0, 180, 14, 14, 90, 30>>, <<2, 2, 2, 1, 2, 1, 1, 2, 1>>)

DefaultRetentionRules ==
  RuleTable(<<0, 0, 0, 0, 180, 14, 14, 60, 30>>, <<2, 2, 2, 1, 2, 1, 1, 2, 1>>)
DefaultKeepLatest == 2

Profiles == {"aggressive", "balanced", "conservative"}

ProfileRules(profile) ==
  CASE profile = "aggressive" ->
         RuleTable(<<0, 0, 0, 0, 90, 7, 7, 14, 14>>, <<1, 1, 1, 1, 1, 1, 1, 1, 1>>)
    [] profile = "balanced" ->
         RuleTable(<<0, 0, 0, 0, 180, 14, 14, 60, 30>>, <<2, 2, 2, 1, 2, 1, 1, 2, 1>>)
    [] profile = "conservative" ->
         RuleTable(<<0, 0, 0, 0, 0, 30, 30, 180, 90>>, <<5, 5, 5, 2, 3, 2, 2, 3, 2>>)

ProfileKeepLatest(profile) ==
  CASE profile = "aggressive" -> 1 [] profile = "balanced" -> 2 [] profile = "conservative" -> 5

-----------------------------------------------------------------------------
\* Arguments of a custom policy.  A duration is an amount and its unit, or "forever".

UnitSeconds == [d |-> 24 * 60 * 60, h |-> 60 * 60, m |-> 60, s |-> 1]

DurationParses(text) == text.unit \in DOMAIN UnitSeconds \cup {"forever"}

ParseDurationSeconds(text) ==
  IF text.unit = "forever" THEN Forever ELSE (text.amount * UnitSeconds[text.unit]) % U64

RuleParses(text) ==
  /\ text.priority > 0
  /\ DurationParses(text.ttl)
  /\ text.keep = "default" \/ text.count > 0

ParseRetentionRule(text) ==
  Rule(text.priority, text.pattern, ParseDurationSeconds(text.ttl),
       IF text.keep = "default" THEN Default ELSE text.count)

\* What depot-ctl accepts, and what the server accepts of it: priorities are unique.
CustomSetParses(name) ==
  LET set == CustomSets[name]
  IN  /\ set.rules # <<>>
      /\ set.keep_builds > 0
      /\ DurationParses(set.grace) /\ set.grace.unit # "forever"
      /\ \A i \in DOMAIN set.rules : RuleParses(set.rules[i])

PrioritiesDiffer(name) ==
  LET set == CustomSets[name]
  IN  \A i, j \in DOMAIN set.rules :
        set.rules[i].priority = set.rules[j].priority => i = j

\* The policy of a profile, or a custom one, by name.
RulesOf(name) ==
  IF name \in Profiles THEN ProfileRules(name)
  ELSE {ParseRetentionRule(CustomSets[name].rules[i]) : i \in DOMAIN CustomSets[name].rules}

KeepLatestOf(name) ==
  IF name \in Profiles THEN ProfileKeepLatest(name) ELSE CustomSets[name].keep_builds

-----------------------------------------------------------------------------
\* The rule that the collector applies to a ref; a ref without rule keeps nothing.

MatchingRetentionRule(rules, ref) ==
  CHOOSE r \in rules :
    /\ Matching(r.pattern, ref)
    /\ \A s \in rules : Matching(s.pattern, ref) => r.priority <= s.priority

Retention(rules, keepLatest, ref) ==
  IF \E r \in rules : Matching(r.pattern, ref)
  THEN LET rule == MatchingRetentionRule(rules, ref)
       IN  [builds |-> IF rule.keep = Default THEN keepLatest ELSE rule.keep, ttl |-> rule.ttl]
  ELSE [builds |-> 0, ttl |-> 0]
=============================================================================
