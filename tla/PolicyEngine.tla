---------------------------- MODULE PolicyEngine ----------------------------
(***************************************************************************)
(* Evaluator.Evaluate of pkg/engine: which policies apply to a call, which *)
(* of their rules trigger, and how the contributions of enforcement and    *)
(* shadow policies become the reported decision, the action taken and its  *)
(* explanation. Every loop of the code is an action, so that an invariant  *)
(* can speak about a half-finished evaluation.                             *)
(*                                                                         *)
(* Abstractions. A rule's condition tree is its outcome on the call. A     *)
(* policy is named by its position in the input and a rule by <<policy,    *)
(* position>>, which stands for (policy_id, version, rule_id):             *)
(* ValidatePolicySet refuses duplicates. A citation or a suggested         *)
(* response is named by its rule. A tool name is a word and its casing.    *)
(***************************************************************************)
EXTENDS Naturals, Sequences, FiniteSets

CONSTANTS Policy,       \* policies an input may hold
          MaxPolicies,  \* length of the input
          Envelope,     \* calls
          NoRule        \* nil citation, empty response

DefaultPriority == 100
CallMode == {"shadow", "enforcement", "unknown"}
Effect == {"allow", "flag", "escalate", "deny"}

\* A rule: whether it is enabled, its condition's outcome, its effect.
PolicyRule == [enabled : {"unset", "true", "false"}, fires : BOOLEAN, effect : Effect]

\* ValidatePolicy refuses a rule with another effect.
ASSUME PolicyAssumption ==
    /\ MaxPolicies \in Nat
    /\ \A p \in Policy : p.rules \in Seq(PolicyRule)

VARIABLES policies,             \* the input
          envelope,
          mode,                 \* the call site's mode
          pc,                   \* "match", "sort", "rules", "done"
          at,                   \* next policy, next rule of it
          matched,              \* indexes into policies
          allResults,
          enforcedResults,
          rulesTriggered,
          shadowEffectMatched,
          shadowGatingMatched,
          result

input == <<policies, envelope, mode>>
flags == <<rulesTriggered, shadowEffectMatched, shadowGatingMatched>>
vars == <<input, pc, at, matched, allResults, enforcedResults, flags, result>>

-----------------------------------------------------------------------------
(* Effects *)

EffectSeverity(e) ==
    CASE e = "deny" -> 4 [] e = "escalate" -> 3 [] e = "flag" -> 2
      [] e = "allow" -> 1 [] OTHER -> 0

\* The largest of a set of severities, 0 when it is empty.
MaxSeverity(S) ==
    IF S = {} THEN 0 ELSE CHOOSE s \in S : \A t \in S : t <= s

\* The results of a sequence that matched.
Hits(rs) == {n \in 1..Len(rs) : rs[n].matched}

DecisionOf(severity) ==
    CASE severity = 4 -> "denied" [] severity = 3 -> "escalated"
      [] severity = 2 -> "flagged" [] OTHER -> "allowed"

\* mutant: the last triggered rule wins.
ResolveDecision_LastWins(rs) ==
    DecisionOf(IF Hits(rs) = {} THEN 0
               ELSE EffectSeverity(rs[CHOOSE n \in Hits(rs) : \A m \in Hits(rs) : m <= n].effect))

ResolveDecision(rs) ==
    DecisionOf(MaxSeverity({EffectSeverity(rs[n].effect) : n \in Hits(rs)}))

ResolveActionTaken(decision, m) ==
    IF m = "shadow" /\ decision \in {"denied", "escalated"}
    THEN "allowed_shadow"
    ELSE decision

\* The rule of the first result among those of the highest severity: the
\* citation, and the suggested response, are taken from it.
FirstWorst(rs) ==
    LET Sev(n) == EffectSeverity(rs[n].effect)
        worst  == {n \in Hits(rs) : Sev(n) > 0 /\ \A m \in Hits(rs) : Sev(m) <= Sev(n)}
    IN  IF worst = {} THEN NoRule
        ELSE rs[CHOOSE n \in worst : \A m \in worst : n <= m].rule

FindPrimaryCitation(rs) == FirstWorst(rs)

findPolicySuggestedResponse(rs) == FirstWorst(rs)

matchedRuleResults(rs) ==
    LET matchedIn[n \in 0..Len(rs)] ==
            IF n = 0 THEN <<>>
            ELSE IF rs[n].matched THEN Append(matchedIn[n - 1], rs[n])
            ELSE matchedIn[n - 1]
    IN matchedIn[Len(rs)]

-----------------------------------------------------------------------------
(* Matching *)

containsStrFold(names, name) == \E n \in names : n.word = name.word

matchesScope(env, scope) ==
    /\ scope.orgs # {} => env.org \in scope.orgs
    /\ scope.agents # {} => env.agent \in scope.agents
    /\ scope.tools # {} \/ scope.groups # {} =>
          \/ containsStrFold(scope.tools, env.tool)
          \/ env.group # "" /\ env.group \in scope.groups

IsEnabled(rule) == rule.enabled # "false"

\* A missing priority is the default one.
Priority(p) == IF p.priority = 0 THEN DefaultPriority ELSE p.priority

Init ==
    /\ policies \in UNION {[1..n -> Policy] : n \in 0..MaxPolicies}
    /\ envelope \in Envelope
    /\ mode \in CallMode
    /\ pc = "match"
    /\ at = <<1, 1>>
    /\ matched = <<>>
    /\ allResults = <<>> /\ enforcedResults = <<>>
    /\ rulesTriggered = 0
    /\ shadowEffectMatched = FALSE /\ shadowGatingMatched = FALSE
    /\ result = NoRule

Applies(p) == p.status = "approved" /\ matchesScope(envelope, p.scope)

\* One turn of the loop of MatchPolicies.
MatchPolicy ==
    /\ pc = "match" /\ at[1] <= Len(policies)
    /\ matched' = IF Applies(policies[at[1]]) THEN Append(matched, at[1]) ELSE matched
    /\ at' = <<at[1] + 1, 1>>
    /\ UNCHANGED <<input, pc, allResults, enforcedResults, flags, result>>

Matched ==
    /\ pc = "match" /\ at[1] > Len(policies)
    /\ pc' = "sort"
    /\ UNCHANGED <<input, at, matched, allResults, enforcedResults, flags, result>>

\* sort.Slice is not stable: policies of equal priority may end in any order.
Sort ==
    /\ pc = "sort"
    /\ \E f \in [1..Len(matched) -> 1..Len(matched)] :
          /\ \A j \in 1..Len(matched) : \E i \in 1..Len(matched) : f[i] = j
          /\ matched' = [i \in 1..Len(matched) |-> matched[f[i]]]
    /\ \A i, j \in 1..Len(matched) :
          i < j => Priority(policies[matched'[i]]) <= Priority(policies[matched'[j]])
    /\ pc' = "rules" /\ at' = <<1, 1>>
    /\ UNCHANGED <<input, allResults, enforcedResults, flags, result>>

-----------------------------------------------------------------------------
(* Evaluating the rules *)

CurrentPolicy == policies[matched[at[1]]]
CurrentRule == CurrentPolicy.rules[at[2]]
AtRule == pc = "rules" /\ at[1] <= Len(matched) /\ at[2] <= Len(CurrentPolicy.rules)

evaluateRule(rule, key) ==
    [rule |-> key, matched |-> rule.fires, effect |-> rule.effect]

SkipRule ==
    /\ AtRule /\ ~IsEnabled(CurrentRule)
    /\ at' = <<at[1], at[2] + 1>>
    /\ UNCHANGED <<input, pc, matched, allResults, enforcedResults, flags, result>>

\* Every mode but shadow is enforcement.
Enforced(p) == p.mode # "shadow"

EvalRule ==
    /\ AtRule /\ IsEnabled(CurrentRule)
    /\ LET r == evaluateRule(CurrentRule, <<matched[at[1]], at[2]>>)
           shadow == ~Enforced(CurrentPolicy)
       IN  /\ allResults' = Append(allResults, r)
           /\ rulesTriggered' = rulesTriggered + IF r.matched THEN 1 ELSE 0
           /\ enforcedResults' = IF r.matched /\ ~shadow THEN Append(enforcedResults, r)
                                 ELSE enforcedResults
           /\ shadowEffectMatched' = (shadowEffectMatched \/ (r.matched /\ shadow))
           /\ shadowGatingMatched' =
                 (shadowGatingMatched
                    \/ (r.matched /\ shadow /\ r.effect \in {"deny", "escalate"}))
    /\ at' = <<at[1], at[2] + 1>>
    /\ UNCHANGED <<input, pc, matched, result>>

NextPolicy ==
    /\ pc = "rules" /\ at[1] <= Len(matched) /\ at[2] > Len(CurrentPolicy.rules)
    /\ at' = <<at[1] + 1, 1>>
    /\ UNCHANGED <<input, pc, matched, allResults, enforcedResults, flags, result>>

-----------------------------------------------------------------------------
(* Resolving *)

decision == ResolveDecision(allResults)
enforcedDecision == ResolveDecision(enforcedResults)

\* mutant: the aggregate decision controls the action.
actionDecision_Aggregate == decision

actionDecision == IF enforcedDecision = "allowed" THEN decision ELSE enforcedDecision

\* mutant: a matched shadow rule makes the whole evaluation observe-only.
effectiveMode_AnyShadow ==
    IF shadowEffectMatched \/ mode = "shadow" THEN "shadow" ELSE "enforcement"

effectiveMode ==
    IF /\ enforcedDecision = "allowed"
       /\ mode \in {"shadow", "enforcement"}
       /\ shadowEffectMatched \/ mode = "shadow"
    THEN "shadow"
    ELSE "enforcement"

actionTaken == ResolveActionTaken(actionDecision, effectiveMode)

\* mutant: the citation of an action comes from every rule that triggered.
appliedResults_All == matchedRuleResults(allResults)

appliedResults ==
    IF enforcedDecision = "allowed" /\ actionTaken \in {"denied", "escalated", "flagged"}
    THEN matchedRuleResults(allResults)
    ELSE enforcedResults

guidanceResults == IF actionTaken = "allowed_shadow" THEN allResults ELSE appliedResults

\* What the text says: the rules it names, and its remark on the action.
generateDecisionReason ==
    [rules |-> {allResults[n].rule : n \in {m \in Hits(allResults) :
                                              EffectSeverity(allResults[m].effect) >= 2}},
     note |-> CASE decision = "allowed" -> ""
                [] decision # "allowed" /\ effectiveMode = "shadow" -> "was allowed"
                [] OTHER -> IF actionDecision # decision THEN actionDecision ELSE ""]

Resolve ==
    /\ pc = "rules" /\ at[1] > Len(matched)
    /\ pc' = "done"
    /\ result' = [decision               |-> decision,
                  actionTaken            |-> actionTaken,
                  effectiveMode          |-> effectiveMode,
                  decisionReason         |-> generateDecisionReason,
                  policiesMatched        |-> Len(matched),
                  rulesEvaluated         |-> Len(allResults),
                  rulesTriggered         |-> rulesTriggered,
                  primaryCitation        |-> FindPrimaryCitation(allResults),
                  appliedPrimaryCitation |-> FindPrimaryCitation(appliedResults),
                  isNearMiss             |-> shadowGatingMatched,
                  suggestedResponse      |->
                     IF decision = "allowed" THEN NoRule
                     ELSE findPolicySuggestedResponse(guidanceResults)]
    /\ UNCHANGED <<input, at, matched, allResults, enforcedResults, flags>>

Next == \/ MatchPolicy \/ Matched \/ Sort
        \/ SkipRule \/ EvalRule \/ NextPolicy \/ Resolve

Spec == Init /\ [][Next]_vars

-----------------------------------------------------------------------------
(* Reference: the rules that bear on the call, without order *)

Firing ==
    {k \in UNION {{i} \X (1..Len(policies[i].rules)) : i \in 1..Len(policies)} :
        LET p == policies[k[1]]  r == p.rules[k[2]]
        IN  /\ p.status = "approved" /\ matchesScope(envelope, p.scope)
            /\ r.enabled # "false" /\ r.fires}

EffectOf(k) == policies[k[1]].rules[k[2]].effect
ShadowRule(k) == policies[k[1]].mode = "shadow"
Worst(S) == MaxSeverity({EffectSeverity(EffectOf(k)) : k \in S})
EnforcedFiring == {k \in Firing : ~ShadowRule(k)}

ActionSeverity(a) ==
    CASE a = "denied" -> 4 [] a = "escalated" -> 3 [] a = "flagged" -> 2 [] OTHER -> 1

Done == pc = "done"

-----------------------------------------------------------------------------
(* Properties *)

Rule == (1..MaxPolicies) \X Nat

RuleResult == [rule : Rule, matched : BOOLEAN, effect : Effect]

Decision == {"allowed", "flagged", "escalated", "denied"}

\* The variables have the types of the locals of Evaluate, and the result
\* those of EvaluationResult.
TypeOK ==
    /\ policies \in Seq(Policy) /\ Len(policies) <= MaxPolicies
    /\ envelope \in Envelope /\ mode \in CallMode
    /\ pc \in {"match", "sort", "rules", "done"}
    /\ at \in (Nat \ {0}) \X (Nat \ {0})
    /\ matched \in Seq(1..Len(policies))
    /\ allResults \in Seq(RuleResult) /\ enforcedResults \in Seq(RuleResult)
    /\ rulesTriggered \in Nat
    /\ shadowEffectMatched \in BOOLEAN /\ shadowGatingMatched \in BOOLEAN
    /\ pc # "done" => result = NoRule
    /\ pc = "done" => /\ result.decision \in Decision
                      /\ result.actionTaken \in Decision \cup {"allowed_shadow"}
                      /\ result.effectiveMode \in {"shadow", "enforcement"}

\* Whatever order policies are given and sorted in, the decision is that of
\* the most severe rule that triggered, the counters count the rules that
\* triggered, and the near-miss flag tells of a triggered shadow deny or
\* escalation (Evaluate, steps 3, 4 and 7).
OrderIndependent ==
    Done => /\ result.decision = DecisionOf(Worst(Firing))
            /\ result.rulesTriggered = Cardinality(Firing)
            /\ result.isNearMiss =
                  (\E k \in Firing : ShadowRule(k) /\ EffectOf(k) \in {"deny", "escalate"})

\* An enforcement policy is never weakened: when its rules flag, escalate or
\* deny, that is the action, whatever shadow policies say and whatever mode
\* the call site has (Evaluate, step 5).
EnforcementApplies ==
    Done /\ Worst(EnforcedFiring) >= 2
        => ActionSeverity(result.actionTaken) = Worst(EnforcedFiring)

\* A shadow policy only observes: with one of the two known call-site modes a
\* call is stopped only by a rule of an enforcement policy with that effect
\* (Evaluate, step 5, and docs/creating-policies.md).
ShadowOnlyObserves ==
    Done /\ mode # "unknown" /\ result.actionTaken \in {"denied", "escalated"}
        => \E k \in EnforcedFiring :
              EffectSeverity(EffectOf(k)) = ActionSeverity(result.actionTaken)

\* The two together: beside any shadow policies the enforcement policies alone
\* decide what happens to a call (Evaluate, step 5).
EnforcementDecides == EnforcementApplies /\ ShadowOnlyObserves

\* The rule the applied citation and the guidance come from is one that
\* triggered with the effect of the action; for an action let through in shadow
\* mode the guidance is that of the reported decision (Evaluate, step 8).
ExplainsAction ==
    Done =>
      /\ result.actionTaken \in {"denied", "escalated", "flagged"} =>
            /\ result.appliedPrimaryCitation \in Firing
            /\ DecisionOf(EffectSeverity(EffectOf(result.appliedPrimaryCitation)))
                  = result.actionTaken
            /\ result.suggestedResponse = result.appliedPrimaryCitation
      /\ result.actionTaken = "allowed_shadow" =>
            /\ result.suggestedResponse = result.primaryCitation
            /\ result.appliedPrimaryCitation # NoRule =>
                  EffectOf(result.appliedPrimaryCitation) = "allow"

=============================================================================
