------------------------- MODULE PolicyEngineProofs -------------------------
(***************************************************************************)
(* Proofs about PolicyEngine, for any set of policies and any number of    *)
(* them: types, EnforcementApplies, ShadowOnlyObserves, OrderIndependent,  *)
(* ExplainsAction.                                                         *)
(***************************************************************************)
EXTENDS PolicyEngine, FiniteSetTheorems, SequenceTheorems, WellFoundedInduction, TLAPS

-----------------------------------------------------------------------------
(* The inductive invariant *)

Covered(i) == \E n \in 1..Len(matched) : matched[n] = i

\* matched holds the policies that apply among those looked at, each once.
MatchInv ==
    /\ \A n \in 1..Len(matched) : Applies(policies[matched[n]])
    /\ \A n, m \in 1..Len(matched) : matched[n] = matched[m] => n = m
    /\ pc = "match" =>
          /\ \A n \in 1..Len(matched) : matched[n] < at[1]
          /\ \A i \in 1..Len(policies) : i < at[1] /\ Applies(policies[i]) => Covered(i)
    /\ pc # "match" =>
          \A i \in 1..Len(policies) : Applies(policies[i]) => Covered(i)

\* The rule loop has passed rule k.
Passed(k) ==
    \E n \in 1..Len(matched) :
        matched[n] = k[1] /\ (n < at[1] \/ (n = at[1] /\ k[2] < at[2]))

Looping == pc \in {"rules", "done"}

PassedFiring == {k \in Firing : Looping /\ Passed(k)}

\* A sequence of results tells of exactly the rules in S.
Tells(rs, S) ==
    /\ \A n \in Hits(rs) : rs[n].rule \in S /\ rs[n].effect = EffectOf(rs[n].rule)
    /\ \A k \in S : \E n \in Hits(rs) : rs[n].rule = k

Gating(k) == ShadowRule(k) /\ EffectOf(k) \in {"deny", "escalate"}

\* The accumulators agree with the rules passed.
RuleInv ==
    /\ Tells(allResults, PassedFiring)
    /\ Tells(enforcedResults, {k \in PassedFiring : ~ShadowRule(k)})
    /\ shadowEffectMatched = (\E k \in PassedFiring : ShadowRule(k))
    /\ shadowGatingMatched = (\E k \in PassedFiring : Gating(k))
    /\ IsFiniteSet(PassedFiring) /\ rulesTriggered = Cardinality(PassedFiring)

DoneInv ==
    pc = "done" => /\ at[1] > Len(matched)
                   /\ result.decision = decision
                   /\ result.actionTaken = actionTaken
                   /\ result.rulesTriggered = rulesTriggered
                   /\ result.isNearMiss = shadowGatingMatched
                   /\ result.primaryCitation = FindPrimaryCitation(allResults)
                   /\ result.appliedPrimaryCitation = FindPrimaryCitation(appliedResults)
                   /\ decision # "allowed" =>
                        result.suggestedResponse = findPolicySuggestedResponse(guidanceResults)

EngineInv == TypeOK /\ MatchInv /\ RuleInv /\ DoneInv

-----------------------------------------------------------------------------
(* Severities *)

\* A known effect has a severity from 1 to 4.
LEMMA SeverityRange ==
    ASSUME NEW e \in Effect
    PROVE  EffectSeverity(e) \in 1..4
BY DEF Effect, EffectSeverity

\* MaxSeverity is the maximum of the severities it is given.
LEMMA MaxSeverityIsMax ==
    ASSUME NEW S, S \subseteq 1..4, S # {}
    PROVE  MaxSeverity(S) \in S /\ \A t \in S : t <= MaxSeverity(S)
<1>1. \E s \in S : \A t \in S : t <= s
  <2>1. CASE 4 \in S
    BY <2>1
  <2>2. CASE 4 \notin S /\ 3 \in S
    BY <2>2
  <2>3. CASE 4 \notin S /\ 3 \notin S /\ 2 \in S
    BY <2>3
  <2>4. CASE 4 \notin S /\ 3 \notin S /\ 2 \notin S
    <3>1. \A t \in S : t = 1
      BY <2>4
    <3>2. PICK s \in S : TRUE
      OBVIOUS
    <3> QED BY <3>1, <3>2
  <2> QED BY <2>1, <2>2, <2>3, <2>4
<1> QED BY <1>1 DEF MaxSeverity

\* Two sets with the same severities have the same maximum.
LEMMA WorstOfTold ==
    ASSUME NEW rs, NEW S, Tells(rs, S)
    PROVE  {EffectSeverity(rs[n].effect) : n \in Hits(rs)}
              = {EffectSeverity(EffectOf(k)) : k \in S}
<1>1. \A n \in Hits(rs) : rs[n].rule \in S /\ rs[n].effect = EffectOf(rs[n].rule)
  BY DEF Tells
<1>2. \A k \in S : \E n \in Hits(rs) : rs[n].rule = k
  BY DEF Tells
<1>3. ASSUME NEW n \in Hits(rs)
      PROVE  \E k \in S : EffectSeverity(rs[n].effect) = EffectSeverity(EffectOf(k))
  BY <1>1
<1>4. ASSUME NEW k \in S
      PROVE  \E n \in Hits(rs) : EffectSeverity(EffectOf(k)) = EffectSeverity(rs[n].effect)
  <2>1. PICK n \in Hits(rs) : rs[n].rule = k
    BY <1>2
  <2> QED BY <2>1, <1>1
<1> QED BY <1>3, <1>4

\* Hits of an extended sequence.
LEMMA HitsAppend ==
    ASSUME NEW rs \in Seq(RuleResult), NEW r \in RuleResult
    PROVE  /\ Hits(Append(rs, r))
                = Hits(rs) \cup (IF r.matched THEN {Len(rs) + 1} ELSE {})
           /\ \A n \in Hits(rs) : Append(rs, r)[n] = rs[n]
           /\ Append(rs, r)[Len(rs) + 1] = r
           /\ Len(rs) + 1 \notin Hits(rs)
<1>1. /\ Len(Append(rs, r)) = Len(rs) + 1 /\ Len(rs) \in Nat
      /\ \A n \in 1..Len(rs) : Append(rs, r)[n] = rs[n]
      /\ Append(rs, r)[Len(rs) + 1] = r
  OBVIOUS
<1> QED BY <1>1 DEF Hits

\* A sequence that tells of S tells of one rule more after a hit is appended,
\* and of S after a miss.
LEMMA TellsAppend ==
    ASSUME NEW rs \in Seq(RuleResult), NEW r \in RuleResult, NEW S, Tells(rs, S),
           r.effect = EffectOf(r.rule)
    PROVE  Tells(Append(rs, r), IF r.matched THEN S \cup {r.rule} ELSE S)
<1>1. /\ \A n \in Hits(rs) : rs[n].rule \in S /\ rs[n].effect = EffectOf(rs[n].rule)
      /\ \A k \in S : \E n \in Hits(rs) : rs[n].rule = k
  BY DEF Tells
<1>2. /\ \A n \in Hits(rs) : Append(rs, r)[n] = rs[n]
      /\ Append(rs, r)[Len(rs) + 1] = r
  BY HitsAppend
<1>3. CASE r.matched
  <2>1. Hits(Append(rs, r)) = Hits(rs) \cup {Len(rs) + 1}
    BY <1>3, HitsAppend
  <2>2. ASSUME NEW n \in Hits(Append(rs, r))
        PROVE  /\ Append(rs, r)[n].rule \in S \cup {r.rule}
               /\ Append(rs, r)[n].effect = EffectOf(Append(rs, r)[n].rule)
    <3>1. CASE n \in Hits(rs)
      BY <3>1, <1>1, <1>2
    <3>2. CASE n = Len(rs) + 1
      BY <3>2, <1>2
    <3> QED BY <3>1, <3>2, <2>1
  <2>3. ASSUME NEW k \in S \cup {r.rule}
        PROVE  \E n \in Hits(Append(rs, r)) : Append(rs, r)[n].rule = k
    <3>1. CASE k \in S
      <4>1. PICK n \in Hits(rs) : rs[n].rule = k
        BY <3>1, <1>1
      <4> QED BY <4>1, <1>2, <2>1
    <3>2. CASE k = r.rule
      BY <3>2, <1>2, <2>1
    <3> QED BY <3>1, <3>2
  <2> QED BY <1>3, <2>2, <2>3 DEF Tells
<1>4. CASE ~r.matched
  <2>1. Hits(Append(rs, r)) = Hits(rs)
    BY <1>4, HitsAppend, ZenonT(30)
  <2> QED BY <1>1, <1>2, <1>4, <2>1 DEF Tells
<1> QED BY <1>3, <1>4

-----------------------------------------------------------------------------
(* Firing rules *)

\* What it means to be a firing rule.
LEMMA FiringFacts ==
    ASSUME NEW k \in Firing
    PROVE  /\ k[1] \in 1..Len(policies)
           /\ k[2] \in 1..Len(policies[k[1]].rules)
           /\ k = <<k[1], k[2]>>
           /\ Applies(policies[k[1]])
           /\ IsEnabled(policies[k[1]].rules[k[2]])
           /\ policies[k[1]].rules[k[2]].fires
<1>1. /\ k \in UNION {{i} \X (1..Len(policies[i].rules)) : i \in 1..Len(policies)}
      /\ policies[k[1]].status = "approved"
      /\ matchesScope(envelope, policies[k[1]].scope)
      /\ policies[k[1]].rules[k[2]].enabled # "false"
      /\ policies[k[1]].rules[k[2]].fires
  BY DEF Firing
<1>2. PICK i \in 1..Len(policies) : k \in {i} \X (1..Len(policies[i].rules))
  BY <1>1
<1>3. /\ k[1] = i /\ k[2] \in 1..Len(policies[i].rules) /\ k = <<k[1], k[2]>>
  BY <1>2
<1> QED BY <1>1, <1>2, <1>3 DEF Applies, IsEnabled

\* An enabled rule of a policy that applies fires when its condition holds.
LEMMA FiringIntro ==
    ASSUME NEW i \in 1..Len(policies), NEW j \in 1..Len(policies[i].rules),
           Applies(policies[i]), IsEnabled(policies[i].rules[j]),
           policies[i].rules[j].fires
    PROVE  <<i, j>> \in Firing
<1>1. <<i, j>> \in {i} \X (1..Len(policies[i].rules))
  OBVIOUS
<1>2. <<i, j>> \in UNION {{n} \X (1..Len(policies[n].rules)) : n \in 1..Len(policies)}
  BY <1>1
<1>3. <<i, j>>[1] = i /\ <<i, j>>[2] = j
  OBVIOUS
<1> QED BY <1>2, <1>3 DEF Firing, Applies, IsEnabled

\* A step that leaves the input alone changes nothing that is defined by it.
LEMMA InputFixed ==
    ASSUME UNCHANGED input
    PROVE  /\ Firing' = Firing
           /\ \A k : EffectOf(k)' = EffectOf(k)
           /\ \A k : ShadowRule(k)' = ShadowRule(k)
           /\ \A k : Gating(k)' = Gating(k)
           /\ \A p : Applies(p)' = Applies(p)
           /\ policies' = policies /\ envelope' = envelope /\ mode' = mode
<1>1. policies' = policies /\ envelope' = envelope /\ mode' = mode
  BY DEF input
<1> QED BY <1>1 DEF Firing, EffectOf, ShadowRule, Gating, Applies

\* A step that leaves the input and the accumulators alone and passes no
\* firing rule preserves RuleInv.
LEMMA QuietStep ==
    ASSUME RuleInv, UNCHANGED <<input, allResults, enforcedResults, flags>>,
           PassedFiring' = PassedFiring
    PROVE  RuleInv'
<1>1. /\ allResults' = allResults /\ enforcedResults' = enforcedResults
      /\ rulesTriggered' = rulesTriggered
      /\ shadowEffectMatched' = shadowEffectMatched
      /\ shadowGatingMatched' = shadowGatingMatched
  BY DEF flags
<1>2. UNCHANGED input
  OBVIOUS
<1>3. /\ \A k : EffectOf(k)' = EffectOf(k)
      /\ \A k : ShadowRule(k)' = ShadowRule(k)
      /\ \A k : Gating(k)' = Gating(k)
  BY <1>2, InputFixed
<1>4. {k \in PassedFiring : ~ShadowRule(k)}' = {k \in PassedFiring : ~ShadowRule(k)}
  BY <1>3
<1>5. Tells(allResults, PassedFiring)'
  BY <1>1, <1>3 DEF RuleInv, Tells, Hits
<1>6. Tells(enforcedResults, {k \in PassedFiring : ~ShadowRule(k)})'
  BY <1>1, <1>3, <1>4 DEF RuleInv, Tells, Hits
<1> QED BY <1>1, <1>3, <1>5, <1>6 DEF RuleInv

-----------------------------------------------------------------------------
(* The initial state and the steps *)

\* Before the rule loop nothing is passed.
LEMMA NothingPassed ==
    ASSUME ~Looping
    PROVE  PassedFiring = {}
BY DEF PassedFiring

\* The elements of a sequence over S are in S.
LEMMA ElementOf ==
    ASSUME NEW S, NEW s \in Seq(S), NEW i \in 1..Len(s)
    PROVE  s[i] \in S
OBVIOUS

\* A function on 1..n is a sequence of length n.
LEMMA SequenceOf ==
    ASSUME NEW S, NEW n \in Nat, NEW g \in [1..n -> S]
    PROVE  g \in Seq(S) /\ Len(g) = n
OBVIOUS

\* The rules of every policy in the input are well formed.
LEMMA RuleTypes ==
    ASSUME policies \in Seq(Policy), NEW i \in 1..Len(policies),
           NEW j \in 1..Len(policies[i].rules)
    PROVE  /\ Len(policies[i].rules) \in Nat
           /\ policies[i].rules[j].fires \in BOOLEAN
           /\ policies[i].rules[j].effect \in Effect
<1>1. policies[i] \in Policy
  OBVIOUS
<1>2. policies[i].rules \in Seq(PolicyRule)
  BY <1>1, PolicyAssumption
<1>3. policies[i].rules[j] \in PolicyRule
  BY <1>2, ElementOf
<1>4. Len(policies[i].rules) \in Nat
  BY <1>2
<1> QED BY <1>3, <1>4 DEF PolicyRule

\* EngineInv holds before the first policy is looked at.
LEMMA InitEngine ==
    ASSUME Init
    PROVE  EngineInv
<1>1. policies \in Seq(Policy) /\ Len(policies) <= MaxPolicies
  <2>1. PICK n \in 0..MaxPolicies : policies \in [1..n -> Policy]
    BY DEF Init
  <2>2. Len(policies) = n
    BY <2>1, PolicyAssumption
  <2> QED BY <2>1, <2>2, PolicyAssumption
<1>2. TypeOK
  <2>1. at \in (Nat \ {0}) \X (Nat \ {0})
    BY DEF Init
  <2>2. /\ matched \in Seq(1..Len(policies))
        /\ allResults \in Seq(RuleResult) /\ enforcedResults \in Seq(RuleResult)
    BY DEF Init
  <2>3. /\ pc \in {"match", "sort", "rules", "done"} /\ pc # "done"
        /\ rulesTriggered \in Nat /\ shadowEffectMatched \in BOOLEAN
        /\ shadowGatingMatched \in BOOLEAN /\ result = NoRule
        /\ envelope \in Envelope /\ mode \in CallMode
    BY DEF Init
  <2> QED BY <1>1, <2>1, <2>2, <2>3 DEF TypeOK
<1>3. PassedFiring = {}
  BY NothingPassed DEF Init, Looping
<1>4. \A rs : rs = <<>> => Hits(rs) = {}
  BY DEF Hits
<1>5. Tells(allResults, PassedFiring)
  BY <1>3, <1>4 DEF Init, Tells
<1>6. Tells(enforcedResults, {k \in PassedFiring : ~ShadowRule(k)})
  BY <1>3, <1>4 DEF Init, Tells
<1>7. RuleInv
  BY <1>3, <1>5, <1>6, FS_EmptySet DEF Init, RuleInv
<1>8. MatchInv
  BY DEF Init, MatchInv
<1>9. DoneInv
  BY DEF Init, DoneInv
<1> QED BY <1>2, <1>7, <1>8, <1>9 DEF EngineInv

\* The loop of MatchPolicies keeps matched exact.
LEMMA StepMatchPolicy ==
    ASSUME EngineInv, MatchPolicy
    PROVE  EngineInv'
<1> USE DEF EngineInv
<1> DEFINE i == at[1]
<1>1. /\ UNCHANGED input
      /\ pc = "match" /\ pc' = "match" /\ i \in 1..Len(policies)
      /\ at' = <<i + 1, 1>> /\ at'[1] = i + 1
      /\ result' = result
  BY DEF MatchPolicy, TypeOK
<1>2. /\ policies' = policies /\ envelope' = envelope /\ mode' = mode
      /\ \A p : Applies(p)' = Applies(p)
  BY <1>1, InputFixed
<1>3. UNCHANGED <<input, allResults, enforcedResults, flags>>
  BY DEF MatchPolicy
<1>4. RuleInv'
  <2>1. PassedFiring = {} /\ PassedFiring' = {}
    BY <1>1 DEF PassedFiring, Looping
  <2> QED BY <2>1, <1>3, QuietStep
<1>5. matched \in Seq(1..Len(policies))
  BY DEF TypeOK
<1>6. TypeOK' /\ MatchInv'
  <2>1. CASE Applies(policies[i])
    <3>1. matched' = Append(matched, i)
      BY <2>1 DEF MatchPolicy
    <3>2. /\ Len(matched') = Len(matched) + 1 /\ Len(matched) \in Nat
          /\ \A n \in 1..Len(matched) : matched'[n] = matched[n]
          /\ matched'[Len(matched) + 1] = i
          /\ matched' \in Seq(1..Len(policies))
      BY <3>1, <1>1, <1>5
    <3>3. TypeOK'
      BY <1>1, <1>2, <1>3, <3>2 DEF TypeOK, flags
    <3>a. /\ \A n \in 1..Len(matched) : Applies(policies[matched[n]]) /\ matched[n] < i
          /\ \A n, m \in 1..Len(matched) : matched[n] = matched[m] => n = m
      BY <1>1 DEF MatchInv
    <3>b. \A n \in 1..Len(matched') : n \in 1..Len(matched) \/ n = Len(matched) + 1
      BY <3>2
    <3>c. \A n \in 1..Len(matched) : matched[n] \in Nat
      BY <1>5
    <3>d. i \in Nat
      BY <1>1
    <3>4. ASSUME NEW n \in 1..Len(matched')
          PROVE  Applies(policies[matched'[n]]) /\ matched'[n] < i + 1
      <4>1. CASE n \in 1..Len(matched)
        BY <4>1, <3>2, <3>a, <3>c, <3>d
      <4>2. CASE n = Len(matched) + 1
        BY <4>2, <3>2, <2>1, <3>d
      <4> QED BY <4>1, <4>2, <3>b
    <3>5. ASSUME NEW n \in 1..Len(matched'), NEW m \in 1..Len(matched'),
                 matched'[n] = matched'[m]
          PROVE  n = m
      <4>1. CASE n \in 1..Len(matched) /\ m \in 1..Len(matched)
        BY <4>1, <3>5, <3>2, <3>a
      <4>2. CASE n = Len(matched) + 1 /\ m \in 1..Len(matched)
        BY <4>2, <3>5, <3>2, <3>a, <3>c, <3>d
      <4>3. CASE n \in 1..Len(matched) /\ m = Len(matched) + 1
        BY <4>3, <3>5, <3>2, <3>a, <3>c, <3>d
      <4> QED BY <4>1, <4>2, <4>3, <3>b
    <3>6. ASSUME NEW j \in 1..Len(policies), j < i + 1, Applies(policies[j])
          PROVE  \E n \in 1..Len(matched') : matched'[n] = j
      <4>1. CASE j = i
        BY <4>1, <3>2
      <4>2. CASE j < i
        <5>1. PICK n \in 1..Len(matched) : matched[n] = j
          BY <4>2, <3>6, <1>1 DEF MatchInv, Covered
        <5> QED BY <5>1, <3>2
      <4> QED BY <4>1, <4>2, <3>6, <1>1
    <3>7. MatchInv'
      BY <3>4, <3>5, <3>6, <1>1, <1>2 DEF MatchInv, Covered
    <3> QED BY <3>3, <3>7
  <2>2. CASE ~Applies(policies[i])
    <3>1. matched' = matched
      BY <2>2 DEF MatchPolicy
    <3>2. TypeOK'
      BY <1>1, <1>2, <1>3, <3>1 DEF TypeOK, flags
    <3>3. \A n \in 1..Len(matched) : Applies(policies[matched[n]]) /\ matched[n] < i + 1
      BY <1>1, <1>5 DEF MatchInv
    <3>4. ASSUME NEW j \in 1..Len(policies), j < i + 1, Applies(policies[j])
          PROVE  \E n \in 1..Len(matched) : matched[n] = j
      BY <3>4, <2>2, <1>1 DEF MatchInv, Covered
    <3>5. MatchInv'
      BY <3>1, <3>3, <3>4, <1>1, <1>2 DEF MatchInv, Covered
    <3> QED BY <3>2, <3>5
  <2> QED BY <2>1, <2>2
<1>7. DoneInv'
  BY <1>1 DEF DoneInv
<1> QED BY <1>4, <1>6, <1>7

\* When that loop ends every policy has been looked at.
LEMMA StepMatched ==
    ASSUME EngineInv, Matched
    PROVE  EngineInv'
<1> USE DEF EngineInv
<1>1. /\ UNCHANGED input
      /\ pc = "match" /\ pc' = "sort" /\ at[1] > Len(policies)
      /\ at' = at /\ matched' = matched /\ result' = result
      /\ UNCHANGED <<input, allResults, enforcedResults, flags>>
  BY DEF Matched
<1>2. /\ policies' = policies /\ envelope' = envelope /\ mode' = mode
      /\ \A p : Applies(p)' = Applies(p)
  BY <1>1, InputFixed
<1>3. RuleInv'
  <2>1. PassedFiring = {} /\ PassedFiring' = {}
    BY <1>1 DEF PassedFiring, Looping
  <2> QED BY <2>1, <1>1, QuietStep
<1>4. TypeOK'
  BY <1>1, <1>2 DEF TypeOK, flags
<1>5. \A i \in 1..Len(policies) : i < at[1]
  BY <1>1 DEF TypeOK
<1>6. MatchInv'
  BY <1>1, <1>2, <1>5 DEF MatchInv, Covered
<1>7. DoneInv'
  BY <1>1 DEF DoneInv
<1> QED BY <1>3, <1>4, <1>6, <1>7

\* A map of 1..n onto itself is one-to-one.
LEMMA PermutationInjective ==
    ASSUME NEW n \in Nat, NEW f \in [1..n -> 1..n],
           \A j \in 1..n : \E i \in 1..n : f[i] = j
    PROVE  \A i, j \in 1..n : f[i] = f[j] => i = j
<1>1. f \in Surjection(1..n, 1..n)
  BY DEF Surjection
<1>2. IsFiniteSet(1..n)
  BY FS_Interval
<1>3. f \in Injection(1..n, 1..n)
  BY <1>1, <1>2, FS_SurjSameCardinalityImpliesInj
<1> QED BY <1>3 DEF Injection, IsInjective

\* Sorting permutes matched and passes no rule.
LEMMA StepSort ==
    ASSUME EngineInv, Sort
    PROVE  EngineInv'
<1> USE DEF EngineInv
<1>1. /\ UNCHANGED input
      /\ pc = "sort" /\ pc' = "rules" /\ at' = <<1, 1>> /\ result' = result
      /\ UNCHANGED <<input, allResults, enforcedResults, flags>>
  BY DEF Sort
<1>2. /\ policies' = policies /\ envelope' = envelope /\ mode' = mode
      /\ \A p : Applies(p)' = Applies(p)
      /\ Firing' = Firing
  BY <1>1, InputFixed
<1>3. PICK f \in [1..Len(matched) -> 1..Len(matched)] :
          /\ \A j \in 1..Len(matched) : \E i \in 1..Len(matched) : f[i] = j
          /\ matched' = [i \in 1..Len(matched) |-> matched[f[i]]]
  BY DEF Sort
<1>4. matched \in Seq(1..Len(policies)) /\ Len(matched) \in Nat
  BY DEF TypeOK
<1>5. /\ matched' \in Seq(1..Len(policies)) /\ Len(matched') = Len(matched)
      /\ \A i \in 1..Len(matched) : matched'[i] = matched[f[i]]
  <2>1. \A i \in 1..Len(matched) : matched[f[i]] \in 1..Len(policies)
    BY <1>4
  <2>2. matched' \in [1..Len(matched) -> 1..Len(policies)]
    BY <2>1, <1>3
  <2>3. matched' \in Seq(1..Len(policies)) /\ Len(matched') = Len(matched)
    BY <2>2, <1>4, SequenceOf, ZenonT(30)
  <2>4. \A i \in 1..Len(matched) : matched'[i] = matched[f[i]]
    BY <1>3
  <2> QED BY <2>3, <2>4
<1>6. TypeOK'
  BY <1>1, <1>2, <1>5 DEF TypeOK, flags
<1>7. RuleInv'
  <2>1. PassedFiring = {}
    BY <1>1 DEF PassedFiring, Looping
  <2>2. ASSUME NEW k \in Firing'
        PROVE  ~Passed(k)'
    <3>1. k[2] \in 1..Len(policies[k[1]].rules)
      BY <1>2, FiringFacts
    <3>2. k[2] >= 1 /\ at'[1] = 1 /\ at'[2] = 1
      BY <3>1, <1>1
    <3>3. ASSUME NEW n \in 1..Len(matched')
          PROVE  ~(n < at'[1]) /\ ~(k[2] < at'[2])
      <4>1. n \in Nat /\ n >= 1
        BY <1>4, <1>5
      <4>2. k[2] \in Nat
        BY <3>1
      <4> QED BY <4>1, <4>2, <3>2
    <3> QED BY <3>3 DEF Passed
  <2>3. PassedFiring' = {}
    BY <2>2 DEF PassedFiring
  <2> QED BY <2>1, <2>3, <1>1, QuietStep
<1>8. MatchInv'
  <2>1. \A n \in 1..Len(matched') : Applies(policies[matched'[n]])
    BY <1>3, <1>5 DEF MatchInv
  <2>2. \A i \in 1..Len(policies) : Applies(policies[i]) =>
            \E n \in 1..Len(matched') : matched'[n] = i
    <3>1. SUFFICES ASSUME NEW i \in 1..Len(policies), Applies(policies[i])
                   PROVE  \E n \in 1..Len(matched') : matched'[n] = i
      OBVIOUS
    <3>2. PICK m \in 1..Len(matched) : matched[m] = i
      BY <3>1, <1>1 DEF MatchInv, Covered
    <3>3. PICK n \in 1..Len(matched) : f[n] = m
      BY <1>3
    <3> QED BY <3>2, <3>3, <1>5
  <2>3. \A n, m \in 1..Len(matched') : matched'[n] = matched'[m] => n = m
    <3>1. \A n, m \in 1..Len(matched) : f[n] = f[m] => n = m
      BY <1>3, <1>4, PermutationInjective
    <3>2. \A n, m \in 1..Len(matched) : matched[n] = matched[m] => n = m
      BY DEF MatchInv
    <3>3. ASSUME NEW n \in 1..Len(matched), NEW m \in 1..Len(matched),
                 matched'[n] = matched'[m]
          PROVE  n = m
      <4>1. matched[f[n]] = matched[f[m]]
        BY <3>3, <1>5
      <4>2. f[n] = f[m]
        BY <4>1, <3>2
      <4> QED BY <4>2, <3>1
    <3> QED BY <3>3, <1>5
  <2> QED BY <2>1, <2>2, <2>3, <1>1, <1>2 DEF MatchInv, Covered
<1>9. DoneInv'
  BY <1>1 DEF DoneInv
<1> QED BY <1>6, <1>7, <1>8, <1>9

\* Where the rule loop stands.
LEMMA LoopTypes ==
    ASSUME TypeOK, AtRule
    PROVE  /\ at[1] \in 1..Len(matched) /\ at[2] \in Nat /\ at[2] >= 1
           /\ matched[at[1]] \in 1..Len(policies)
           /\ at[2] \in 1..Len(policies[matched[at[1]]].rules)
           /\ CurrentRule = policies[matched[at[1]]].rules[at[2]]
           /\ CurrentRule.fires \in BOOLEAN /\ CurrentRule.effect \in Effect
<1>1. /\ at[1] \in Nat /\ at[1] >= 1 /\ at[2] \in Nat /\ at[2] >= 1
      /\ matched \in Seq(1..Len(policies)) /\ policies \in Seq(Policy)
  BY DEF TypeOK
<1>2. at[1] \in 1..Len(matched)
  BY <1>1 DEF AtRule
<1>3. matched[at[1]] \in 1..Len(policies)
  BY <1>1, <1>2, ElementOf
<1>4. policies[matched[at[1]]].rules \in Seq(PolicyRule)
  BY <1>1, <1>3, PolicyAssumption
<1>5. at[2] \in 1..Len(policies[matched[at[1]]].rules)
  BY <1>1, <1>4 DEF AtRule, CurrentPolicy
<1>6. /\ policies[matched[at[1]]].rules[at[2]].fires \in BOOLEAN
      /\ policies[matched[at[1]]].rules[at[2]].effect \in Effect
  BY <1>1, <1>3, <1>5, RuleTypes
<1> QED BY <1>1, <1>2, <1>3, <1>5, <1>6 DEF CurrentRule, CurrentPolicy

\* Moving on by one rule passes that rule and no other.
LEMMA PassOne ==
    ASSUME TypeOK, MatchInv, AtRule, UNCHANGED <<input, pc, matched>>,
           at' = <<at[1], at[2] + 1>>
    PROVE  LET cur == <<matched[at[1]], at[2]>>
           IN  /\ cur \notin PassedFiring
               /\ PassedFiring' = PassedFiring \cup (Firing \cap {cur})
<1> DEFINE cur == <<matched[at[1]], at[2]>>
<1>1. /\ at[1] \in 1..Len(matched) /\ at[2] \in Nat /\ Len(matched) \in Nat
      /\ at'[1] = at[1] /\ at'[2] = at[2] + 1 /\ matched' = matched
      /\ pc = "rules" /\ pc' = "rules"
  BY LoopTypes DEF AtRule, TypeOK
<1>2. Firing' = Firing
  BY InputFixed
<1>3. \A n, m \in 1..Len(matched) : matched[n] = matched[m] => n = m
  BY DEF MatchInv
<1>4. ~Passed(cur)
  <2>1. SUFFICES ASSUME NEW n \in 1..Len(matched), matched[n] = matched[at[1]],
                        n < at[1] \/ (n = at[1] /\ at[2] < at[2])
                 PROVE  FALSE
    BY DEF Passed
  <2>2. n = at[1]
    BY <2>1, <1>1, <1>3
  <2> QED BY <2>1, <2>2, <1>1
<1>5. ASSUME NEW k \in Firing
      PROVE  Passed(k)' <=> Passed(k) \/ k = cur
  <2>1. k = <<k[1], k[2]>> /\ k[2] \in Nat
    BY FiringFacts
  <2>2. ASSUME Passed(k)' PROVE Passed(k) \/ k = cur
    <3>1. PICK n \in 1..Len(matched) :
              matched[n] = k[1] /\ (n < at[1] \/ (n = at[1] /\ k[2] < at[2] + 1))
      BY <2>2, <1>1 DEF Passed
    <3>2. CASE n < at[1] \/ (n = at[1] /\ k[2] < at[2])
      BY <3>1, <3>2 DEF Passed
    <3>3. CASE n = at[1] /\ k[2] = at[2]
      BY <3>1, <3>3, <2>1
    <3> QED BY <3>1, <3>2, <3>3, <2>1, <1>1
  <2>3. ASSUME Passed(k) PROVE Passed(k)'
    <3>1. PICK n \in 1..Len(matched) :
              matched[n] = k[1] /\ (n < at[1] \/ (n = at[1] /\ k[2] < at[2]))
      BY <2>3 DEF Passed
    <3>2. n < at'[1] \/ (n = at'[1] /\ k[2] < at'[2])
      BY <3>1, <1>1, <2>1
    <3> QED BY <3>1, <3>2, <1>1 DEF Passed
  <2>4. ASSUME k = cur PROVE Passed(k)'
    <3>1. k[1] = matched[at[1]] /\ k[2] = at[2]
      BY <2>4
    <3>2. at[1] = at'[1] /\ k[2] < at'[2]
      BY <3>1, <1>1
    <3> QED BY <3>1, <3>2, <1>1 DEF Passed
  <2> QED BY <2>2, <2>3, <2>4
<1>6. Looping /\ Looping'
  BY <1>1 DEF Looping
<1>7. cur \notin PassedFiring
  BY <1>4 DEF PassedFiring
<1>8. PassedFiring = {k \in Firing : Passed(k)} /\ PassedFiring' = {k \in Firing : Passed(k)'}
  BY <1>2, <1>6 DEF PassedFiring
<1>9. PassedFiring' = PassedFiring \cup (Firing \cap {cur})
  BY <1>5, <1>8
<1> QED BY <1>7, <1>9

\* The part of the invariant that the rule loop leaves alone.
LEMMA LoopKeepsMatch ==
    ASSUME MatchInv, UNCHANGED <<input, matched>>, pc # "match", pc' # "match"
    PROVE  MatchInv'
<1>1. /\ policies' = policies /\ \A p : Applies(p)' = Applies(p)
  BY InputFixed
<1> QED BY <1>1 DEF MatchInv, Covered

\* A disabled rule is not a firing one.
LEMMA StepSkipRule ==
    ASSUME EngineInv, SkipRule
    PROVE  EngineInv'
<1> USE DEF EngineInv
<1>1. /\ AtRule /\ ~IsEnabled(CurrentRule)
      /\ at' = <<at[1], at[2] + 1>> /\ result' = result
      /\ UNCHANGED <<input, pc, matched>> /\ pc' = pc /\ pc = "rules"
      /\ UNCHANGED <<input, allResults, enforcedResults, flags>>
      /\ matched' = matched
  BY DEF SkipRule, AtRule
<1>2. policies' = policies /\ envelope' = envelope /\ mode' = mode
  BY <1>1, InputFixed
<1>3. <<matched[at[1]], at[2]>> \notin Firing
  <2>1. SUFFICES ASSUME <<matched[at[1]], at[2]>> \in Firing
                 PROVE  FALSE
    OBVIOUS
  <2>2. IsEnabled(policies[matched[at[1]]].rules[at[2]])
    BY <2>1, FiringFacts
  <2> QED BY <2>2, <1>1, LoopTypes
<1>4. PassedFiring' = PassedFiring
  BY <1>1, <1>3, PassOne
<1>5. RuleInv'
  BY <1>1, <1>4, QuietStep
<1>6. at' \in (Nat \ {0}) \X (Nat \ {0})
  BY <1>1 DEF TypeOK
<1>7. TypeOK'
  BY <1>1, <1>2, <1>6 DEF TypeOK, flags
<1>8. MatchInv'
  BY <1>1, LoopKeepsMatch
<1>9. DoneInv'
  BY <1>1 DEF DoneInv
<1> QED BY <1>5, <1>7, <1>8, <1>9

\* A policy is left when all its rules are passed.
LEMMA StepNextPolicy ==
    ASSUME EngineInv, NextPolicy
    PROVE  EngineInv'
<1> USE DEF EngineInv
<1>1. /\ pc = "rules" /\ pc' = pc /\ result' = result /\ matched' = matched
      /\ at[1] <= Len(matched) /\ at[2] > Len(policies[matched[at[1]]].rules)
      /\ at' = <<at[1] + 1, 1>>
      /\ UNCHANGED <<input, matched>>
      /\ UNCHANGED <<input, allResults, enforcedResults, flags>>
  BY DEF NextPolicy, CurrentPolicy
<1>2. /\ policies' = policies /\ envelope' = envelope /\ mode' = mode
      /\ Firing' = Firing
  BY <1>1, InputFixed
<1>3. /\ at[1] \in Nat /\ at[2] \in Nat /\ at[1] >= 1 /\ Len(matched) \in Nat
      /\ at'[1] = at[1] + 1 /\ at'[2] = 1
  BY <1>1 DEF TypeOK
<1>4. ASSUME NEW k \in Firing
      PROVE  Passed(k)' <=> Passed(k)
  <2>1. k[2] \in 1..Len(policies[k[1]].rules) /\ k[1] \in 1..Len(policies)
    BY FiringFacts
  <2>2. Len(policies[k[1]].rules) \in Nat
    BY <2>1, RuleTypes DEF TypeOK
  <2>3. ASSUME Passed(k)' PROVE Passed(k)
    <3>1. PICK n \in 1..Len(matched) :
              matched[n] = k[1] /\ (n < at[1] + 1 \/ (n = at[1] + 1 /\ k[2] < 1))
      BY <2>3, <1>1, <1>3 DEF Passed
    <3>2. n < at[1] \/ n = at[1]
      BY <3>1, <2>1, <2>2, <1>3
    <3>3. n = at[1] => k[2] < at[2]
      BY <3>1, <2>1, <2>2, <1>1, <1>3, SMTT(30)
    <3> QED BY <3>1, <3>2, <3>3 DEF Passed
  <2>4. ASSUME Passed(k) PROVE Passed(k)'
    <3>1. PICK n \in 1..Len(matched) : matched[n] = k[1] /\ (n < at[1] \/ n = at[1])
      BY <2>4 DEF Passed
    <3>2. n < at'[1]
      BY <3>1, <1>3
    <3> QED BY <3>1, <3>2, <1>1 DEF Passed
  <2> QED BY <2>3, <2>4
<1>5. PassedFiring' = PassedFiring
  BY <1>1, <1>2, <1>4 DEF PassedFiring, Looping
<1>6. RuleInv'
  BY <1>1, <1>5, QuietStep
<1>7. at' \in (Nat \ {0}) \X (Nat \ {0})
  BY <1>1, <1>3
<1>8. TypeOK'
  BY <1>1, <1>2, <1>7 DEF TypeOK, flags
<1>9. MatchInv'
  BY <1>1, LoopKeepsMatch
<1>10. DoneInv'
  BY <1>1 DEF DoneInv
<1> QED BY <1>6, <1>8, <1>9, <1>10

\* One evaluated rule enters the accumulators it belongs in.
LEMMA StepEvalRule ==
    ASSUME EngineInv, EvalRule
    PROVE  EngineInv'
<1> USE DEF EngineInv
<1> DEFINE cur == <<matched[at[1]], at[2]>>
           r == evaluateRule(CurrentRule, cur)
           shadow == ~Enforced(CurrentPolicy)
<1>1. /\ AtRule /\ IsEnabled(CurrentRule)
      /\ at' = <<at[1], at[2] + 1>> /\ result' = result
      /\ UNCHANGED <<input, pc, matched>> /\ pc' = pc /\ pc = "rules"
      /\ UNCHANGED input /\ matched' = matched
      /\ allResults' = Append(allResults, r)
      /\ rulesTriggered' = rulesTriggered + IF r.matched THEN 1 ELSE 0
      /\ enforcedResults' = IF r.matched /\ ~shadow THEN Append(enforcedResults, r)
                            ELSE enforcedResults
      /\ shadowEffectMatched' = (shadowEffectMatched \/ (r.matched /\ shadow))
      /\ shadowGatingMatched' =
            (shadowGatingMatched
               \/ (r.matched /\ shadow /\ r.effect \in {"deny", "escalate"}))
  BY DEF EvalRule, AtRule
<1>2. /\ policies' = policies /\ envelope' = envelope /\ mode' = mode
      /\ \A k : EffectOf(k)' = EffectOf(k)
      /\ \A k : ShadowRule(k)' = ShadowRule(k)
      /\ \A k : Gating(k)' = Gating(k)
  BY <1>1, InputFixed
<1>3. /\ at[1] \in 1..Len(matched) /\ at[2] \in Nat
      /\ matched[at[1]] \in 1..Len(policies)
      /\ at[2] \in 1..Len(policies[matched[at[1]]].rules)
      /\ CurrentRule = policies[matched[at[1]]].rules[at[2]]
      /\ CurrentRule.fires \in BOOLEAN /\ CurrentRule.effect \in Effect
  BY <1>1, LoopTypes
<1>4. /\ r.rule = cur /\ r.matched = CurrentRule.fires /\ r.effect = CurrentRule.effect
      /\ cur[1] = matched[at[1]] /\ cur[2] = at[2]
  BY DEF evaluateRule
<1>5. /\ r.effect = EffectOf(cur)
      /\ shadow <=> ShadowRule(cur)
      /\ r.matched \in BOOLEAN
  BY <1>3, <1>4 DEF EffectOf, ShadowRule, Enforced, CurrentPolicy
<1>6. r \in RuleResult
  <2>1. matched[at[1]] \in 1..MaxPolicies
    BY <1>3, PolicyAssumption DEF TypeOK
  <2>2. cur \in Rule
    BY <2>1, <1>3 DEF Rule
  <2> QED BY <2>2, <1>3 DEF evaluateRule, RuleResult
<1>7. r.matched <=> cur \in Firing
  <2>1. ASSUME r.matched PROVE cur \in Firing
    <3>1. Applies(policies[matched[at[1]]])
      BY <1>3 DEF MatchInv
    <3> QED BY <2>1, <3>1, <1>1, <1>3, <1>4, FiringIntro
  <2>2. ASSUME cur \in Firing PROVE r.matched
    <3>1. policies[cur[1]].rules[cur[2]].fires
      BY <2>2, FiringFacts
    <3> QED BY <3>1, <1>3, <1>4
  <2> QED BY <2>1, <2>2
<1>8. /\ cur \notin PassedFiring
      /\ PassedFiring' = PassedFiring \cup (Firing \cap {cur})
  BY <1>1, PassOne
<1>9. PassedFiring' = IF r.matched THEN PassedFiring \cup {cur} ELSE PassedFiring
  BY <1>7, <1>8
<1>10. /\ allResults \in Seq(RuleResult) /\ enforcedResults \in Seq(RuleResult)
       /\ rulesTriggered \in Nat
  BY DEF TypeOK
<1>11. Tells(allResults, PassedFiring)'
  <2>1. Tells(Append(allResults, r),
              IF r.matched THEN PassedFiring \cup {r.rule} ELSE PassedFiring)
    BY <1>4, <1>5, <1>6, <1>10, TellsAppend DEF RuleInv
  <2>2. Tells(allResults', PassedFiring')
    BY <2>1, <1>1, <1>4, <1>9
  <2> QED BY <2>2, <1>2 DEF Tells, Hits
<1>12. Tells(enforcedResults, {k \in PassedFiring : ~ShadowRule(k)})'
  <2> DEFINE E == {k \in PassedFiring : ~ShadowRule(k)}
             E1 == {k \in PassedFiring' : ~ShadowRule(k)}
  <2>1. {k \in PassedFiring : ~ShadowRule(k)}' = E1
    BY <1>2
  <2>2. Tells(enforcedResults, E)
    BY DEF RuleInv
  <2>3. Tells(enforcedResults', E1)
    <3>1. CASE r.matched /\ ~shadow
      <4>1. E1 = E \cup {cur}
        BY <3>1, <1>5, <1>9
      <4>2. Tells(Append(enforcedResults, r), IF r.matched THEN E \cup {r.rule} ELSE E)
        BY <2>2, <1>4, <1>5, <1>6, <1>10, TellsAppend
      <4>3. Tells(Append(enforcedResults, r), E \cup {cur})
        BY <4>2, <3>1, <1>4
      <4> QED BY <4>1, <4>3, <3>1, <1>1
    <3>2. CASE ~(r.matched /\ ~shadow)
      <4>1. E1 = E
        BY <3>2, <1>5, <1>9
      <4>2. enforcedResults' = enforcedResults
        BY <3>2, <1>1
      <4> QED BY <4>1, <4>2, <2>2
    <3> QED BY <3>1, <3>2
  <2> QED BY <2>1, <2>3, <1>2 DEF Tells, Hits
<1>13. shadowEffectMatched' = (\E k \in PassedFiring : ShadowRule(k))'
  BY <1>1, <1>2, <1>5, <1>9 DEF RuleInv
<1>14. shadowGatingMatched' = (\E k \in PassedFiring : Gating(k))'
  <2>1. Gating(cur) <=> shadow /\ r.effect \in {"deny", "escalate"}
    BY <1>5 DEF Gating
  <2> QED BY <2>1, <1>1, <1>2, <1>9 DEF RuleInv
<1>15. (IsFiniteSet(PassedFiring) /\ rulesTriggered = Cardinality(PassedFiring))'
  <2>1. CASE r.matched
    <3>1. /\ IsFiniteSet(PassedFiring \cup {cur})
          /\ Cardinality(PassedFiring \cup {cur}) = Cardinality(PassedFiring) + 1
      BY <1>8, FS_AddElement DEF RuleInv
    <3> QED BY <2>1, <3>1, <1>1, <1>9 DEF RuleInv
  <2>2. CASE ~r.matched
    <3>1. rulesTriggered' = rulesTriggered
      BY <2>2, <1>1, <1>10
    <3> QED BY <2>2, <3>1, <1>9 DEF RuleInv
  <2> QED BY <2>1, <2>2
<1>16. RuleInv'
  BY <1>11, <1>12, <1>13, <1>14, <1>15 DEF RuleInv
<1>17. TypeOK'
  <2>1. at' \in (Nat \ {0}) \X (Nat \ {0})
    BY <1>1 DEF TypeOK
  <2>2. allResults' \in Seq(RuleResult) /\ enforcedResults' \in Seq(RuleResult)
    BY <1>1, <1>6, <1>10
  <2>3. rulesTriggered' \in Nat
    BY <1>1, <1>10
  <2>4. shadowEffectMatched' \in BOOLEAN /\ shadowGatingMatched' \in BOOLEAN
    BY <1>1
  <2> QED BY <2>1, <2>2, <2>3, <2>4, <1>1, <1>2 DEF TypeOK
<1>18. MatchInv'
  BY <1>1, LoopKeepsMatch
<1>19. DoneInv'
  BY <1>1 DEF DoneInv
<1> QED BY <1>16, <1>17, <1>18, <1>19

\* Resolving records what the accumulators say.
LEMMA StepResolve ==
    ASSUME EngineInv, Resolve
    PROVE  EngineInv'
<1> USE DEF EngineInv
<1>1. /\ pc = "rules" /\ pc' = "done" /\ at[1] > Len(matched)
      /\ UNCHANGED <<input, matched>> /\ at' = at /\ matched' = matched
      /\ UNCHANGED <<input, allResults, enforcedResults, flags>>
      /\ allResults' = allResults /\ enforcedResults' = enforcedResults
  BY DEF Resolve
<1>2. /\ result'.decision = decision /\ result'.actionTaken = actionTaken
      /\ result'.effectiveMode = effectiveMode
      /\ result'.rulesTriggered = rulesTriggered
      /\ result'.isNearMiss = shadowGatingMatched
      /\ result'.primaryCitation = FindPrimaryCitation(allResults)
      /\ result'.appliedPrimaryCitation = FindPrimaryCitation(appliedResults)
      /\ decision # "allowed" =>
            result'.suggestedResponse = findPolicySuggestedResponse(guidanceResults)
  BY DEF Resolve
<1>3. /\ policies' = policies /\ envelope' = envelope /\ mode' = mode
      /\ Firing' = Firing
  BY <1>1, InputFixed
<1>4. PassedFiring' = PassedFiring
  BY <1>1, <1>3 DEF PassedFiring, Looping, Passed
<1>5. RuleInv'
  BY <1>1, <1>4, QuietStep
<1>6. MatchInv'
  BY <1>1, LoopKeepsMatch
<1>7. /\ rulesTriggered' = rulesTriggered /\ shadowGatingMatched' = shadowGatingMatched
      /\ shadowEffectMatched' = shadowEffectMatched
  BY <1>1 DEF flags
<1>8. decision' = decision /\ enforcedDecision' = enforcedDecision
  BY <1>1 DEF decision, enforcedDecision
<1>9. actionTaken' = actionTaken
  BY <1>3, <1>7, <1>8 DEF actionTaken, actionDecision, effectiveMode
<1>9a. appliedResults' = appliedResults /\ guidanceResults' = guidanceResults
  BY <1>1, <1>8, <1>9 DEF appliedResults, guidanceResults
<1>10. DoneInv'
  BY <1>1, <1>2, <1>7, <1>8, <1>9, <1>9a DEF DoneInv
<1>11. decision \in Decision /\ enforcedDecision \in Decision
  BY DEF decision, enforcedDecision, ResolveDecision, DecisionOf, Decision
<1>12. actionTaken \in Decision \cup {"allowed_shadow"}
  BY <1>11 DEF actionTaken, actionDecision, ResolveActionTaken
<1>13. effectiveMode \in {"shadow", "enforcement"}
  BY DEF effectiveMode
<1>14. TypeOK'
  BY <1>1, <1>2, <1>3, <1>7, <1>11, <1>12, <1>13 DEF TypeOK
<1> QED BY <1>5, <1>6, <1>10, <1>14

\* A stuttering step changes nothing.
LEMMA StutterEngine ==
    ASSUME EngineInv, UNCHANGED vars
    PROVE  EngineInv'
<1> USE DEF EngineInv
<1>1. /\ UNCHANGED <<input, allResults, enforcedResults, flags>>
      /\ pc' = pc /\ at' = at /\ matched' = matched /\ result' = result
      /\ allResults' = allResults /\ enforcedResults' = enforcedResults
      /\ rulesTriggered' = rulesTriggered /\ shadowGatingMatched' = shadowGatingMatched
      /\ shadowEffectMatched' = shadowEffectMatched
  BY DEF vars, flags
<1>2. /\ policies' = policies /\ envelope' = envelope /\ mode' = mode
      /\ Firing' = Firing
      /\ \A p : Applies(p)' = Applies(p)
  BY <1>1, InputFixed
<1>3. PassedFiring' = PassedFiring
  BY <1>1, <1>2 DEF PassedFiring, Looping, Passed
<1>4. RuleInv'
  BY <1>1, <1>3, QuietStep
<1>5. MatchInv'
  BY <1>1, <1>2 DEF MatchInv, Covered
<1>6. decision' = decision /\ enforcedDecision' = enforcedDecision
  BY <1>1 DEF decision, enforcedDecision
<1>7. actionTaken' = actionTaken
  BY <1>1, <1>2, <1>6 DEF actionTaken, actionDecision, effectiveMode
<1>7a. appliedResults' = appliedResults /\ guidanceResults' = guidanceResults
  BY <1>1, <1>6, <1>7 DEF appliedResults, guidanceResults
<1>8. DoneInv'
  BY <1>1, <1>6, <1>7, <1>7a DEF DoneInv
<1>9. TypeOK'
  BY <1>1, <1>2 DEF TypeOK
<1> QED BY <1>4, <1>5, <1>8, <1>9

-----------------------------------------------------------------------------
(* Theorems *)

\* The accumulators of Evaluate agree with the rules passed, in every state of
\* every evaluation.
THEOREM EngineInvariant == Spec => []EngineInv
<1>1. Init => EngineInv
  BY InitEngine
<1>2. EngineInv /\ [Next]_vars => EngineInv'
  <2> SUFFICES ASSUME EngineInv, [Next]_vars PROVE EngineInv'
    OBVIOUS
  <2>1. CASE MatchPolicy BY <2>1, StepMatchPolicy
  <2>2. CASE Matched BY <2>2, StepMatched
  <2>3. CASE Sort BY <2>3, StepSort
  <2>4. CASE SkipRule BY <2>4, StepSkipRule
  <2>5. CASE EvalRule BY <2>5, StepEvalRule
  <2>6. CASE NextPolicy BY <2>6, StepNextPolicy
  <2>7. CASE Resolve BY <2>7, StepResolve
  <2>8. CASE UNCHANGED vars BY <2>8, StutterEngine
  <2> QED BY <2>1, <2>2, <2>3, <2>4, <2>5, <2>6, <2>7, <2>8 DEF Next
<1> QED BY <1>1, <1>2, PTL DEF Spec

\* The locals and the result of Evaluate keep their types.
THEOREM EngineTypeCorrect == Spec => []TypeOK
<1>1. EngineInv => TypeOK
  BY DEF EngineInv
<1> QED BY <1>1, EngineInvariant, PTL

\* When the evaluation is done every firing rule has been passed.
LEMMA AllPassed ==
    ASSUME EngineInv, Done
    PROVE  PassedFiring = Firing
<1> USE DEF EngineInv
<1>1. pc = "done" /\ at[1] > Len(matched)
  BY DEF Done, DoneInv
<1>2. ASSUME NEW k \in Firing
      PROVE  Passed(k)
  <2>1. k[1] \in 1..Len(policies) /\ Applies(policies[k[1]])
    BY FiringFacts
  <2>2. PICK n \in 1..Len(matched) : matched[n] = k[1]
    BY <2>1, <1>1 DEF MatchInv, Covered
  <2>3. n < at[1]
    BY <1>1 DEF TypeOK
  <2> QED BY <2>2, <2>3 DEF Passed
<1> QED BY <1>1, <1>2 DEF PassedFiring, Looping

\* What the two resolutions of Evaluate compute.
LEMMA Resolved ==
    ASSUME EngineInv, Done
    PROVE  /\ decision = DecisionOf(Worst(Firing))
           /\ enforcedDecision = DecisionOf(Worst(EnforcedFiring))
<1>1. PassedFiring = Firing
  BY AllPassed
<1>2. {k \in PassedFiring : ~ShadowRule(k)} = EnforcedFiring
  BY <1>1 DEF EnforcedFiring
<1>3. Tells(allResults, Firing) /\ Tells(enforcedResults, EnforcedFiring)
  BY <1>1, <1>2 DEF EngineInv, RuleInv
<1>4. {EffectSeverity(allResults[n].effect) : n \in Hits(allResults)}
         = {EffectSeverity(EffectOf(k)) : k \in Firing}
  BY <1>3, WorstOfTold
<1>5. {EffectSeverity(enforcedResults[n].effect) : n \in Hits(enforcedResults)}
         = {EffectSeverity(EffectOf(k)) : k \in EnforcedFiring}
  BY <1>3, WorstOfTold
<1> QED BY <1>4, <1>5 DEF decision, enforcedDecision, ResolveDecision, Worst

\* The severities of a set of firing rules, and their maximum.
LEMMA WorstFacts ==
    ASSUME TypeOK, NEW S, S \subseteq Firing
    PROVE  /\ Worst(S) \in 0..4
           /\ \A k \in S : EffectSeverity(EffectOf(k)) \in 1..4
                           /\ EffectSeverity(EffectOf(k)) <= Worst(S)
           /\ Worst(S) > 0 => \E k \in S : EffectSeverity(EffectOf(k)) = Worst(S)
<1> DEFINE T == {EffectSeverity(EffectOf(k)) : k \in S}
<1>1. \A k \in S : EffectSeverity(EffectOf(k)) \in 1..4
  <2>1. SUFFICES ASSUME NEW k \in S PROVE EffectSeverity(EffectOf(k)) \in 1..4
    OBVIOUS
  <2>2. k[1] \in 1..Len(policies) /\ k[2] \in 1..Len(policies[k[1]].rules)
    BY FiringFacts
  <2>3. EffectOf(k) \in Effect
    BY <2>2, RuleTypes DEF TypeOK, EffectOf
  <2> QED BY <2>3, SeverityRange
<1>2. T \subseteq 1..4
  BY <1>1
<1>3. Worst(S) = MaxSeverity(T)
  BY DEF Worst
<1>4. CASE S = {}
  <2>1. Worst(S) = 0
    BY <1>4, <1>3 DEF MaxSeverity
  <2> QED BY <2>1, <1>4
<1>5. CASE S # {}
  <2>1. T # {}
    BY <1>5
  <2>2. MaxSeverity(T) \in T /\ \A t \in T : t <= MaxSeverity(T)
    BY <1>2, <2>1, MaxSeverityIsMax
  <2> QED BY <1>1, <1>2, <1>3, <2>2
<1> QED BY <1>4, <1>5

\* An enforcement policy is never weakened, for any policies, any order of them
\* and any call-site mode.
THEOREM EnforcementAlwaysApplies == Spec => []EnforcementApplies
<1>1. EngineInv => EnforcementApplies
  <2> SUFFICES ASSUME EngineInv, Done, Worst(EnforcedFiring) >= 2
               PROVE  ActionSeverity(result.actionTaken) = Worst(EnforcedFiring)
    BY DEF EnforcementApplies
  <2>1. enforcedDecision = DecisionOf(Worst(EnforcedFiring))
    BY Resolved
  <2>2. Worst(EnforcedFiring) \in 2..4
    BY WorstFacts DEF EngineInv, EnforcedFiring
  <2>3. enforcedDecision # "allowed"
        /\ ActionSeverity(enforcedDecision) = Worst(EnforcedFiring)
    BY <2>1, <2>2 DEF DecisionOf, ActionSeverity
  <2>4. actionTaken = enforcedDecision
    BY <2>3 DEF actionTaken, actionDecision, effectiveMode, ResolveActionTaken
  <2>5. result.actionTaken = actionTaken
    BY DEF EngineInv, DoneInv, Done
  <2> QED BY <2>3, <2>4, <2>5
<1> QED BY <1>1, EngineInvariant, PTL

\* A shadow policy only observes, for any policies, any order of them and both
\* known call-site modes.
THEOREM ShadowNeverGates == Spec => []ShadowOnlyObserves
<1>1. EngineInv => ShadowOnlyObserves
  <2> SUFFICES ASSUME EngineInv, Done, mode # "unknown",
                      result.actionTaken \in {"denied", "escalated"}
               PROVE  \E k \in EnforcedFiring :
                         EffectSeverity(EffectOf(k)) = ActionSeverity(result.actionTaken)
    BY DEF ShadowOnlyObserves
  <2>1. /\ decision = DecisionOf(Worst(Firing))
        /\ enforcedDecision = DecisionOf(Worst(EnforcedFiring))
    BY Resolved
  <2>2. TypeOK /\ EnforcedFiring \subseteq Firing
    BY DEF EngineInv, EnforcedFiring
  <2>3. result.actionTaken = actionTaken
    BY DEF EngineInv, DoneInv, Done
  <2>4. CASE enforcedDecision # "allowed"
    <3>1. actionTaken = enforcedDecision
      BY <2>4 DEF actionTaken, actionDecision, effectiveMode, ResolveActionTaken
    <3>2. Worst(EnforcedFiring) \in 2..4
      BY <2>1, <2>2, <2>4, WorstFacts DEF DecisionOf
    <3>3. ActionSeverity(result.actionTaken) = Worst(EnforcedFiring)
      BY <3>1, <3>2, <2>1, <2>3 DEF DecisionOf, ActionSeverity
    <3>4. Worst(EnforcedFiring) > 0 =>
             \E k \in EnforcedFiring : EffectSeverity(EffectOf(k)) = Worst(EnforcedFiring)
      BY <2>2, WorstFacts
    <3> QED BY <3>2, <3>3, <3>4
  <2>5. CASE enforcedDecision = "allowed"
    <3>1. actionTaken = ResolveActionTaken(decision, effectiveMode)
      BY <2>5 DEF actionTaken, actionDecision
    <3>2. effectiveMode # "shadow" /\ decision \in {"denied", "escalated"}
      BY <3>1, <2>3 DEF ResolveActionTaken
    <3>3. ~shadowEffectMatched
      BY <3>2, <2>2, <2>5 DEF effectiveMode, TypeOK, CallMode
    <3>4. \A k \in Firing : ~ShadowRule(k)
      BY <3>3, AllPassed DEF EngineInv, RuleInv
    <3>5. EnforcedFiring = Firing
      BY <3>4 DEF EnforcedFiring
    <3> QED BY <3>2, <3>5, <2>1, <2>5
  <2> QED BY <2>4, <2>5
<1> QED BY <1>1, EngineInvariant, PTL

\* The enforcement policies alone decide what happens to a call.
THEOREM EnforcementPoliciesDecide == Spec => []EnforcementDecides
<1>1. EnforcementApplies /\ ShadowOnlyObserves => EnforcementDecides
  BY DEF EnforcementDecides
<1> QED BY <1>1, EnforcementAlwaysApplies, ShadowNeverGates, PTL

\* Decision, count and near-miss flag depend on the set of firing rules only,
\* for any policies, any order of them and any call-site mode.
THEOREM OrderNeverMatters == Spec => []OrderIndependent
<1>1. EngineInv => OrderIndependent
  <2> SUFFICES ASSUME EngineInv, Done
               PROVE  /\ result.decision = DecisionOf(Worst(Firing))
                      /\ result.rulesTriggered = Cardinality(Firing)
                      /\ result.isNearMiss =
                            (\E k \in Firing : ShadowRule(k)
                                               /\ EffectOf(k) \in {"deny", "escalate"})
    BY DEF OrderIndependent
  <2>1. /\ result.decision = decision
        /\ result.rulesTriggered = rulesTriggered
        /\ result.isNearMiss = shadowGatingMatched
    BY DEF EngineInv, DoneInv, Done
  <2>2. PassedFiring = Firing
    BY AllPassed
  <2>3. rulesTriggered = Cardinality(Firing)
    BY <2>2 DEF EngineInv, RuleInv
  <2>4. shadowGatingMatched = (\E k \in Firing : Gating(k))
    BY <2>2 DEF EngineInv, RuleInv
  <2> QED BY <2>1, <2>3, <2>4, Resolved DEF Gating
<1> QED BY <1>1, EngineInvariant, PTL

-----------------------------------------------------------------------------
(* The explanation of an action *)

\* The least element of a set of numbers: proofs about the loop go by its
\* least counterexample.
LEMMA LeastNumber ==
    ASSUME NEW T, T \subseteq Nat, T # {}
    PROVE  \E m \in T : \A k \in T : m <= k
<1> DEFINE R == {ss \in Nat \X Nat : ss[1] < ss[2]}
<1>1. IsWellFoundedOn(R, Nat)
  BY NatLessThanWellFounded DEF OpToRel
<1>2. \A x, y \in Nat : x < y => <<x, y>> \in R
  OBVIOUS
<1> HIDE DEF R
<1>3. PICK x \in T : \A y \in T : ~ (<<y, x>> \in R)
  BY <1>1, WFMin
<1>4. \A y \in T : ~(y < x)
  BY <1>2, <1>3
<1>5. \A y \in T : x <= y
  BY <1>4
<1> QED BY <1>5

\* matched, in matchedRuleResults, after each turn of its loop.
Turns(g, rs, n) ==
    g = [i \in 0..n |-> IF i = 0 THEN <<>>
                        ELSE IF rs[i].matched THEN Append(g[i - 1], rs[i])
                        ELSE g[i - 1]]

\* The loop of matchedRuleResults computes matched turn by turn.
LEMMA LoopRuns ==
    ASSUME NEW rs, NEW n \in Nat
    PROVE  \E g : Turns(g, rs, n)
<1> DEFINE T == {m \in Nat : ~ \E g : Turns(g, rs, m)}
<1> SUFFICES ASSUME T # {} PROVE FALSE
  OBVIOUS
<1>1. PICK m \in T : \A k \in T : m <= k
  BY LeastNumber
<1>2. m \in Nat /\ ~ \E g : Turns(g, rs, m)
  OBVIOUS
<1>3. CASE m = 0
  <2> DEFINE h == [i \in 0..m |-> <<>>]
  <2>1. Turns(h, rs, m)
    BY <1>3 DEF Turns
  <2> QED BY <1>2, <2>1
<1>4. CASE m > 0
  <2>1. m - 1 \in Nat /\ ~(m <= m - 1)
    BY <1>2, <1>4
  <2>2. PICK g : Turns(g, rs, m - 1)
    BY <1>1, <2>1
  <2> DEFINE h == [i \in 0..m |-> IF i = m THEN IF rs[m].matched THEN Append(g[m - 1], rs[m])
                                             ELSE g[m - 1]
                                  ELSE g[i]]
  <2>3. ASSUME NEW i \in 0..m
        PROVE  h[i] = IF i = 0 THEN <<>>
                      ELSE IF rs[i].matched THEN Append(h[i - 1], rs[i])
                      ELSE h[i - 1]
    <3>1. CASE i = m
      <4>1. h[m - 1] = g[m - 1]
        BY <1>2, <1>4
      <4> QED BY <4>1, <3>1, <1>4
    <3>2. CASE i # m
      <4>1. /\ i \in 0..(m - 1) /\ h[i] = g[i]
            /\ i # 0 => i - 1 \in 0..m /\ i - 1 # m /\ h[i - 1] = g[i - 1]
        BY <3>2, <1>2
      <4>2. g[i] = IF i = 0 THEN <<>>
                   ELSE IF rs[i].matched THEN Append(g[i - 1], rs[i])
                   ELSE g[i - 1]
        BY <2>2, <4>1 DEF Turns
      <4> QED BY <4>1, <4>2
    <3> QED BY <3>1, <3>2
  <2>4. Turns(h, rs, m)
    BY <2>3 DEF Turns
  <2> QED BY <1>2, <2>4
<1> QED BY <1>2, <1>3, <1>4

\* matchedRuleResults returns the results that matched, and no others.
LEMMA MatchedOnly ==
    ASSUME NEW rs \in Seq(RuleResult)
    PROVE  LET ms == matchedRuleResults(rs)
           IN /\ ms \in Seq(RuleResult)
              /\ \A j \in 1..Len(ms) : \E i \in Hits(rs) : ms[j] = rs[i]
              /\ \A i \in Hits(rs) : \E j \in 1..Len(ms) : ms[j] = rs[i]
<1> DEFINE Good(s, m) ==
             /\ s \in Seq(RuleResult)
             /\ \A j \in 1..Len(s) : \E i \in Hits(rs) : s[j] = rs[i]
             /\ \A i \in Hits(rs) : i <= m => \E j \in 1..Len(s) : s[j] = rs[i]
<1>1. Len(rs) \in Nat /\ \A i \in 1..Len(rs) : rs[i] \in RuleResult
  BY ElementOfSeq
<1> DEFINE g == CHOOSE g : Turns(g, rs, Len(rs))
<1>2. Turns(g, rs, Len(rs)) /\ matchedRuleResults(rs) = g[Len(rs)]
  <2>1. \E f : Turns(f, rs, Len(rs))
    BY <1>1, LoopRuns
  <2>2. Turns(g, rs, Len(rs))
    BY <2>1
  <2>3. matchedRuleResults(rs) = g[Len(rs)]
    BY Zenon DEF matchedRuleResults, Turns
  <2> QED BY <2>2, <2>3
<1> HIDE DEF g
<1> DEFINE T == {m \in 0..Len(rs) : ~Good(g[m], m)}
<1>a. \A i \in Hits(rs) : i \in 1..Len(rs) /\ i <= Len(rs)
  BY <1>1 DEF Hits
<1> SUFFICES ASSUME T # {} PROVE FALSE
  <2>1. ASSUME T = {} PROVE Good(g[Len(rs)], Len(rs))
    BY <1>1, <2>1
  <2> QED BY <1>2, <1>a, <2>1
<1>3. T \subseteq Nat
  BY <1>1
<1>4. PICK m \in T : \A k \in T : m <= k
  BY <1>3, LeastNumber
<1>5. m \in 0..Len(rs) /\ m \in Nat /\ ~Good(g[m], m)
  BY <1>3
<1>6. g[m] = IF m = 0 THEN <<>>
             ELSE IF rs[m].matched THEN Append(g[m - 1], rs[m])
             ELSE g[m - 1]
  BY <1>2, <1>5 DEF Turns
<1>7. CASE m = 0
  <2>1. g[m] = <<>>
    BY <1>6, <1>7
  <2>2. Good(<<>>, m)
    BY <1>7 DEF Hits
  <2> QED BY <1>5, <2>1, <2>2
<1>8. CASE m # 0
  <2>1. m - 1 \in 0..Len(rs) /\ ~(m <= m - 1) /\ m \in 1..Len(rs)
    BY <1>1, <1>5, <1>8
  <2>2. Good(g[m - 1], m - 1)
    BY <1>4, <2>1
  <2> DEFINE s == g[m - 1]
  <2>3. /\ s \in Seq(RuleResult)
        /\ \A j \in 1..Len(s) : \E i \in Hits(rs) : s[j] = rs[i]
        /\ \A i \in Hits(rs) : i <= m - 1 => \E j \in 1..Len(s) : s[j] = rs[i]
    BY <2>2
  <2> HIDE DEF s
  <2>4. \A i \in Hits(rs) : i <= m => i <= m - 1 \/ i = m
    BY <1>5 DEF Hits
  <2>5. CASE rs[m].matched
    <3>1. m \in Hits(rs)
      BY <2>1, <2>5 DEF Hits
    <3> DEFINE q == Append(s, rs[m])
    <3>2. /\ q \in Seq(RuleResult) /\ Len(q) = Len(s) + 1 /\ Len(s) \in Nat
          /\ q[Len(s) + 1] = rs[m] /\ \A j \in 1..Len(s) : q[j] = s[j]
      BY <1>1, <2>1, <2>3, AppendProperties
    <3>3. g[m] = q
      BY <1>6, <1>8, <2>5 DEF s
    <3> HIDE DEF q
    <3>4. \A j \in 1..Len(q) : j \in 1..Len(s) \/ j = Len(s) + 1
      BY <3>2
    <3>4a. \A j \in 1..Len(s) : j \in 1..Len(q)
      BY <3>2
    <3>4b. Len(s) + 1 \in 1..Len(q)
      BY <3>2
    <3>5. \A j \in 1..Len(q) : \E i \in Hits(rs) : q[j] = rs[i]
      <4> SUFFICES ASSUME NEW j \in 1..Len(q) PROVE \E i \in Hits(rs) : q[j] = rs[i]
        OBVIOUS
      <4>1. CASE j \in 1..Len(s)
        BY <2>3, <3>2, <4>1
      <4>2. CASE j = Len(s) + 1
        BY <3>1, <3>2, <4>2
      <4> QED BY <3>4, <4>1, <4>2
    <3>6. \A i \in Hits(rs) : i <= m => \E j \in 1..Len(q) : q[j] = rs[i]
      BY <2>3, <2>4, <3>2, <3>4a, <3>4b
    <3> QED BY <1>5, <3>2, <3>3, <3>5, <3>6
  <2>6. CASE ~rs[m].matched
    <3>1. m \notin Hits(rs)
      BY <2>6 DEF Hits
    <3>2. g[m] = s
      BY <1>6, <1>8, <2>6 DEF s
    <3> QED BY <1>5, <2>3, <2>4, <3>1, <3>2
  <2> QED BY <2>5, <2>6
<1> QED BY <1>5, <1>7, <1>8

\* matchedRuleResults tells of the same rules.
LEMMA MatchedTells ==
    ASSUME NEW rs \in Seq(RuleResult), NEW S, Tells(rs, S)
    PROVE  Tells(matchedRuleResults(rs), S)
<1> DEFINE ms == matchedRuleResults(rs)
<1>1. /\ \A j \in 1..Len(ms) : \E i \in Hits(rs) : ms[j] = rs[i]
      /\ \A i \in Hits(rs) : \E j \in 1..Len(ms) : ms[j] = rs[i]
  BY MatchedOnly
<1> HIDE DEF ms
<1>2. \A j \in 1..Len(ms) : ms[j].matched
  <2>1. \A i \in Hits(rs) : rs[i].matched
    BY DEF Hits
  <2> QED BY <1>1, <2>1, Zenon
<1>3. Hits(ms) = 1..Len(ms)
  BY <1>2 DEF Hits
<1>4. /\ \A n \in Hits(rs) : rs[n].rule \in S /\ rs[n].effect = EffectOf(rs[n].rule)
      /\ \A k \in S : \E n \in Hits(rs) : rs[n].rule = k
  BY DEF Tells
<1>5. ASSUME NEW j \in Hits(ms)
      PROVE  ms[j].rule \in S /\ ms[j].effect = EffectOf(ms[j].rule)
  BY <1>1, <1>3, <1>4
<1>6. ASSUME NEW k \in S PROVE \E j \in Hits(ms) : ms[j].rule = k
  BY <1>1, <1>3, <1>4
<1>7. Tells(ms, S)
  BY <1>5, <1>6 DEF Tells
<1> QED BY <1>7 DEF ms

\* The rule FirstWorst takes from results that tell of S is one of S with the
\* highest severity; there is one unless S is empty.
LEMMA FirstWorstOfTold ==
    ASSUME TypeOK, NEW rs, NEW S, S \subseteq Firing, Tells(rs, S)
    PROVE  /\ FirstWorst(rs) # NoRule =>
                  /\ FirstWorst(rs) \in S
                  /\ EffectSeverity(EffectOf(FirstWorst(rs))) = Worst(S)
           /\ Worst(S) > 0 =>
                  /\ FirstWorst(rs) \in S
                  /\ EffectSeverity(EffectOf(FirstWorst(rs))) = Worst(S)
<1> DEFINE Sev(n) == EffectSeverity(rs[n].effect)
           worst == {n \in Hits(rs) : Sev(n) > 0 /\ \A m \in Hits(rs) : Sev(m) <= Sev(n)}
<1>1. /\ \A n \in Hits(rs) : rs[n].rule \in S /\ rs[n].effect = EffectOf(rs[n].rule)
      /\ \A k \in S : \E n \in Hits(rs) : rs[n].rule = k
  BY DEF Tells
<1>2. /\ Worst(S) \in 0..4
      /\ \A k \in S : EffectSeverity(EffectOf(k)) \in 1..4
                      /\ EffectSeverity(EffectOf(k)) <= Worst(S)
      /\ Worst(S) > 0 => \E k \in S : EffectSeverity(EffectOf(k)) = Worst(S)
  BY WorstFacts
<1>3. \A n \in Hits(rs) : Sev(n) = EffectSeverity(EffectOf(rs[n].rule)) /\ Sev(n) \in 1..4
                          /\ Sev(n) <= Worst(S)
  BY <1>1, <1>2
<1>4. Worst(S) > 0 => worst # {}
  <2> SUFFICES ASSUME Worst(S) > 0 PROVE worst # {}
    OBVIOUS
  <2>1. PICK k \in S : EffectSeverity(EffectOf(k)) = Worst(S)
    BY <1>2
  <2>2. PICK n \in Hits(rs) : rs[n].rule = k
    BY <1>1
  <2>3. Sev(n) = Worst(S)
    BY <1>3, <2>1, <2>2
  <2> HIDE DEF Sev
  <2>4. n \in worst
    BY <1>3, <2>2, <2>3
  <2> QED BY <2>4
<1>5. ASSUME NEW n \in worst PROVE rs[n].rule \in S /\ EffectSeverity(EffectOf(rs[n].rule)) = Worst(S)
  <2>1. n \in Hits(rs) /\ \A m \in Hits(rs) : Sev(m) <= Sev(n)
    OBVIOUS
  <2>2. Worst(S) > 0
    <3>1. Sev(n) \in 1..4 /\ Sev(n) <= Worst(S)
      BY <1>3, <2>1
    <3> HIDE DEF Sev
    <3> QED BY <1>2, <3>1
  <2>3. PICK k \in S : EffectSeverity(EffectOf(k)) = Worst(S)
    BY <1>2, <2>2
  <2>4. PICK m \in Hits(rs) : rs[m].rule = k
    BY <1>1
  <2>5. Sev(m) = Worst(S) /\ Sev(m) <= Sev(n) /\ Sev(n) <= Worst(S) /\ Sev(n) \in 1..4
    BY <1>3, <2>1, <2>3, <2>4
  <2>6. Sev(n) = Worst(S)
    <3> HIDE DEF Sev
    <3> QED BY <1>2, <2>5
  <2> QED BY <1>1, <1>3, <2>1, <2>6
<1>6. FirstWorst(rs) = IF worst = {} THEN NoRule
                       ELSE rs[CHOOSE n \in worst : \A m \in worst : n <= m].rule
  BY DEF FirstWorst
<1>7. worst # {} => \E n \in worst : \A m \in worst : n <= m
  <2>1. worst \subseteq Nat
    BY DEF Hits
  <2> HIDE DEF worst
  <2> QED BY <2>1, LeastNumber
<1> HIDE DEF worst
<1>8. worst # {} => \E n \in worst : FirstWorst(rs) = rs[n].rule
  BY <1>6, <1>7
<1> QED BY <1>4, <1>5, <1>6, <1>8

\* The citation and the guidance of an action come from a rule that triggered
\* with its effect, for any policies, any order of them and any call-site mode.
THEOREM ExplanationsFit == Spec => []ExplainsAction
<1>1. EngineInv => ExplainsAction
  <2> SUFFICES ASSUME EngineInv, Done PROVE ExplainsAction
    BY DEF ExplainsAction
  <2>1. /\ decision = DecisionOf(Worst(Firing))
        /\ enforcedDecision = DecisionOf(Worst(EnforcedFiring))
    BY Resolved
  <2>2. TypeOK /\ EnforcedFiring \subseteq Firing
    BY DEF EngineInv, EnforcedFiring
  <2>3. /\ result.actionTaken = actionTaken
        /\ result.primaryCitation = FirstWorst(allResults)
        /\ result.appliedPrimaryCitation = FirstWorst(appliedResults)
        /\ decision # "allowed" => result.suggestedResponse = FirstWorst(guidanceResults)
    BY DEF EngineInv, DoneInv, Done, FindPrimaryCitation, findPolicySuggestedResponse
  <2>4. PassedFiring = Firing /\ {k \in PassedFiring : ~ShadowRule(k)} = EnforcedFiring
    BY AllPassed DEF EnforcedFiring
  <2>5. Tells(allResults, Firing) /\ Tells(enforcedResults, EnforcedFiring)
    BY <2>4 DEF EngineInv, RuleInv
  <2>6. Tells(matchedRuleResults(allResults), Firing)
    BY <2>2, <2>5, MatchedTells DEF TypeOK
  <2>7. Worst(Firing) \in 0..4 /\ Worst(EnforcedFiring) \in 0..4
    BY <2>2, WorstFacts
  <2>8. ASSUME actionTaken \in {"denied", "escalated", "flagged"}
        PROVE  /\ result.appliedPrimaryCitation \in Firing
               /\ DecisionOf(EffectSeverity(EffectOf(result.appliedPrimaryCitation))) = actionTaken
               /\ result.suggestedResponse = result.appliedPrimaryCitation
    <3>1. actionTaken = actionDecision
      BY <2>8 DEF actionTaken, ResolveActionTaken
    <3>2. decision # "allowed"
      <4>1. CASE enforcedDecision = "allowed"
        BY <2>8, <3>1, <4>1 DEF actionDecision
      <4>2. CASE enforcedDecision # "allowed"
        <5>1. Worst(EnforcedFiring) \in 2..4
          BY <2>1, <2>7, <4>2 DEF DecisionOf
        <5>2. PICK k \in EnforcedFiring : EffectSeverity(EffectOf(k)) = Worst(EnforcedFiring)
          BY <2>2, <5>1, WorstFacts
        <5>3. EffectSeverity(EffectOf(k)) <= Worst(Firing)
          BY <2>2, WorstFacts
        <5>4. Worst(Firing) \in 2..4
          BY <2>7, <5>1, <5>2, <5>3
        <5> QED BY <2>1, <5>4 DEF DecisionOf
      <4> QED BY <4>1, <4>2
    <3>3. result.suggestedResponse = result.appliedPrimaryCitation
      BY <2>3, <2>8, <3>2 DEF guidanceResults
    <3>4. CASE enforcedDecision = "allowed"
      <4>1. appliedResults = matchedRuleResults(allResults)
        BY <2>8, <3>4 DEF appliedResults
      <4>2. actionTaken = DecisionOf(Worst(Firing))
        BY <2>1, <3>1, <3>4 DEF actionDecision
      <4>3. Worst(Firing) > 0
        BY <2>7, <2>8, <4>2 DEF DecisionOf
      <4>4. /\ FirstWorst(appliedResults) \in Firing
            /\ EffectSeverity(EffectOf(FirstWorst(appliedResults))) = Worst(Firing)
        BY <2>2, <2>6, <4>1, <4>3, FirstWorstOfTold
      <4> QED BY <2>3, <3>3, <4>2, <4>4
    <3>5. CASE enforcedDecision # "allowed"
      <4>1. appliedResults = enforcedResults
        BY <3>5 DEF appliedResults
      <4>2. actionTaken = DecisionOf(Worst(EnforcedFiring))
        BY <2>1, <3>1, <3>5 DEF actionDecision
      <4>3. Worst(EnforcedFiring) > 0
        BY <2>7, <2>8, <4>2 DEF DecisionOf
      <4>4. /\ FirstWorst(appliedResults) \in EnforcedFiring
            /\ EffectSeverity(EffectOf(FirstWorst(appliedResults))) = Worst(EnforcedFiring)
        BY <2>2, <2>5, <4>1, <4>3, FirstWorstOfTold
      <4> QED BY <2>2, <2>3, <3>3, <4>2, <4>4
    <3> QED BY <3>4, <3>5
  <2>9. ASSUME actionTaken = "allowed_shadow"
        PROVE  /\ result.suggestedResponse = result.primaryCitation
               /\ result.appliedPrimaryCitation # NoRule =>
                     EffectOf(result.appliedPrimaryCitation) = "allow"
    <3>1. effectiveMode = "shadow" /\ actionDecision \in {"denied", "escalated"}
      <4>1. decision # "allowed_shadow" /\ enforcedDecision # "allowed_shadow"
        BY <2>1 DEF DecisionOf
      <4> QED BY <2>9, <4>1 DEF actionTaken, actionDecision, ResolveActionTaken
    <3>2. enforcedDecision = "allowed"
      BY <3>1 DEF effectiveMode
    <3>3. decision # "allowed"
      BY <3>1, <3>2 DEF actionDecision
    <3>4. result.suggestedResponse = result.primaryCitation
      BY <2>3, <2>9, <3>3 DEF guidanceResults
    <3>5. appliedResults = enforcedResults
      BY <2>9 DEF appliedResults
    <3>6. Worst(EnforcedFiring) \in 0..1
      BY <2>1, <2>7, <3>2 DEF DecisionOf
    <3>7. ASSUME FirstWorst(enforcedResults) # NoRule
          PROVE  EffectOf(FirstWorst(enforcedResults)) = "allow"
      <4> DEFINE k == FirstWorst(enforcedResults)
      <4>1. k \in EnforcedFiring /\ EffectSeverity(EffectOf(k)) = Worst(EnforcedFiring)
        BY <2>2, <2>5, <3>7, FirstWorstOfTold
      <4> HIDE DEF k
      <4>2. EffectSeverity(EffectOf(k)) \in 1..4
        BY <2>2, <4>1, WorstFacts
      <4>3. EffectSeverity(EffectOf(k)) = 1
        BY <3>6, <4>1, <4>2
      <4>4. EffectOf(k) = "allow"
        BY <4>3 DEF EffectSeverity
      <4> QED BY <4>4 DEF k
    <3> QED BY <2>3, <3>4, <3>5, <3>7
  <2> QED BY <2>3, <2>8, <2>9 DEF ExplainsAction
<1> QED BY <1>1, EngineInvariant, PTL

=============================================================================
