--------------------------- MODULE LLMGuardProofs ---------------------------
(***************************************************************************)
(* Proofs about one llm_classify question after the other, for any labels, *)
(* answers, timeouts and number of attempts.                               *)
(*                                                                         *)
(* LLMInv is the inductive invariant: a question is about a configuration  *)
(* that validates (Validated), and only a safe answer has let a call pass. *)
(* That the configuration validates is what keeps "safe" and the forbidden *)
(* labels apart, and with them their shares of the distribution; the sum   *)
(* that systemOneDistribution checks is compared by counting units.        *)
(***************************************************************************)
EXTENDS LLMGuard, FiniteSetTheorems, NaturalsInduction, WellFoundedInduction, TLAPS

Validated == ask.phase # "none" => ask.cfg \in Config /\ validateLLM(ask.cfg)

\* The question is a record with the fields it started with.
Shape == DOMAIN ask = {"phase", "cfg", "attempt", "now", "wait", "fired", "answer"}

LLMInv == Shape /\ Validated /\ OnlySafePasses

-----------------------------------------------------------------------------
(* Sums *)

\* The units the numbers of the members of S are made of.
Units(f, S) == UNION {{i} \X (1..f[i]) : i \in S}

\* A set of naturals has a least member.
LEMMA LeastNumber ==
    ASSUME NEW T, T \subseteq Nat, T # {}
    PROVE  \E m \in T : \A k \in T : m <= k
<1> DEFINE R == {ss \in Nat \X Nat : ss[1] < ss[2]}
<1>1. IsWellFoundedOn(R, Nat)
  BY NatLessThanWellFounded DEF OpToRel
<1>2. \A x, y \in Nat : x < y => <<x, y>> \in R
  OBVIOUS
<1> HIDE DEF R
<1>3. PICK x \in T : \A y \in T : ~ (<<y, x>> \in R)
  BY <1>1, WFMin
<1>4. \A y \in T : ~(y < x)
  BY <1>2, <1>3
<1>5. \A y \in T : x <= y
  BY <1>4
<1> QED BY <1>5

\* One member's units.
LEMMA UnitsOfOne ==
    ASSUME NEW i, NEW n \in Nat
    PROVE  IsFiniteSet({i} \X (1..n)) /\ Cardinality({i} \X (1..n)) = n
<1>1. IsFiniteSet({i}) /\ Cardinality({i}) = 1
  BY FS_Singleton
<1>2. IsFiniteSet(1..n) /\ Cardinality(1..n) = n
  BY FS_Interval
<1>3. /\ IsFiniteSet({i} \X (1..n))
      /\ Cardinality({i} \X (1..n)) = Cardinality({i}) * Cardinality(1..n)
  BY <1>1, <1>2, FS_Product
<1>4. 1 * n = n
  OBVIOUS
<1> QED BY <1>1, <1>2, <1>3, <1>4, Zenon

\* The units of a finite set are finite.
LEMMA UnitsFinite ==
    ASSUME NEW f, NEW S, IsFiniteSet(S), \A i \in S : f[i] \in Nat
    PROVE  IsFiniteSet(Units(f, S))
<1> DEFINE P(i) == {i} \X (1..f[i])
<1>1. IsFiniteSet({P(i) : i \in S})
  <2> DEFINE g == [i \in S |-> P(i)]
  <2>1. g \in Surjection(S, {P(i) : i \in S})
    BY DEF Surjection
  <2> QED BY <2>1, FS_Surjection
<1>2. \A i \in S : IsFiniteSet(P(i))
  BY UnitsOfOne
<1> HIDE DEF P
<1>3. \A T \in {P(i) : i \in S} : IsFiniteSet(T)
  BY <1>2
<1> QED BY <1>1, <1>3, FS_UNION DEF Units, P

\* A member adds its number.
LEMMA UnitsGrow ==
    ASSUME NEW f, NEW S, IsFiniteSet(S), NEW x \in S, \A i \in S : f[i] \in Nat
    PROVE  Cardinality(Units(f, S)) = f[x] + Cardinality(Units(f, S \ {x}))
<1> DEFINE A == {x} \X (1..f[x])
           B == Units(f, S \ {x})
<1>1. IsFiniteSet(A) /\ Cardinality(A) = f[x]
  BY UnitsOfOne
<1>2. IsFiniteSet(S \ {x})
  BY FS_RemoveElement
<1>3. IsFiniteSet(B) /\ Cardinality(B) \in Nat
  BY <1>2, UnitsFinite, FS_CardinalityType
<1>4. A \cap B = {}
  BY DEF Units
<1>5. Units(f, S) = A \cup B
  BY DEF Units
<1>6. Cardinality(A \cup B) = Cardinality(A) + Cardinality(B) - Cardinality(A \cap B)
  BY <1>1, <1>3, FS_Union
<1>7. Cardinality(A \cap B) = 0
  BY <1>4, FS_EmptySet
<1> HIDE DEF A, B
<1>8. Cardinality(A \cup B) = f[x] + Cardinality(B)
  BY <1>1, <1>3, <1>6, <1>7
<1> QED BY <1>5, <1>8 DEF B

\* The recursion of the fold.
Iterates(it, f, S) ==
    it = [s \in SUBSET S |-> IF s = {} THEN 0
                             ELSE f[CHOOSE x \in s : TRUE]
                                    + it[s \ {CHOOSE x \in s : TRUE}]]

LEMMA SumIsCount ==
    ASSUME NEW f, NEW S, S = DOMAIN f, IsFiniteSet(S), \A i \in S : f[i] \in Nat
    PROVE  FoldFunction(+, 0, f) = Cardinality(Units(f, S))
<1> DEFINE it == CHOOSE g : Iterates(g, f, S)
<1>1. FoldFunction(+, 0, f) = it[S]
  BY DEF FoldFunction, FoldFunctionOnSet, MapThenFoldSet, Iterates
<1>2. \A g, s : Iterates(g, f, S) /\ s \in SUBSET S /\ s # {} =>
          \E x \in s : g[s] = f[x] + g[s \ {x}]
  BY DEF Iterates
<1>3. \A g : Iterates(g, f, S) => g[{}] = 0
  BY DEF Iterates
<1>4. \E g : Iterates(g, f, S)
  <2> DEFINE g == [s \in SUBSET S |-> Cardinality(Units(f, s))]
  <2>1. ASSUME NEW s \in SUBSET S
        PROVE  g[s] = IF s = {} THEN 0
                      ELSE f[CHOOSE x \in s : TRUE] + g[s \ {CHOOSE x \in s : TRUE}]
    <3>1. CASE s = {}
      <4>1. Units(f, {}) = {}
        BY DEF Units
      <4> QED BY <4>1, <3>1, FS_EmptySet
    <3>2. CASE s # {}
      <4> DEFINE x == CHOOSE y \in s : TRUE
      <4>1. x \in s
        BY <3>2
      <4>2. IsFiniteSet(s)
        BY FS_Subset
      <4> HIDE DEF x
      <4>3. Cardinality(Units(f, s)) = f[x] + Cardinality(Units(f, s \ {x}))
        BY <4>1, <4>2, UnitsGrow
      <4>4. g[s] = Cardinality(Units(f, s)) /\ g[s \ {x}] = Cardinality(Units(f, s \ {x}))
        OBVIOUS
      <4>5. g[s] = f[x] + g[s \ {x}]
        BY <4>3, <4>4
      <4> QED BY <3>2, <4>5 DEF x
    <3> QED BY <3>1, <3>2
  <2> HIDE DEF g
  <2>2. g = [s \in SUBSET S |-> g[s]]
    BY DEF g
  <2>3. Iterates(g, f, S)
    BY <2>1, <2>2 DEF Iterates
  <2> QED BY <2>3
<1>5. Iterates(it, f, S)
  BY <1>4
<1> HIDE DEF it
<1> DEFINE Wrong == {n \in Nat : \E s \in SUBSET S : /\ Cardinality(s) = n
                                                   /\ it[s] # Cardinality(Units(f, s))}
<1>6. \A s \in SUBSET S : IsFiniteSet(s) /\ Cardinality(s) \in Nat
  BY FS_Subset, FS_CardinalityType
<1>7. Wrong = {}
  <2>1. SUFFICES ASSUME Wrong # {} PROVE FALSE
    OBVIOUS
  <2>2. PICK n \in Wrong : \A k \in Wrong : n <= k
    BY <2>1, LeastNumber
  <2>3. PICK s \in SUBSET S : Cardinality(s) = n /\ it[s] # Cardinality(Units(f, s))
    BY <2>2
  <2>4. s # {}
    <3>1. Units(f, {}) = {} /\ Cardinality({}) = 0
      BY FS_EmptySet DEF Units
    <3> QED BY <3>1, <2>3, <1>3, <1>5
  <2>5. PICK x \in s : it[s] = f[x] + it[s \ {x}]
    BY <2>4, <1>2, <1>5
  <2>6. IsFiniteSet(s)
    BY <1>6
  <2>7. s \ {x} \in SUBSET S /\ Cardinality(s \ {x}) = n - 1 /\ n \in Nat /\ n - 1 \in Nat
    <3>1. s \ {x} \in SUBSET S
      OBVIOUS
    <3>2. Cardinality(s \ {x}) = Cardinality(s) - 1
      BY <2>6, FS_RemoveElement
    <3>3. Cardinality(s) \in Nat /\ Cardinality(s \ {x}) \in Nat
      BY <1>6, <3>1
    <3> QED BY <2>3, <3>1, <3>2, <3>3
  <2>8. n - 1 \notin Wrong
    BY <2>2, <2>7
  <2>9. it[s \ {x}] = Cardinality(Units(f, s \ {x}))
    BY <2>7, <2>8
  <2>10. Cardinality(Units(f, s)) = f[x] + Cardinality(Units(f, s \ {x}))
    BY <2>6, UnitsGrow
  <2> QED BY <2>3, <2>5, <2>9, <2>10
<1>8. it[S] = Cardinality(Units(f, S))
  BY <1>6, <1>7
<1> QED BY <1>1, <1>8

\* Two numbers of a sum do not exceed it.
LEMMA SumOfTwo ==
    ASSUME NEW f, IsFiniteSet(DOMAIN f), \A i \in DOMAIN f : f[i] \in Nat,
           NEW a \in DOMAIN f, NEW b \in DOMAIN f, a # b
    PROVE  f[a] + f[b] <= FoldFunction(+, 0, f)
<1> DEFINE S == DOMAIN f
           T == S \ {a}
           R == T \ {b}
<1>1. /\ IsFiniteSet(S) /\ IsFiniteSet(T) /\ IsFiniteSet(R) /\ a \in S /\ b \in T
      /\ f[a] \in Nat /\ f[b] \in Nat
  BY FS_RemoveElement
<1>2. (\A i \in S : f[i] \in Nat) /\ (\A i \in T : f[i] \in Nat) /\ (\A i \in R : f[i] \in Nat)
  OBVIOUS
<1> HIDE DEF R
<1> DEFINE total == FoldFunction(+, 0, f)
<1>3. total = Cardinality(Units(f, S))
  BY <1>1, <1>2, SumIsCount
<1> HIDE DEF S, total
<1>4. Cardinality(Units(f, S)) = f[a] + Cardinality(Units(f, T))
  BY <1>1, <1>2, UnitsGrow
<1> HIDE DEF T
<1>5. Cardinality(Units(f, T)) = f[b] + Cardinality(Units(f, R))
  BY <1>1, <1>2, UnitsGrow DEF R
<1>6. Cardinality(Units(f, R)) \in Nat
  BY <1>1, <1>2, UnitsFinite, FS_CardinalityType
<1>7. f[a] + f[b] <= total
  BY <1>1, <1>3, <1>4, <1>5, <1>6
<1> QED BY <1>7 DEF total

-----------------------------------------------------------------------------
(* Answers *)

\* A configuration that validates offers finitely many labels, "safe" not
\* among the forbidden ones.
LEMMA OfferedLabels ==
    ASSUME NEW cfg \in Config, validateLLM(cfg)
    PROVE  /\ IsFiniteSet(labels(cfg.forbidden) \cup {"safe"})
           /\ \A i \in DOMAIN cfg.forbidden : /\ cfg.forbidden[i].text \in labels(cfg.forbidden)
                                              /\ cfg.forbidden[i].text # "safe"
<1> DEFINE F == cfg.forbidden
           n == Len(F)
           D == 1..n
           t == [i \in D |-> F[i].text]
<1>1. F \in Seq([text : STRING, form : STRING])
  BY DEF Config
<1>2. n \in Nat /\ DOMAIN F = D
  BY <1>1
<1>3. \A i \in DOMAIN F : F[i].text # "safe"
  BY DEF validateLLM, ReservedLabels
<1>4. labels(F) = {F[i].text : i \in D}
  BY <1>2 DEF labels
<1> HIDE DEF F, n
<1>5. IsFiniteSet(D)
  BY <1>2, FS_Interval
<1> HIDE DEF D
<1>6. t \in Surjection(D, labels(F))
  BY <1>4 DEF Surjection
<1>7. IsFiniteSet(labels(F))
  BY <1>5, <1>6, FS_Surjection
<1>8. IsFiniteSet(labels(F) \cup {"safe"})
  BY <1>7, FS_AddElement
<1> QED BY <1>2, <1>3, <1>4, <1>8 DEF F

\* The floor holds for "safe" too.
LEMMA SafeVerdict ==
    ASSUME NEW label, NEW conf \in Int, NEW known, verdict(label, conf, known) = "safe"
    PROVE  label = "safe" /\ conf >= minConfidence
<1>1. \/ Ambiguous(label, conf) /\ verdict(label, conf, known) = "ambiguous"
      \/ ~Ambiguous(label, conf) /\ verdict(label, conf, known) = label
      \/ verdict(label, conf, known) = "unknown_label"
  BY DEF verdict
<1>2. ~Ambiguous(label, conf) /\ label = "safe"
  BY <1>1
<1> QED BY <1>2 DEF Ambiguous, minConfidence

\* A distribution that sums to one leaves the forbidden labels the rest.
LEMMA SafeOfSystemOne ==
    ASSUME NEW cfg \in Config, validateLLM(cfg), NEW a,
           interpretSystemOneAnswer(a, cfg.forbidden) = "safe"
    PROVE  /\ a.choice = "safe" /\ a.probs["safe"] >= minConfidence
           /\ \A i \in DOMAIN cfg.forbidden :
                a.probs[cfg.forbidden[i].text] <= 10 - minConfidence
<1> DEFINE offered == labels(cfg.forbidden) \cup {"safe"}
           p == a.probs
           conf == p[a.choice]
           known == a.choice \in labels(cfg.forbidden)
<1>1. /\ systemOneDistribution(p, offered) /\ a.choice \in offered
      /\ verdict(a.choice, conf, known) = "safe"
  BY Zenon DEF interpretSystemOneAnswer
<1>2. /\ DOMAIN p = offered /\ \A label \in offered : p[label] \in 0..10
      /\ FoldFunction(+, 0, p) = 10
  BY <1>1 DEF systemOneDistribution
<1>3. IsFiniteSet(offered) /\ "safe" \in offered
  BY OfferedLabels
<1>4. \A i \in DOMAIN cfg.forbidden : /\ cfg.forbidden[i].text \in offered
                                      /\ cfg.forbidden[i].text # "safe"
  BY OfferedLabels
<1> HIDE DEF offered, p, known
<1>5. \A label \in offered : p[label] \in Nat
  <2>1. 0..10 \subseteq Nat
    OBVIOUS
  <2> QED BY <1>2, <2>1, Zenon
<1>6. a.choice = "safe" /\ conf >= minConfidence
  <2>1. conf \in Nat
    BY <1>1, <1>5
  <2> HIDE DEF conf
  <2> QED BY <1>1, <2>1, SafeVerdict
<1>7. ASSUME NEW i \in DOMAIN cfg.forbidden
      PROVE  p[cfg.forbidden[i].text] <= 10 - minConfidence
  <2> DEFINE other == cfg.forbidden[i].text
  <2>1. other \in DOMAIN p /\ "safe" \in DOMAIN p /\ other # "safe" /\ IsFiniteSet(DOMAIN p)
    BY <1>2, <1>3, <1>4
  <2>2. \A label \in DOMAIN p : p[label] \in Nat
    BY <1>2, <1>5, Zenon
  <2> HIDE DEF other
  <2>3. p[other] + p["safe"] <= FoldFunction(+, 0, p)
    BY <2>1, <2>2, SumOfTwo
  <2>4. p[other] + p["safe"] <= 10 /\ p["safe"] >= 6 /\ p[other] \in Nat /\ p["safe"] \in Nat
    BY <1>2, <1>6, <2>1, <2>2, <2>3 DEF minConfidence
  <2> QED BY <2>4 DEF minConfidence, other
<1> QED BY <1>6, <1>7 DEF p

LEMMA SafeOfOllama ==
    ASSUME NEW a \in Answers, NEW forbidden, ollamaCategory(a, forbidden) = "safe"
    PROVE  a.choice = "safe" /\ a.confidence >= minConfidence
<1> DEFINE known == containsLabel(forbidden, a.choice) \/ a.choice = "model_refused"
<1>1. verdict(a.choice, a.confidence, known) = "safe"
  <2>1. ollamaCategory(a, forbidden) \in {"model_refused", "error"} \/
        ollamaCategory(a, forbidden) = verdict(a.choice, a.confidence, known)
    BY DEF ollamaCategory
  <2> QED BY <2>1
<1>2. a.confidence \in Int
  BY LLMAssumption
<1> HIDE DEF known
<1> QED BY <1>1, <1>2, SafeVerdict

-----------------------------------------------------------------------------
(* Steps *)

\* A step that ends no question, or ends it by firing, lets nothing pass.
LEMMA NothingPasses ==
    ASSUME ask'.phase = "done" => ask'.fired
    PROVE  OnlySafePasses'
  BY DEF OnlySafePasses

\* The records a question starts from and ends with.
LEMMA QuestionShapes ==
    /\ NoQuestion.phase = "none"
    /\ DOMAIN NoQuestion = {"phase", "cfg", "attempt", "now", "wait", "fired", "answer"}
    /\ \A fired, answer : DOMAIN Closed(fired, answer) = DOMAIN NoQuestion
    /\ DOMAIN FailClosed = DOMAIN NoQuestion
    /\ \A fired, answer : LET q == Closed(fired, answer)
                          IN  q.phase = "done" /\ q.fired = fired /\ q.answer = answer
                                /\ q.cfg = ask.cfg
    /\ FailClosed.phase = "done" /\ FailClosed.fired = TRUE /\ FailClosed.cfg = ask.cfg
  BY DEF NoQuestion, Closed, FailClosed

LEMMA StepBegin ==
    ASSUME Begin
    PROVE  LLMInv'
<1> DEFINE cfg == ask'.cfg
<1>1. cfg \in Config /\ validateLLM(cfg)
  BY DEF Begin
<1>2. PICK readable, image, endpointOK \in BOOLEAN : AskModel(cfg, readable, image, endpointOK)
  BY DEF Begin
<1>3. ask'.phase = "done" => ask'.fired
  BY <1>2 DEF AskModel, NoQuestion
<1>4. Validated'
  BY <1>1 DEF Validated, validateLLM, Config, ReservedLabels
<1>5. Shape'
  BY <1>2, QuestionShapes DEF AskModel, Shape
<1> QED BY <1>3, <1>4, <1>5, NothingPasses DEF LLMInv

\* Only an answer can end a question without firing.
LEMMA StepOthers ==
    ASSUME LLMInv, [QuestionNext]_ask, ask.phase # "none", DOMAIN ask' = DOMAIN ask,
           ask'.cfg = ask.cfg, ask'.phase = "done" => ask'.fired
    PROVE  LLMInv'
<1>1. Validated'
  BY DEF LLMInv, Validated, validateLLM, Config, ReservedLabels
<1> QED BY <1>1, NothingPasses DEF LLMInv, Shape

LEMMA StepAnswered ==
    ASSUME LLMInv, NEW a \in Answers, Answered(a)
    PROVE  LLMInv'
<1> DEFINE cfg == ask.cfg
           fired == interpretClassifyResult(Category(cfg, a))
<1>1. cfg \in Config /\ validateLLM(cfg)
  BY DEF LLMInv, Validated, Answered
<1>2. ask'.phase = "done" /\ ask'.fired = fired /\ ask'.answer = a /\ ask'.cfg = cfg
  BY QuestionShapes DEF Answered
<1>3. Validated'
  BY <1>1, <1>2 DEF Validated
<1>4. ASSUME ~fired, cfg.backend = "systemone"
      PROVE  /\ a.choice = "safe" /\ a.probs["safe"] >= minConfidence
             /\ \A i \in DOMAIN cfg.forbidden :
                  a.probs[cfg.forbidden[i].text] <= 10 - minConfidence
  <2>1. interpretSystemOneAnswer(a, cfg.forbidden) = "safe"
    BY <1>4 DEF interpretClassifyResult, Category
  <2> QED BY <1>1, <2>1, SafeOfSystemOne
<1>5. ASSUME ~fired, cfg.backend # "systemone"
      PROVE  a.choice = "safe" /\ a.confidence >= minConfidence
  <2>1. ollamaCategory(a, cfg.forbidden) = "safe"
    BY <1>5 DEF interpretClassifyResult, Category
  <2> QED BY <2>1, SafeOfOllama
<1> HIDE DEF fired
<1>6. OnlySafePasses'
  BY <1>2, <1>4, <1>5 DEF OnlySafePasses, minConfidence
<1>7. Shape'
  BY QuestionShapes DEF Answered, Shape
<1> QED BY <1>3, <1>6, <1>7 DEF LLMInv

\* A question is about a configuration that validates, and what has let a call
\* pass is a safe answer (llm_classify.go, evalLLMClassifyWithDetail).
THEOREM QuestionInvariant == Question => []LLMInv
<1>1. ask = NoQuestion => LLMInv
  BY QuestionShapes DEF LLMInv, Shape, Validated, OnlySafePasses
<1>2. LLMInv /\ [QuestionNext]_ask => LLMInv'
  <2>1. SUFFICES ASSUME LLMInv, [QuestionNext]_ask PROVE LLMInv'
    OBVIOUS
  <2>2. CASE Begin
    BY <2>2, StepBegin
  <2>3. CASE \E addresses \in SUBSET {"public", "private"}, good \in BOOLEAN :
                 FetchImage(addresses, good)
    <3>1. PICK addresses \in SUBSET {"public", "private"}, good \in BOOLEAN :
                 FetchImage(addresses, good)
      BY <2>3
    <3>2. /\ ask.phase # "none" /\ DOMAIN ask' = DOMAIN ask /\ ask'.cfg = ask.cfg
          /\ (ask'.phase = "done" => ask'.fired)
      BY <3>1, <2>1, QuestionShapes DEF FetchImage, LLMInv, Shape
    <3> QED BY <2>1, <3>2, StepOthers
  <2>4. CASE \E a \in Answers : Answered(a)
    BY <2>1, <2>4, StepAnswered
  <2>5. CASE Busy
    <3>1. /\ ask.phase # "none" /\ DOMAIN ask' = DOMAIN ask /\ ask'.cfg = ask.cfg
          /\ (ask'.phase = "done" => ask'.fired)
      BY <2>5, <2>1, QuestionShapes DEF Busy, LLMInv, Shape
    <3> QED BY <2>1, <3>1, StepOthers
  <2>6. CASE CallFails
    <3>1. /\ ask.phase # "none" /\ DOMAIN ask' = DOMAIN ask /\ ask'.cfg = ask.cfg
          /\ (ask'.phase = "done" => ask'.fired)
      BY <2>6, <2>1, QuestionShapes DEF CallFails, LLMInv, Shape
    <3> QED BY <2>1, <3>1, StepOthers
  <2>7. CASE Retry
    <3>1. /\ ask.phase # "none" /\ DOMAIN ask' = DOMAIN ask /\ ask'.cfg = ask.cfg
          /\ (ask'.phase = "done" => ask'.fired)
      BY <2>1, <2>7 DEF Retry, LLMInv, Shape
    <3> QED BY <2>1, <3>1, StepOthers
  <2>8. CASE Expire
    <3>1. /\ ask.phase # "none" /\ DOMAIN ask' = DOMAIN ask /\ ask'.cfg = ask.cfg
          /\ (ask'.phase = "done" => ask'.fired)
      BY <2>8, <2>1, QuestionShapes DEF Expire, Open, LLMInv, Shape
    <3> QED BY <2>1, <3>1, StepOthers
  <2>9. CASE TickModel
    <3>1. /\ ask.phase # "none" /\ DOMAIN ask' = DOMAIN ask /\ ask'.cfg = ask.cfg
          /\ (ask'.phase = "done" => ask'.fired)
      BY <2>1, <2>9 DEF TickModel, Open, LLMInv, Shape
    <3> QED BY <2>1, <3>1, StepOthers
  <2>10. CASE Forget
    <3>1. ask'.phase = "none" /\ Shape'
      BY <2>10, QuestionShapes DEF Forget, Shape
    <3> QED BY <3>1 DEF LLMInv, Validated, OnlySafePasses
  <2>11. CASE UNCHANGED ask
    BY <2>1, <2>11 DEF LLMInv, Shape, Validated, OnlySafePasses
  <2> QED BY <2>1, <2>2, <2>3, <2>4, <2>5, <2>6, <2>7, <2>8, <2>9, <2>10, <2>11
          DEF QuestionNext
<1> QED BY <1>1, <1>2, PTL DEF Question

\* Only "safe", said in time and at or above the floor, lets a call pass, and
\* what the rule forbids has at most the rest of the mass (llm_classify.go,
\* interpretClassifyResult; systemone.go, interpretSystemOneAnswer).
THEOREM SafeAnswersOnly == Question => []OnlySafePasses
<1>1. LLMInv => OnlySafePasses
  BY DEF LLMInv
<1> QED BY <1>1, QuestionInvariant, PTL

=============================================================================
