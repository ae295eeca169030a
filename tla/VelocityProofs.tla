--------------------------- MODULE VelocityProofs ---------------------------
(***************************************************************************)
(* Proofs about the velocity tracker, for any number of calls and keys,    *)
(* any amounts, cap and clock bound.                                       *)
(*                                                                         *)
(* VelInv is the inductive invariant.  WindowInv is its core: the events   *)
(* of a window are book-kept against the calls that recorded them, no call *)
(* twice, and no call of the last day is missing unless the window         *)
(* overflowed.  ReadInv carries what a call has read from the window it    *)
(* read to the call's own decision, PastInv says that what it found        *)
(* answered stays answered, HeldInv that no window is allocated twice, and *)
(* FitInv that nothing is evicted while the keys seen fit.                 *)
(*                                                                         *)
(* Sums of amounts are compared by counting: an amount of n is n units,    *)
(* the sum over a set is the number of its units, and an injection from    *)
(* one set of units into another bounds the one sum by the other.          *)
(***************************************************************************)
EXTENDS Velocity, FiniteSetTheorems, NaturalsInduction, WellFoundedInduction, TLAPS

\* The calls whose spending went into the window w.
SpendersIn(w) == {s \in Spenders : call[s].w = w}

\* own tells which call of S each event is of: no call has two, and as long as
\* S is within the event cap, all of S that is within a day at n is there.
Accounts(own, es, S, c, n) ==
    /\ own \in [DOMAIN es -> S]
    /\ \A i, j \in DOMAIN es : own[i] = own[j] => i = j
    /\ \A i \in DOMAIN es : es[i].at = c[own[i]].velNow /\ es[i].amount = c[own[i]].amount
    /\ Cardinality(S) <= MaxEvents =>
          \A s \in S : c[s].velNow + Day >= n => \E i \in DOMAIN es : own[i] = s

WindowInv ==
    \A w \in Req : \E own \in [DOMAIN window[w].events -> SpendersIn(w)] :
        Accounts(own, window[w].events, SpendersIn(w), call, now)

\* A window that a call or the map refers to was allocated by a call that has
\* been through windowFor.
Looked(w) == call[w].pc \notin {"idle", "lookup"}

HeldInv ==
    /\ \A r \in Req : call[r].w \in Req => Looked(call[r].w)
    /\ \A k \in Key : windows[k] \in Req => Looked(windows[k])

\* A call that was stopped.
Denied(k) == [NoCall EXCEPT !.pc = "denied", !.key = k]

\* Clocks do not run ahead, and what a call found answered stays answered.
PastInv ==
    /\ IsFiniteSet({r \in Req : call[r].pc # "idle"})
    /\ \A r \in Req :
        /\ call[r].velNow <= now
        /\ call[r].pc \in {"idle", "denied"} => call[r].w = None
        /\ call[r].pc # "idle" => call[r].key \in Key
        /\ call[r].pc = "record" => call[r].amount > 0
        /\ \A s \in call[r].before : call[s].pc = "proceeded" /\ call[s].key = call[r].key

\* Spending answered before r arrived, in r's window and not older than span
\* when r read it.
SpentIn(r, span) ==
    Spent({s \in Spenders \cap call[r].before :
              call[s].w = call[r].w /\ call[s].velNow + span >= call[r].read})

\* What a call has read covers what was spent before it, and it went on only
\* within the cap.
ReadOK(r) ==
    /\ call[r].read <= now
    /\ NotFull(r) => /\ SpentIn(r, Hour) <= call[r].sum1h
                     /\ SpentIn(r, Day) <= call[r].sum24h
    /\ call[r].pc # "decide" => call[r].amount + call[r].sum1h <= Cap

ReadInv == \A r \in Req : HasRead(r) => ReadOK(r)

\* The keys of the calls so far.
Seen == {call[r].key : r \in {q \in Req : call[q].pc # "idle"}}

\* While they fit, a call's window is the one its key has.
FitInv ==
    /\ \A k \in Key : windows[k] # None => k \in Seen
    /\ KeysFit => \A r \in Req : call[r].w \in Req => windows[call[r].key] = call[r].w

VelInv == TypeOK /\ HeldInv /\ PastInv /\ WindowInv /\ ReadInv /\ FitInv

-----------------------------------------------------------------------------
(* Sums *)

\* The units the amounts of the members of S are made of.
Units(f, S) == UNION {{i} \X (1..f[i].amount) : i \in S}

\* A set of naturals has a least member.
LEMMA LeastNumber ==
    ASSUME NEW T, T \subseteq Nat, T # {}
    PROVE  \E m \in T : \A k \in T : m <= k
<1> DEFINE R == {ss \in Nat \X Nat : ss[1] < ss[2]}
<1>1. IsWellFoundedOn(R, Nat)
  BY NatLessThanWellFounded DEF OpToRel
<1>2. \A x, y \in Nat : x < y => <<x, y>> \in R
  OBVIOUS
<1> HIDE DEF R
<1>3. PICK x \in T : \A y \in T : ~ (<<y, x>> \in R)
  BY <1>1, WFMin
<1>4. \A y \in T : ~(y < x)
  BY <1>2, <1>3
<1>5. \A y \in T : x <= y
  BY <1>4
<1> QED BY <1>5

\* One member's units.
LEMMA UnitsOfOne ==
    ASSUME NEW i, NEW n \in Nat
    PROVE  IsFiniteSet({i} \X (1..n)) /\ Cardinality({i} \X (1..n)) = n
<1>1. IsFiniteSet({i}) /\ Cardinality({i}) = 1
  BY FS_Singleton
<1>2. IsFiniteSet(1..n) /\ Cardinality(1..n) = n
  BY FS_Interval
<1>3. /\ IsFiniteSet({i} \X (1..n))
      /\ Cardinality({i} \X (1..n)) = Cardinality({i}) * Cardinality(1..n)
  BY <1>1, <1>2, FS_Product
<1>4. 1 * n = n
  OBVIOUS
<1> QED BY <1>1, <1>2, <1>3, <1>4, Zenon

\* The units of a finite set are finite.
LEMMA UnitsFinite ==
    ASSUME NEW f, NEW S, IsFiniteSet(S), \A i \in S : f[i].amount \in Nat
    PROVE  IsFiniteSet(Units(f, S))
<1> DEFINE P(i) == {i} \X (1..f[i].amount)
<1>1. IsFiniteSet({P(i) : i \in S})
  <2> DEFINE g == [i \in S |-> P(i)]
  <2>1. g \in Surjection(S, {P(i) : i \in S})
    BY DEF Surjection
  <2> QED BY <2>1, FS_Surjection
<1>2. \A i \in S : IsFiniteSet(P(i))
  BY UnitsOfOne
<1> HIDE DEF P
<1>3. \A T \in {P(i) : i \in S} : IsFiniteSet(T)
  BY <1>2
<1> QED BY <1>1, <1>3, FS_UNION DEF Units, P

\* A new member adds its amount.
LEMMA UnitsGrow ==
    ASSUME NEW f, NEW S, IsFiniteSet(S), NEW x \in S, \A i \in S : f[i].amount \in Nat
    PROVE  Cardinality(Units(f, S)) = f[x].amount + Cardinality(Units(f, S \ {x}))
<1> DEFINE A == {x} \X (1..f[x].amount)
           B == Units(f, S \ {x})
<1>1. IsFiniteSet(A) /\ Cardinality(A) = f[x].amount
  BY UnitsOfOne
<1>2. IsFiniteSet(S \ {x})
  BY FS_RemoveElement
<1>3. IsFiniteSet(B) /\ Cardinality(B) \in Nat
  BY <1>2, UnitsFinite, FS_CardinalityType
<1>4. A \cap B = {}
  BY DEF Units
<1>5. Units(f, S) = A \cup B
  BY DEF Units
<1>6. Cardinality(A \cup B) = Cardinality(A) + Cardinality(B) - Cardinality(A \cap B)
  BY <1>1, <1>3, FS_Union
<1>7. Cardinality(A \cap B) = 0
  BY <1>4, FS_EmptySet
<1> HIDE DEF A, B
<1>8. Cardinality(A \cup B) = f[x].amount + Cardinality(B)
  BY <1>1, <1>3, <1>6, <1>7
<1> QED BY <1>5, <1>8 DEF B

\* The recursion of the fold.
Iterates(it, f, S) ==
    it = [s \in SUBSET S |-> IF s = {} THEN 0
                             ELSE f[CHOOSE x \in s : TRUE].amount
                                    + it[s \ {CHOOSE x \in s : TRUE}]]

LEMMA SumIsCount ==
    ASSUME NEW f, NEW S, IsFiniteSet(S), \A i \in S : f[i].amount \in Nat
    PROVE  Total(f, S) = Cardinality(Units(f, S))
<1> DEFINE it == CHOOSE g : Iterates(g, f, S)
<1>1. Total(f, S) = it[S]
  BY DEF Total, MapThenSumSet, MapThenFoldSet, Iterates
<1>2. \A g, s : Iterates(g, f, S) /\ s \in SUBSET S /\ s # {} =>
          \E x \in s : g[s] = f[x].amount + g[s \ {x}]
  BY DEF Iterates
<1>3. \A g : Iterates(g, f, S) => g[{}] = 0
  BY DEF Iterates
<1>4. \E g : Iterates(g, f, S)
  <2> DEFINE g == [s \in SUBSET S |-> Cardinality(Units(f, s))]
  <2>1. ASSUME NEW s \in SUBSET S
        PROVE  g[s] = IF s = {} THEN 0
                      ELSE f[CHOOSE x \in s : TRUE].amount + g[s \ {CHOOSE x \in s : TRUE}]
    <3>1. CASE s = {}
      <4>1. Units(f, {}) = {}
        BY DEF Units
      <4> QED BY <4>1, <3>1, FS_EmptySet
    <3>2. CASE s # {}
      <4> DEFINE x == CHOOSE y \in s : TRUE
      <4>1. x \in s
        BY <3>2
      <4>2. IsFiniteSet(s)
        BY FS_Subset
      <4> HIDE DEF x
      <4>3. Cardinality(Units(f, s)) = f[x].amount + Cardinality(Units(f, s \ {x}))
        BY <4>1, <4>2, UnitsGrow
      <4>4. g[s] = Cardinality(Units(f, s)) /\ g[s \ {x}] = Cardinality(Units(f, s \ {x}))
        OBVIOUS
      <4>5. g[s] = f[x].amount + g[s \ {x}]
        BY <4>3, <4>4
      <4> QED BY <3>2, <4>5 DEF x
    <3> QED BY <3>1, <3>2
  <2> HIDE DEF g
  <2>2. g = [s \in SUBSET S |-> g[s]]
    BY DEF g
  <2>3. Iterates(g, f, S)
    BY <2>1, <2>2 DEF Iterates
  <2> QED BY <2>3
<1>5. Iterates(it, f, S)
  BY <1>4
<1> HIDE DEF it
<1> DEFINE Wrong == {n \in Nat : \E s \in SUBSET S : /\ Cardinality(s) = n
                                                   /\ it[s] # Cardinality(Units(f, s))}
<1>6. \A s \in SUBSET S : IsFiniteSet(s) /\ Cardinality(s) \in Nat
  BY FS_Subset, FS_CardinalityType
<1>7. Wrong = {}
  <2>1. SUFFICES ASSUME Wrong # {} PROVE FALSE
    OBVIOUS
  <2>2. PICK n \in Wrong : \A k \in Wrong : n <= k
    BY <2>1, LeastNumber
  <2>3. PICK s \in SUBSET S : Cardinality(s) = n /\ it[s] # Cardinality(Units(f, s))
    BY <2>2
  <2>4. s # {}
    <3>1. Units(f, {}) = {} /\ Cardinality({}) = 0
      BY FS_EmptySet DEF Units
    <3> QED BY <3>1, <2>3, <1>3, <1>5
  <2>5. PICK x \in s : it[s] = f[x].amount + it[s \ {x}]
    BY <2>4, <1>2, <1>5
  <2>6. IsFiniteSet(s)
    BY <1>6
  <2>7. s \ {x} \in SUBSET S /\ Cardinality(s \ {x}) = n - 1 /\ n \in Nat /\ n - 1 \in Nat
    <3>1. s \ {x} \in SUBSET S
      OBVIOUS
    <3>2. Cardinality(s \ {x}) = Cardinality(s) - 1
      BY <2>6, FS_RemoveElement
    <3>3. Cardinality(s) \in Nat /\ Cardinality(s \ {x}) \in Nat
      BY <1>6, <3>1
    <3> QED BY <2>3, <3>1, <3>2, <3>3
  <2>8. n - 1 \notin Wrong
    BY <2>2, <2>7
  <2>9. it[s \ {x}] = Cardinality(Units(f, s \ {x}))
    BY <2>7, <2>8
  <2>10. Cardinality(Units(f, s)) = f[x].amount + Cardinality(Units(f, s \ {x}))
    BY <2>6, UnitsGrow
  <2> QED BY <2>3, <2>5, <2>9, <2>10
<1>8. it[S] = Cardinality(Units(f, S))
  BY <1>6, <1>7
<1> QED BY <1>1, <1>8

\* Sums are numbers.
LEMMA SumType ==
    ASSUME NEW f, NEW S, IsFiniteSet(S), \A i \in S : f[i].amount \in Nat
    PROVE  Total(f, S) \in Nat
  BY SumIsCount, UnitsFinite, FS_CardinalityType

\* Only the amounts matter.
LEMMA SumSame ==
    ASSUME NEW f, NEW g, NEW S, IsFiniteSet(S),
           \A i \in S : f[i].amount \in Nat /\ g[i].amount = f[i].amount
    PROVE  Total(g, S) = Total(f, S)
<1>1. Units(f, S) = Units(g, S)
  BY DEF Units
<1> QED BY <1>1, SumIsCount

\* A sum that has a summand for each summand of another is no smaller.
LEMMA SumCovers ==
    ASSUME NEW f, NEW S, IsFiniteSet(S), \A s \in S : f[s].amount \in Nat,
           NEW g, NEW I, IsFiniteSet(I), \A i \in I : g[i].amount \in Nat,
           NEW m \in [S -> I], \A s, t \in S : m[s] = m[t] => s = t,
           \A s \in S : g[m[s]].amount = f[s].amount
    PROVE  Total(f, S) <= Total(g, I)
<1> DEFINE U == Units(f, S)
           V == Units(g, I)
           h == [u \in U |-> <<m[u[1]], u[2]>>]
<1>1. ASSUME NEW u \in U
      PROVE  u[1] \in S /\ u[2] \in 1..f[u[1]].amount /\ u = <<u[1], u[2]>>
  BY DEF Units
<1>2. ASSUME NEW u \in U
      PROVE  h[u] \in V
  <2>1. m[u[1]] \in I /\ u[2] \in 1..g[m[u[1]]].amount
    BY <1>1
  <2> QED BY <2>1 DEF Units
<1>3. ASSUME NEW u \in U, NEW v \in U, h[u] = h[v]
      PROVE  u = v
  <2>1. m[u[1]] = m[v[1]] /\ u[2] = v[2]
    BY <1>3
  <2>2. u[1] = v[1]
    BY <1>1, <2>1
  <2> QED BY <1>1, <2>1, <2>2
<1>4. h \in Injection(U, V)
  <2> HIDE DEF U, V
  <2>1. h \in [U -> V]
    BY <1>2
  <2> HIDE DEF h
  <2> QED BY <1>3, <2>1 DEF Injection, IsInjective
<1>5. IsFiniteSet(V)
  BY UnitsFinite
<1> HIDE DEF U, V, h
<1>6. Cardinality(U) <= Cardinality(V)
  BY <1>4, <1>5, FS_Injection
<1> QED BY <1>6, SumIsCount DEF U, V

-----------------------------------------------------------------------------
(* Windows *)

LEMMA EventsTyped ==
    ASSUME NEW es \in Seq(Event)
    PROVE  /\ Len(es) \in Nat /\ DOMAIN es = 1..Len(es) /\ IsFiniteSet(DOMAIN es)
           /\ Cardinality(DOMAIN es) = Len(es)
           /\ \A i \in DOMAIN es : es[i].at \in Nat /\ es[i].amount \in Nat
<1> DEFINE n == Len(es)
<1>1. n \in Nat /\ DOMAIN es = 1..n
  OBVIOUS
<1>2. \A i \in DOMAIN es : es[i] \in Event
  OBVIOUS
<1>3. \A e \in Event : e.at \in Nat /\ e.amount \in Nat
  BY DEF Event
<1> HIDE DEF n
<1>4. IsFiniteSet(1..n) /\ Cardinality(1..n) = n
  BY <1>1, FS_Interval
<1> QED BY <1>1, <1>2, <1>3, <1>4 DEF n

\* pruneLocked drops some events at the front: each too old, or one too many.
LEMMA PruneShape ==
    ASSUME NEW es \in Seq(Event), NEW t \in Nat
    PROVE  \E d \in 0..Len(es) :
              /\ Prune(es, t) = [i \in 1..(Len(es) - d) |-> es[i + d]]
              /\ Len(es) - d <= MaxEvents
              /\ \A i \in 1..d : es[i].at + Day < t \/ i <= Len(es) - MaxEvents
<1> USE VelocityAssumption
<1> DEFINE keep == {i \in DOMAIN es : es[i].at + Day >= t}
           n == Len(es)
<1>1. n \in Nat /\ DOMAIN es = 1..n /\ \A i \in 1..n : es[i].at \in Nat
  BY EventsTyped
<1>2. CASE keep = {}
  <2>1. Prune(es, t) = <<>>
    BY <1>2 DEF Prune
  <2>2. \A i \in 1..n : es[i].at + Day < t
    BY <1>1, <1>2
  <2>3. Prune(es, t) = [i \in 1..(n - n) |-> es[i + n]]
    BY <1>1, <2>1
  <2> QED BY <1>1, <2>2, <2>3
<1>3. CASE keep # {}
  <2> DEFINE m == Min(keep)
             from == Max({m, n - MaxEvents + 1})
  <2>1. keep \subseteq Nat
    BY <1>1
  <2>2. \E x \in keep : \A y \in keep : x <= y
    BY <1>3, <2>1, LeastNumber
  <2>3. m \in keep /\ \A y \in keep : m <= y
    BY <2>2 DEF Min
  <2>4. m \in 1..n /\ n - MaxEvents + 1 \in Int /\ n - MaxEvents + 1 <= n
    BY <1>1, <2>3
  <2>5. \E x \in {m, n - MaxEvents + 1} : \A y \in {m, n - MaxEvents + 1} : x >= y
    BY <2>4
  <2>6. Prune(es, t) = SubSeq(es, from, n)
    BY <1>3 DEF Prune
  <2> HIDE DEF m
  <2>7. from \in {m, n - MaxEvents + 1} /\ from >= m /\ from >= n - MaxEvents + 1
    BY <2>5 DEF Max
  <2> HIDE DEF from
  <2>8. from \in 1..n
    BY <1>1, <2>4, <2>7
  <2> DEFINE d == from - 1
  <2>9. d \in 0..n /\ n - d <= MaxEvents
    BY <1>1, <2>7, <2>8
  <2>10. Prune(es, t) = [i \in 1..(n - d) |-> es[i + d]]
    <3>1. SubSeq(es, from, n) = [i \in 1..(n - from + 1) |-> es[i + from - 1]]
      BY <1>1, <2>8
    <3>2. n - from + 1 = n - d /\ \A i \in 1..(n - d) : i + from - 1 = i + d
      BY <1>1, <2>8
    <3> QED BY <2>6, <3>1, <3>2
  <2>11. ASSUME NEW i \in 1..d
         PROVE  es[i].at + Day < t \/ i <= n - MaxEvents
    <3>1. CASE from = m
      <4>1. i \in 1..n /\ i < m
        BY <1>1, <2>8, <3>1
      <4>2. i \notin keep
        BY <2>3, <4>1, <2>4
      <4> QED BY <1>1, <4>1, <4>2
    <3>2. CASE from = n - MaxEvents + 1
      BY <1>1, <2>8, <3>2
    <3> QED BY <2>7, <3>1, <3>2
  <2> QED BY <2>9, <2>10, <2>11
<1> QED BY <1>2, <1>3

LEMMA PruneType ==
    ASSUME NEW es \in Seq(Event), NEW t \in Nat
    PROVE  Prune(es, t) \in Seq(Event) /\ Len(Prune(es, t)) <= MaxEvents
<1>1. PICK d \in 0..Len(es) :
              /\ Prune(es, t) = [i \in 1..(Len(es) - d) |-> es[i + d]]
              /\ Len(es) - d <= MaxEvents
  BY PruneShape
<1>2. \A i \in 1..(Len(es) - d) : es[i + d] \in Event
  OBVIOUS
<1>3. Len(es) - d \in Nat
  OBVIOUS
<1> QED BY <1>1, <1>2, <1>3

\* The events are no more than the calls they are of.
LEMMA AccountsBound ==
    ASSUME NEW es \in Seq(Event), NEW own, NEW S, NEW c, NEW n, IsFiniteSet(S),
           Accounts(own, es, S, c, n)
    PROVE  Len(es) <= Cardinality(S)
<1>1. own \in Injection(1..Len(es), S)
  BY DEF Accounts, Injection, IsInjective
<1>2. Cardinality(1..Len(es)) <= Cardinality(S)
  BY <1>1, FS_Injection
<1>3. Cardinality(1..Len(es)) = Len(es)
  BY EventsTyped
<1> QED BY <1>2, <1>3

\* A prune at a clock that has been reached keeps the accounts.
LEMMA PruneAccounts ==
    ASSUME NEW es \in Seq(Event), NEW own, NEW S, NEW c, NEW n \in Nat, IsFiniteSet(S),
           Accounts(own, es, S, c, n), NEW t \in Nat, t <= n
    PROVE  \E new : Accounts(new, Prune(es, t), S, c, n)
<1> USE VelocityAssumption
<1>1. PICK d \in 0..Len(es) :
              /\ Prune(es, t) = [i \in 1..(Len(es) - d) |-> es[i + d]]
              /\ Len(es) - d <= MaxEvents
              /\ \A i \in 1..d : es[i].at + Day < t \/ i <= Len(es) - MaxEvents
  BY PruneShape
<1> DEFINE l == Len(es) - d
           ps == [i \in 1..l |-> es[i + d]]
           new == [i \in 1..l |-> own[i + d]]
<1>2. /\ Len(es) \in Nat /\ DOMAIN es = 1..Len(es) /\ l \in Nat /\ d \in Nat
      /\ \A i \in 1..Len(es) : es[i].at \in Nat
  BY EventsTyped
<1>3. /\ \A i \in 1..Len(es) : own[i] \in S
      /\ \A i, j \in 1..Len(es) : own[i] = own[j] => i = j
      /\ \A i \in 1..Len(es) : es[i].at = c[own[i]].velNow /\ es[i].amount = c[own[i]].amount
      /\ Cardinality(S) <= MaxEvents =>
            \A s \in S : c[s].velNow + Day >= n => \E i \in 1..Len(es) : own[i] = s
  BY <1>2 DEF Accounts
<1>4. \A i \in 1..l : i + d \in 1..Len(es)
  BY <1>2
<1>5. new \in [DOMAIN ps -> S]
  BY <1>3, <1>4
<1>6. \A i, j \in DOMAIN ps : new[i] = new[j] => i = j
  <2>1. ASSUME NEW i \in 1..l, NEW j \in 1..l, own[i + d] = own[j + d]
        PROVE  i = j
    <3>1. i + d = j + d
      BY <1>3, <1>4, <2>1
    <3> QED BY <1>2, <3>1
  <2> QED BY <2>1
<1>7. \A i \in DOMAIN ps : ps[i].at = c[new[i]].velNow /\ ps[i].amount = c[new[i]].amount
  BY <1>3, <1>4
<1>8. ASSUME Cardinality(S) <= MaxEvents, NEW s \in S, c[s].velNow + Day >= n
      PROVE  \E i \in DOMAIN ps : new[i] = s
  <2>1. PICK j \in 1..Len(es) : own[j] = s
    BY <1>3, <1>8
  <2>2. Cardinality(S) \in Nat /\ Len(es) <= Cardinality(S)
    BY AccountsBound, FS_CardinalityType
  <2>3. ~(j <= Len(es) - MaxEvents)
    BY <1>2, <1>8, <2>2
  <2>4. es[j].at + Day >= n /\ es[j].at \in Nat
    BY <1>2, <1>3, <1>8, <2>1
  <2>5. ~(es[j].at + Day < t)
    BY <2>4
  <2>6. j \notin 1..d
    BY <1>1, <2>3, <2>5
  <2>7. j - d \in 1..l /\ j - d + d = j
    BY <1>2, <2>6
  <2> QED BY <2>1, <2>7
<1> HIDE DEF new, ps
<1>9. Accounts(new, ps, S, c, n)
  BY <1>5, <1>6, <1>7, <1>8 DEF Accounts
<1> QED BY <1>1, <1>9 DEF ps

\* So does an append for a call that had no event.
LEMMA AppendAccounts ==
    ASSUME NEW es \in Seq(Event), NEW own, NEW S, NEW c, NEW n \in Nat, IsFiniteSet(S),
           Accounts(own, es, S, c, n), NEW r, r \notin S, NEW e \in Event,
           e.at = c[r].velNow, e.amount = c[r].amount
    PROVE  \E new : Accounts(new, Append(es, e), S \cup {r}, c, n)
<1> USE VelocityAssumption
<1> DEFINE l == Len(es)
           xs == Append(es, e)
           T == S \cup {r}
           new == [i \in 1..(l + 1) |-> IF i = l + 1 THEN r ELSE own[i]]
<1>1. l \in Nat /\ DOMAIN es = 1..l /\ DOMAIN xs = 1..(l + 1)
  OBVIOUS
<1>2. xs[l + 1] = e /\ \A i \in 1..l : xs[i] = es[i]
  OBVIOUS
<1>3. /\ \A i \in 1..l : own[i] \in S
      /\ \A i, j \in 1..l : own[i] = own[j] => i = j
      /\ \A i \in 1..l : es[i].at = c[own[i]].velNow /\ es[i].amount = c[own[i]].amount
      /\ Cardinality(S) <= MaxEvents =>
            \A s \in S : c[s].velNow + Day >= n => \E i \in 1..l : own[i] = s
  BY <1>1 DEF Accounts
<1>4. /\ new[l + 1] = r
      /\ \A i \in 1..l : new[i] = own[i]
      /\ \A i \in 1..(l + 1) : i = l + 1 \/ i \in 1..l
      /\ l + 1 \in 1..(l + 1) /\ \A i \in 1..l : i \in 1..(l + 1)
  BY <1>1
<1>5. new \in [1..(l + 1) -> T]
  BY <1>3, <1>4
<1> HIDE DEF new, xs
<1>6. \A i, j \in 1..(l + 1) : new[i] = new[j] => i = j
  BY <1>3, <1>4
<1>7. \A i \in 1..(l + 1) : xs[i].at = c[new[i]].velNow /\ xs[i].amount = c[new[i]].amount
  BY <1>2, <1>3, <1>4
<1>8. ASSUME Cardinality(T) <= MaxEvents, NEW s \in T, c[s].velNow + Day >= n
      PROVE  \E i \in 1..(l + 1) : new[i] = s
  <2>1. Cardinality(T) = Cardinality(S) + 1 /\ Cardinality(S) \in Nat
    BY FS_AddElement, FS_CardinalityType
  <2>2. Cardinality(S) <= MaxEvents
    BY <1>8, <2>1
  <2> QED BY <1>3, <1>4, <1>8, <2>2
<1>9. Accounts(new, xs, T, c, n)
  BY <1>1, <1>5, <1>6, <1>7, <1>8 DEF Accounts
<1> QED BY <1>9 DEF xs

\* Accounts stay good when the clock advances and the calls keep their data.
LEMMA AccountsStay ==
    ASSUME NEW es \in Seq(Event), NEW own, NEW S, NEW c, NEW n \in Nat,
           Accounts(own, es, S, c, n), NEW d, NEW m \in Nat, n <= m,
           \A s \in S : /\ c[s].velNow \in Nat
                        /\ d[s].velNow = c[s].velNow /\ d[s].amount = c[s].amount
    PROVE  Accounts(own, es, S, d, m)
<1> USE VelocityAssumption
<1>1. \A s \in S : d[s].velNow + Day >= m => c[s].velNow + Day >= n
  OBVIOUS
<1>2. \A i \in DOMAIN es : own[i] \in S
  BY DEF Accounts
<1> QED BY <1>1, <1>2 DEF Accounts

\* What lies in the window covers a set of its calls that are within the day.
LEMMA WindowCovers ==
    ASSUME NEW es \in Seq(Event), NEW own, NEW S, NEW c, NEW n \in Nat, IsFiniteSet(S),
           Accounts(own, es, S, c, n), Cardinality(S) <= MaxEvents,
           NEW U, U \subseteq S,
           \A s \in U : c[s].amount \in Nat /\ c[s].velNow + Day >= n,
           NEW I, I \subseteq DOMAIN es,
           \A i \in DOMAIN es : own[i] \in U => i \in I
    PROVE  Total(c, U) <= Total(es, I)
<1> DEFINE at(s) == CHOOSE i \in DOMAIN es : own[i] = s
           m == [s \in U |-> at(s)]
<1>1. ASSUME NEW s \in U
      PROVE  at(s) \in DOMAIN es /\ own[at(s)] = s
  <2>1. \E i \in DOMAIN es : own[i] = s
    BY DEF Accounts
  <2> QED BY <2>1
<1> HIDE DEF at
<1>2. m \in [U -> I] /\ \A s \in U : own[m[s]] = s /\ m[s] \in DOMAIN es
  BY <1>1
<1> HIDE DEF m
<1>3. \A s, t \in U : m[s] = m[t] => s = t
  BY <1>2
<1>4. \A s \in U : es[m[s]].amount = c[s].amount
  BY <1>2 DEF Accounts
<1>5. IsFiniteSet(U)
  BY FS_Subset
<1>6. IsFiniteSet(DOMAIN es)
  BY EventsTyped
<1>7. IsFiniteSet(I)
  BY <1>6, FS_Subset
<1>8. \A i \in I : es[i].amount \in Nat
  BY EventsTyped
<1> QED BY <1>2, <1>3, <1>4, <1>5, <1>7, <1>8, SumCovers

-----------------------------------------------------------------------------
(* What each step does to the calls *)

LEMMA CallTyped ==
    ASSUME TypeOK, NEW r \in Req
    PROVE  /\ call[r] \in Call
           /\ call[r].pc \in Pc /\ call[r].key \in Key \cup {None} /\ call[r].amount \in Nat
           /\ call[r].velNow \in Nat /\ call[r].w \in Req \cup {None}
           /\ call[r].sum1h \in Nat /\ call[r].sum24h \in Nat /\ call[r].before \in SUBSET Req
           /\ call[r].read \in Nat
  BY DEF TypeOK, Call

LEMMA ArriveFacts ==
    ASSUME TypeOK, NEW r \in Req, NEW k \in Key, NEW a \in Amounts, NEW ledger \in BOOLEAN,
           Arrive(r, k, a, ledger)
    PROVE  /\ call[r].pc = "idle"
           /\ call'[r].pc = "lookup" /\ call'[r].key = k /\ call'[r].amount = a
           /\ call'[r].velNow = now /\ call'[r].w = call[r].w
           /\ call'[r].before = {s \in Req : call[s].pc = "proceeded" /\ call[s].key = k}
           /\ \A s \in Req \ {r} : call'[s] = call[s]
           /\ call' \in [Req -> Call]
           /\ UNCHANGED <<now, windows, window>>
<1> USE VelocityAssumption
<1> DEFINE b == {s \in Req : call[s].pc = "proceeded" /\ call[s].key = k}
           c == [call[r] EXCEPT !.pc = "lookup", !.key = k, !.amount = a, !.ledger = ledger,
                                !.velNow = now, !.before = b]
<1>1. call[r].pc = "idle" /\ call' = [call EXCEPT ![r] = c] /\ UNCHANGED <<now, windows, window>>
  BY DEF Arrive
<1>2. call[r] \in Call /\ now \in Nat /\ DOMAIN call = Req /\ call \in [Req -> Call]
  BY DEF TypeOK
<1>3. b \in SUBSET Req /\ a \in Nat /\ "lookup" \in Pc
  BY DEF Pc
<1> HIDE DEF b
<1>4. c \in Call
  BY <1>2, <1>3 DEF Call
<1>5. /\ c.pc = "lookup" /\ c.key = k /\ c.amount = a /\ c.velNow = now /\ c.w = call[r].w
      /\ c.before = b
  BY <1>2 DEF Call
<1> HIDE DEF c
<1>6. call'[r] = c /\ (\A s \in Req \ {r} : call'[s] = call[s]) /\ call' \in [Req -> Call]
  BY <1>1, <1>2, <1>4
<1> QED BY <1>1, <1>5, <1>6 DEF b

LEMMA WindowForFacts ==
    ASSUME TypeOK, NEW r \in Req, call[r].key \in Key, WindowFor(r)
    PROVE  /\ call[r].pc = "lookup" /\ call'[r].pc \in {"decide", "aggregate"}
           /\ call'[r].pc = "decide" => call[r].ledger
           /\ call'[r].ledger = call[r].ledger
           /\ call'[r].w = windows'[call[r].key] /\ windows'[call[r].key] \in Req
           /\ call'[r].key = call[r].key /\ call'[r].velNow = call[r].velNow
           /\ call'[r].before = call[r].before
           /\ \A s \in Req \ {r} : call'[s] = call[s]
           /\ call' \in [Req -> Call]
           /\ now' = now
           /\ \/ windows[call[r].key] # None /\ UNCHANGED <<windows, window>>
              \/ /\ windows[call[r].key] = None
                 /\ windows' = [j \in Key |->
                        IF j = call[r].key THEN r
                        ELSE IF j \in (IF Cardinality(Tracked) >= MaxKeys THEN Idle ELSE {})
                        THEN None ELSE windows[j]]
                 /\ window' = [window EXCEPT ![r] = [events |-> <<>>, last |-> now]]
<1> USE VelocityAssumption
<1> DEFINE k == call[r].key
           p == IF call[r].ledger THEN "decide" ELSE "aggregate"
           w == windows'[k]
           c == [call[r] EXCEPT !.w = w, !.pc = p]
<1>1. /\ call[r].pc = "lookup" /\ now' = now
      /\ \/ windows[k] # None /\ UNCHANGED <<windows, window>>
         \/ /\ windows[k] = None
            /\ windows' = [j \in Key |->
                   IF j = k THEN r
                   ELSE IF j \in (IF Cardinality(Tracked) >= MaxKeys THEN Idle ELSE {})
                   THEN None ELSE windows[j]]
            /\ window' = [window EXCEPT ![r] = [events |-> <<>>, last |-> now]]
  BY DEF WindowFor
<1>2. call[r] \in Call /\ DOMAIN call = Req /\ call \in [Req -> Call]
      /\ windows \in [Key -> Req \cup {None}]
  BY DEF TypeOK
<1>3. w \in Req
  BY <1>1, <1>2
<1>4. p \in Pc /\ p \in {"decide", "aggregate"} /\ (p = "decide" => call[r].ledger)
  BY DEF Pc
<1>5. call' = [call EXCEPT ![r].w = w, ![r].pc = p]
  BY DEF WindowFor
<1> HIDE DEF w, p
<1>6. call' = [call EXCEPT ![r] = c]
  BY <1>2, <1>5 DEF Call
<1>7. c \in Call
  BY <1>2, <1>3, <1>4 DEF Call
<1>8. /\ c.pc = p /\ c.w = w /\ c.key = call[r].key /\ c.velNow = call[r].velNow
      /\ c.before = call[r].before /\ c.ledger = call[r].ledger
  BY <1>2 DEF Call
<1> HIDE DEF c
<1>9. call'[r] = c /\ (\A s \in Req \ {r} : call'[s] = call[s]) /\ call' \in [Req -> Call]
  BY <1>2, <1>6, <1>7
<1> QED BY <1>1, <1>3, <1>4, <1>8, <1>9 DEF w

LEMMA AggregateFacts ==
    ASSUME TypeOK, NEW r \in Req, Aggregate(r)
    PROVE  LET es == Prune(window[call[r].w].events, call[r].velNow)
           IN  /\ call[r].pc = "aggregate" /\ call'[r].pc = "decide" /\ call'[r].read = now
               /\ call'[r].ledger = call[r].ledger
               /\ call'[r].sum1h = SumSince(es, call[r].velNow, Hour)
               /\ call'[r].sum24h = Total(es, DOMAIN es)
               /\ call'[r].w = call[r].w /\ call'[r].key = call[r].key
               /\ call'[r].velNow = call[r].velNow /\ call'[r].before = call[r].before
               /\ call'[r].amount = call[r].amount
               /\ \A s \in Req \ {r} : call'[s] = call[s]
               /\ call' \in [Req -> Call]
               /\ window' = [window EXCEPT ![call[r].w] = [events |-> es, last |-> call[r].velNow]]
               /\ UNCHANGED <<now, windows>>
<1> USE VelocityAssumption
<1> DEFINE es == Prune(window[call[r].w].events, call[r].velNow)
           h == SumSince(es, call[r].velNow, Hour)
           d == Total(es, DOMAIN es)
           c == [call[r] EXCEPT !.pc = "decide", !.read = now, !.sum1h = h, !.sum24h = d]
<1>1. /\ call[r].pc = "aggregate" /\ UNCHANGED <<now, windows>>
      /\ window' = [window EXCEPT ![call[r].w] = [events |-> es, last |-> call[r].velNow]]
      /\ call' = [call EXCEPT ![r].pc = "decide", ![r].read = now, ![r].sum1h = h,
                              ![r].sum24h = d]
  BY DEF Aggregate
<1>2. call[r] \in Call /\ DOMAIN call = Req /\ call \in [Req -> Call] /\ now \in Nat
      /\ call[r].velNow \in Nat
  BY CallTyped DEF TypeOK
<1>3. window[call[r].w].events \in Seq(Event)
  <2>1. call[r].w \in Req
    BY <1>1 DEF TypeOK
  <2>2. window[call[r].w] \in Window
    BY <2>1 DEF TypeOK
  <2> QED BY <2>2 DEF Window
<1>4. es \in Seq(Event)
  BY <1>2, <1>3, PruneType
<1> HIDE DEF es
<1>5. h \in Nat /\ d \in Nat
  <2> DEFINE I == {i \in DOMAIN es : es[i].at + Hour >= call[r].velNow}
  <2>1. IsFiniteSet(DOMAIN es) /\ \A i \in DOMAIN es : es[i].amount \in Nat
    BY <1>4, EventsTyped
  <2>2. IsFiniteSet(I) /\ \A i \in I : es[i].amount \in Nat
    BY <2>1, FS_Subset
  <2>3. h = Total(es, I)
    BY DEF SumSince
  <2> HIDE DEF h, I
  <2> QED BY <2>1, <2>2, <2>3, SumType
<1> HIDE DEF h, d
<1>6. call' = [call EXCEPT ![r] = c]
  BY <1>1, <1>2 DEF Call
<1>7. c \in Call
  <2>1. "decide" \in Pc
    BY DEF Pc
  <2> QED BY <1>2, <1>5, <2>1 DEF Call
<1>8. /\ c.pc = "decide" /\ c.w = call[r].w /\ c.key = call[r].key /\ c.velNow = call[r].velNow
      /\ c.before = call[r].before /\ c.ledger = call[r].ledger /\ c.amount = call[r].amount
      /\ c.read = now /\ c.sum1h = h /\ c.sum24h = d
  BY <1>2 DEF Call
<1> HIDE DEF c
<1>9. call'[r] = c /\ (\A s \in Req \ {r} : call'[s] = call[s]) /\ call' \in [Req -> Call]
  BY <1>2, <1>6, <1>7
<1> QED BY <1>1, <1>8, <1>9 DEF es, h, d

LEMMA DecideFacts ==
    ASSUME TypeOK, NEW r \in Req, NEW proceeds \in BOOLEAN, Decide(r, proceeds)
    PROVE  /\ call[r].pc = "decide"
           /\ \A s \in Req \ {r} : call'[s] = call[s]
           /\ call' \in [Req -> Call]
           /\ UNCHANGED <<now, windows, window>>
           /\ \/ call'[r] = Denied(call[r].key)
              \/ /\ call[r].ledger \/ call[r].sum1h + call[r].amount <= Cap
                 /\ \/ call[r].amount > 0 /\ call'[r] = [call[r] EXCEPT !.pc = "record"]
                    \/ call[r].amount = 0 /\ call'[r] = [call[r] EXCEPT !.pc = "proceeded"]
<1> USE VelocityAssumption
<1>1. call[r] \in Call /\ DOMAIN call = Req /\ call \in [Req -> Call] /\ call[r].amount \in Nat
  BY CallTyped DEF TypeOK
<1>2. call[r].pc = "decide" /\ UNCHANGED <<now, windows, window>>
  BY DEF Decide
<1> DEFINE c == IF proceeds
                THEN [call[r] EXCEPT !.pc = IF call[r].amount > 0 THEN "record" ELSE "proceeded"]
                ELSE Denied(call[r].key)
<1>3. call' = [call EXCEPT ![r] = c]
  BY DEF Decide, Denied
<1>4. c \in Call
  <2>1. "record" \in Pc /\ "proceeded" \in Pc /\ "denied" \in Pc
    BY DEF Pc
  <2>2. Denied(call[r].key) \in Call
    BY <1>1, <2>1 DEF Denied, NoCall, Call
  <2>3. ASSUME NEW p \in Pc PROVE [call[r] EXCEPT !.pc = p] \in Call
    BY <1>1 DEF Call
  <2> QED BY <2>1, <2>2, <2>3
<1>5. \/ c = Denied(call[r].key)
      \/ /\ call[r].ledger \/ call[r].sum1h + call[r].amount <= Cap
         /\ \/ call[r].amount > 0 /\ c = [call[r] EXCEPT !.pc = "record"]
            \/ call[r].amount = 0 /\ c = [call[r] EXCEPT !.pc = "proceeded"]
  <2>1. CASE ~proceeds
    BY <2>1
  <2>2. CASE proceeds
    BY <1>1, <2>2 DEF Decide
  <2> QED BY <2>1, <2>2
<1> HIDE DEF c
<1>6. call'[r] = c /\ (\A s \in Req \ {r} : call'[s] = call[s]) /\ call' \in [Req -> Call]
  BY <1>1, <1>3, <1>4
<1> QED BY <1>2, <1>5, <1>6

LEMMA RecordFacts ==
    ASSUME TypeOK, NEW r \in Req, Record(r)
    PROVE  /\ call[r].pc = "record"
           /\ call'[r] = [call[r] EXCEPT !.pc = "proceeded"]
           /\ \A s \in Req \ {r} : call'[s] = call[s]
           /\ call' \in [Req -> Call]
           /\ window' = [window EXCEPT ![call[r].w] =
                 [events |-> Prune(Append(window[call[r].w].events,
                                          [at |-> call[r].velNow, amount |-> call[r].amount]),
                                   call[r].velNow),
                  last |-> call[r].velNow]]
           /\ UNCHANGED <<now, windows>>
<1> DEFINE c == [call[r] EXCEPT !.pc = "proceeded"]
<1>1. call[r] \in Call /\ DOMAIN call = Req /\ call \in [Req -> Call]
  BY CallTyped DEF TypeOK
<1>2. c \in Call
  BY <1>1 DEF Call, Pc
<1>3. call' = [call EXCEPT ![r] = c]
  BY DEF Record
<1> HIDE DEF c
<1>4. call'[r] = c /\ (\A s \in Req \ {r} : call'[s] = call[s]) /\ call' \in [Req -> Call]
  BY <1>1, <1>2, <1>3
<1> QED BY <1>4 DEF Record, c

\* A step that only moves a call on.
LEMMA PcOnly ==
    ASSUME NEW c \in Call, NEW p
    PROVE  LET d == [c EXCEPT !.pc = p]
           IN  /\ d.pc = p /\ d.key = c.key /\ d.amount = c.amount /\ d.ledger = c.ledger
               /\ d.velNow = c.velNow /\ d.w = c.w /\ d.sum1h = c.sum1h /\ d.sum24h = c.sum24h
               /\ d.before = c.before /\ d.read = c.read
  BY DEF Call

LEMMA DeniedFields ==
    ASSUME NEW k
    PROVE  LET d == Denied(k)
           IN  /\ d.pc = "denied" /\ d.w = None /\ d.velNow = 0 /\ d.before = {}
               /\ d.amount = 0 /\ d.key = k
  BY DEF Denied, NoCall

\* The five steps of a call, the clock, or nothing.
LEMMA StepKinds ==
    ASSUME [Next]_vars
    PROVE  \/ \E r \in Req, k \in Key, a \in Amounts, ledger \in BOOLEAN : Arrive(r, k, a, ledger)
           \/ \E r \in Req : WindowFor(r)
           \/ \E r \in Req : Aggregate(r)
           \/ \E r \in Req, proceeds \in BOOLEAN : Decide(r, proceeds)
           \/ \E r \in Req : Record(r)
           \/ Tick
           \/ UNCHANGED vars
  BY DEF Next

LEMMA LookupHasKey ==
    ASSUME VelInv, NEW r \in Req, WindowFor(r)
    PROVE  call[r].key \in Key
  BY DEF VelInv, PastInv, WindowFor

\* An answer is final.
LEMMA ProceededStays ==
    ASSUME VelInv, [Next]_vars, NEW s \in Req, call[s].pc = "proceeded"
    PROVE  call'[s] = call[s]
<1> USE DEF VelInv
<1>1. ASSUME NEW r \in Req, NEW k \in Key, NEW a \in Amounts, NEW ledger \in BOOLEAN,
             Arrive(r, k, a, ledger)
      PROVE  call'[s] = call[s]
  BY <1>1, ArriveFacts
<1>2. ASSUME NEW r \in Req, WindowFor(r)
      PROVE  call'[s] = call[s]
  BY <1>2, WindowForFacts, LookupHasKey
<1>3. ASSUME NEW r \in Req, Aggregate(r)
      PROVE  call'[s] = call[s]
  BY <1>3, AggregateFacts
<1>4. ASSUME NEW r \in Req, NEW proceeds \in BOOLEAN, Decide(r, proceeds)
      PROVE  call'[s] = call[s]
  BY <1>4, DecideFacts
<1>5. ASSUME NEW r \in Req, Record(r)
      PROVE  call'[s] = call[s]
  BY <1>5, RecordFacts
<1>6. ASSUME Tick \/ UNCHANGED vars
      PROVE  call'[s] = call[s]
  BY <1>6 DEF Tick, vars
<1> QED BY <1>1, <1>2, <1>3, <1>4, <1>5, <1>6, StepKinds

\* Only finitely many calls have been made.
LEMMA SpendersFinite ==
    ASSUME PastInv, NEW S, S \subseteq Spenders
    PROVE  IsFiniteSet(S)
<1>1. S \in SUBSET {r \in Req : call[r].pc # "idle"}
  BY DEF Spenders
<1> QED BY <1>1, FS_Subset DEF PastInv

\* What was answered before a call arrived does not change any more, and its
\* window does not become less full.
LEMMA ReadStays ==
    ASSUME VelInv, [Next]_vars, PastInv', NEW r \in Req, NEW span \in Nat,
           call'[r].w = call[r].w, call'[r].before = call[r].before, call'[r].read = call[r].read
    PROVE  /\ NotFull(r)' => NotFull(r)
           /\ SpentIn(r, span)' = SpentIn(r, span)
<1> USE VelocityAssumption
<1> DEFINE w == call[r].w
           B == {s \in Spenders \cap call[r].before :
                    call[s].w = call[r].w /\ call[s].velNow + span >= call[r].read}
           C == {s \in Spenders' \cap call'[r].before :
                    call'[s].w = call'[r].w /\ call'[s].velNow + span >= call'[r].read}
<1>1. \A s \in Spenders : s \in Spenders' /\ call'[s] = call[s]
  BY ProceededStays DEF Spenders
<1>2. NotFull(r)' => NotFull(r)
  <2> DEFINE S == SpendersIn(w)
             T == {s \in Spenders' : call'[s].w = call'[r].w}
  <2>1. S \subseteq T
    BY <1>1 DEF SpendersIn
  <2>3. IsFiniteSet(T)
    <3>1. T \in SUBSET {q \in Req : call'[q].pc # "idle"}
      BY DEF Spenders
    <3>2. IsFiniteSet({q \in Req : call'[q].pc # "idle"})
      BY DEF PastInv
    <3> QED BY <3>1, <3>2, FS_Subset
  <2>4. IsFiniteSet(S) /\ Cardinality(S) <= Cardinality(T)
    BY <2>1, <2>3, FS_Subset
  <2>5. Cardinality(S) \in Nat /\ Cardinality(T) \in Nat
    BY <2>3, <2>4, FS_CardinalityType
  <2>6. NotFull(r)' <=> (Cardinality(T) <= MaxEvents)
    BY DEF NotFull
  <2>7. NotFull(r) <=> (Cardinality(S) <= MaxEvents)
    BY DEF NotFull, SpendersIn
  <2> HIDE DEF S, T
  <2> QED BY <2>4, <2>5, <2>6, <2>7
<1>3. \A s \in call[r].before : s \in Req /\ call[s].pc = "proceeded" /\ call'[s] = call[s]
  <2>1. \A s \in call[r].before : s \in Req /\ call[s].pc = "proceeded"
    BY CallTyped DEF VelInv, PastInv
  <2> QED BY <2>1, ProceededStays
<1>4. C = B
  BY <1>3 DEF Spenders
<1>5. SpentIn(r, span) = Total(call, B)
  BY DEF SpentIn, Spent
<1>6. SpentIn(r, span)' = Total(call', C)
  BY DEF SpentIn, Spent
<1>7. IsFiniteSet(B)
  <2>1. B \subseteq Spenders
    OBVIOUS
  <2> HIDE DEF B
  <2> QED BY <2>1, SpendersFinite DEF VelInv
<1>8. \A s \in B : call[s].amount \in Nat /\ call'[s].amount = call[s].amount
  BY <1>3, CallTyped DEF VelInv
<1> HIDE DEF B, C
<1>9. Total(call', B) = Total(call, B)
  BY <1>7, <1>8, SumSame
<1> QED BY <1>2, <1>4, <1>5, <1>6, <1>9

-----------------------------------------------------------------------------
(* The invariant, action by action *)

LEMMA WindowTyped ==
    ASSUME TypeOK, NEW w \in Req
    PROVE  /\ window[w] \in Window /\ window[w].events \in Seq(Event) /\ window[w].last \in Nat
  BY DEF TypeOK, Window

\* A window that nothing was put into or taken out of.
LEMMA WindowStays ==
    ASSUME VelInv, [Next]_vars, NEW w \in Req, window'[w].events = window[w].events,
           SpendersIn(w)' = SpendersIn(w), now' \in Nat, now <= now'
    PROVE  \E own \in [DOMAIN window'[w].events -> SpendersIn(w)'] :
              Accounts(own, window'[w].events, SpendersIn(w)', call', now')
<1> DEFINE es == window[w].events
           S == SpendersIn(w)
<1>1. PICK own \in [DOMAIN es -> S] : Accounts(own, es, S, call, now)
  BY DEF VelInv, WindowInv
<1>2. \A s \in S : /\ call[s].velNow \in Nat
                   /\ call'[s].velNow = call[s].velNow /\ call'[s].amount = call[s].amount
  <2>1. \A s \in S : s \in Req /\ call[s].pc = "proceeded"
    BY DEF SpendersIn, Spenders
  <2> QED BY <2>1, CallTyped, ProceededStays DEF VelInv
<1>3. es \in Seq(Event) /\ now \in Nat
  BY WindowTyped DEF VelInv, TypeOK
<1> HIDE DEF es, S
<1>4. Accounts(own, es, S, call', now')
  BY <1>1, <1>2, <1>3, AccountsStay
<1> QED BY <1>1, <1>4 DEF es, S

\* A call that has read and keeps what it read.
LEMMA ReadKept ==
    ASSUME VelInv, [Next]_vars, PastInv', NEW r \in Req, HasRead(r), now' \in Nat, now <= now',
           call'[r].w = call[r].w, call'[r].before = call[r].before, call'[r].read = call[r].read,
           call'[r].sum1h = call[r].sum1h, call'[r].sum24h = call[r].sum24h,
           call'[r].pc # "decide" => call'[r].amount + call'[r].sum1h <= Cap
    PROVE  ReadOK(r)'
<1> USE VelocityAssumption
<1>1. ReadOK(r)
  BY DEF VelInv, ReadInv
<1>2. NotFull(r)' => NotFull(r)
  BY ReadStays
<1>3. SpentIn(r, Hour)' = SpentIn(r, Hour)
  BY ReadStays
<1>4. SpentIn(r, Day)' = SpentIn(r, Day)
  BY ReadStays
<1>5. call[r].read \in Nat /\ now \in Nat
  BY CallTyped DEF VelInv, TypeOK
<1> QED BY <1>1, <1>2, <1>3, <1>4, <1>5 DEF ReadOK

\* One more call makes no infinity of calls.
LEMMA CallsStayFinite ==
    ASSUME PastInv, NEW r \in Req, \A s \in Req \ {r} : call'[s] = call[s]
    PROVE  IsFiniteSet({s \in Req : call'[s].pc # "idle"})
<1> DEFINE A == {s \in Req : call[s].pc # "idle"}
           B == {s \in Req : call'[s].pc # "idle"}
<1>1. IsFiniteSet(A)
  BY DEF PastInv
<1>2. B \in SUBSET (A \cup {r})
  OBVIOUS
<1> HIDE DEF A, B
<1>3. IsFiniteSet(A \cup {r})
  BY <1>1, FS_AddElement
<1>4. IsFiniteSet(B)
  BY <1>2, <1>3, FS_Subset
<1> QED BY <1>4 DEF B

\* No key is forgotten, and keys that fit now have always fitted.
LEMMA SeenGrows ==
    ASSUME VelInv, PastInv', call' \in [Req -> Call],
           \A s \in Req : call[s].pc # "idle" => call'[s].pc # "idle" /\ call'[s].key = call[s].key
    PROVE  /\ Seen \subseteq Seen' /\ (KeysFit' => KeysFit)
           /\ IsFiniteSet(Seen) /\ (KeysFit => Cardinality(Seen) <= MaxKeys)
<1> USE VelocityAssumption
<1>1. Seen \subseteq Seen'
  <2>1. SUFFICES ASSUME NEW k \in Seen PROVE k \in Seen'
    OBVIOUS
  <2>2. PICK s \in Req : call[s].pc # "idle" /\ call[s].key = k
    BY DEF Seen
  <2>3. call'[s].pc # "idle" /\ call'[s].key = k
    BY <2>2
  <2> QED BY <2>3 DEF Seen
<1>2. IsFiniteSet(Seen')
  <2> DEFINE A == {s \in Req : call'[s].pc # "idle"}
             T == {call'[s].key : s \in A}
             g == [s \in A |-> call'[s].key]
  <2>1. IsFiniteSet(A)
    BY DEF PastInv
  <2>2. T = Seen'
    BY DEF Seen
  <2>3. g \in Surjection(A, T)
    BY DEF Surjection
  <2> HIDE DEF A, T, g
  <2>4. IsFiniteSet(T)
    BY <2>1, <2>3, FS_Surjection
  <2> QED BY <2>2, <2>4
<1>3. /\ IsFiniteSet(Seen) /\ Cardinality(Seen) <= Cardinality(Seen')
      /\ Cardinality(Seen) \in Nat /\ Cardinality(Seen') \in Nat
  BY <1>1, <1>2, FS_Subset, FS_CardinalityType
<1>4. (KeysFit' <=> Cardinality(Seen') <= MaxKeys) /\ (KeysFit <=> Cardinality(Seen) <= MaxKeys)
  BY DEF KeysFit, Seen
<1> QED BY <1>1, <1>3, <1>4

\* A step that moves no window of a call or a key.
LEMMA FitStays ==
    ASSUME VelInv, PastInv', call' \in [Req -> Call], windows' = windows,
           \A s \in Req : call[s].pc # "idle" => call'[s].pc # "idle" /\ call'[s].key = call[s].key,
           \A s \in Req : call'[s].w \in Req => call'[s].w = call[s].w /\ call'[s].key = call[s].key
    PROVE  FitInv'
<1>1. Seen \subseteq Seen' /\ (KeysFit' => KeysFit)
  BY SeenGrows
<1> QED BY <1>1 DEF VelInv, FitInv

LEMMA StepArrive ==
    ASSUME VelInv, [Next]_vars, NEW r \in Req, NEW k \in Key, NEW a \in Amounts,
           NEW ledger \in BOOLEAN, Arrive(r, k, a, ledger)
    PROVE  VelInv'
<1> USE VelocityAssumption
<1>1. /\ call[r].pc = "idle"
      /\ call'[r].pc = "lookup" /\ call'[r].key = k /\ call'[r].amount = a
      /\ call'[r].velNow = now /\ call'[r].w = call[r].w
      /\ call'[r].before = {s \in Req : call[s].pc = "proceeded" /\ call[s].key = k}
      /\ \A s \in Req \ {r} : call'[s] = call[s]
      /\ call' \in [Req -> Call]
      /\ UNCHANGED <<now, windows, window>>
  BY ArriveFacts DEF VelInv
<1>2. TypeOK' /\ now \in Nat
  BY <1>1 DEF VelInv, TypeOK
<1>3. call[r].w = None /\ call[r].w \notin Req
  BY <1>1 DEF VelInv, PastInv
<1>4. HeldInv'
  BY <1>1, <1>3 DEF VelInv, HeldInv, Looked
<1>5. PastInv'
  <2>1. IsFiniteSet({s \in Req : call'[s].pc # "idle"})
    BY <1>1, CallsStayFinite DEF VelInv
  <2>2. ASSUME NEW q \in Req
        PROVE  /\ call'[q].velNow <= now'
               /\ call'[q].pc \in {"idle", "denied"} => call'[q].w = None
               /\ call'[q].pc # "idle" => call'[q].key \in Key
               /\ call'[q].pc = "record" => call'[q].amount > 0
               /\ \A s \in call'[q].before : call'[s].pc = "proceeded" /\ call'[s].key = call'[q].key
    <3>1. CASE q = r
      BY <1>1, <1>2, <3>1
    <3>2. CASE q # r
      <4>1. call'[q] = call[q]
        BY <1>1, <3>2
      <4>2. \A s \in call[q].before : s \in Req /\ call[s].pc = "proceeded" /\ call'[s] = call[s]
        BY <1>1, CallTyped DEF VelInv, PastInv
      <4> QED BY <1>1, <4>1, <4>2 DEF VelInv, PastInv
    <3> QED BY <3>1, <3>2
  <2> QED BY <2>1, <2>2 DEF PastInv
<1>6. Spenders' = Spenders /\ \A w \in Req : SpendersIn(w)' = SpendersIn(w)
  BY <1>1 DEF Spenders, SpendersIn
<1>7. WindowInv'
  BY <1>1, <1>2, <1>6, WindowStays DEF WindowInv
<1>8. ReadInv'
  <2>1. SUFFICES ASSUME NEW q \in Req, HasRead(q)' PROVE ReadOK(q)'
    BY DEF ReadInv
  <2>2. call'[q] = call[q]
    BY <1>1, <2>1 DEF HasRead
  <2>3. HasRead(q)
    BY <2>1, <2>2 DEF HasRead
  <2> QED BY <1>1, <1>2, <1>5, <2>2, <2>3, ReadKept DEF VelInv, ReadInv, ReadOK
<1>9. FitInv'
  BY <1>1, <1>3, <1>5, FitStays
<1> QED BY <1>2, <1>4, <1>5, <1>7, <1>8, <1>9 DEF VelInv

\* A step of a call that has arrived, seen by the others.
LEMMA PastKept ==
    ASSUME VelInv, [Next]_vars, NEW r \in Req, \A s \in Req \ {r} : call'[s] = call[s],
           now' = now, call[r].pc \notin {"idle", "denied"}, call'[r].pc # "idle",
           call'[r].pc = "record" => call'[r].amount > 0,
           \/ /\ call'[r].velNow = call[r].velNow /\ call'[r].before = call[r].before
              /\ call'[r].key = call[r].key /\ call'[r].pc # "denied"
           \/ call'[r] = Denied(call[r].key)
    PROVE  PastInv'
<1>1. IsFiniteSet({s \in Req : call'[s].pc # "idle"})
  BY CallsStayFinite DEF VelInv
<1>2. ASSUME NEW q \in Req
      PROVE  /\ call'[q].velNow <= now'
             /\ call'[q].pc \in {"idle", "denied"} => call'[q].w = None
             /\ call'[q].pc # "idle" => call'[q].key \in Key
             /\ call'[q].pc = "record" => call'[q].amount > 0
             /\ \A s \in call'[q].before : call'[s].pc = "proceeded" /\ call'[s].key = call'[q].key
  <2>1. \A s \in call[q].before : s \in Req /\ call[s].pc = "proceeded" /\ call'[s] = call[s]
    <3>1. \A s \in call[q].before : s \in Req /\ call[s].pc = "proceeded"
      BY CallTyped DEF VelInv, PastInv
    <3> QED BY <3>1, ProceededStays
  <2>2. now \in Nat
    BY DEF VelInv, TypeOK
  <2>3. CASE q = r /\ call'[r] = Denied(call[r].key)
    <3>1. call[r].key \in Key
      BY DEF VelInv, PastInv
    <3> QED BY <2>2, <2>3, <3>1, DeniedFields
  <2>4. CASE q # r
    BY <2>1, <2>4 DEF VelInv, PastInv
  <2>5. CASE q = r /\ /\ call'[r].velNow = call[r].velNow /\ call'[r].before = call[r].before
                      /\ call'[r].key = call[r].key /\ call'[r].pc # "denied"
    BY <2>1, <2>5 DEF VelInv, PastInv
  <2> QED BY <2>3, <2>4, <2>5
<1> QED BY <1>1, <1>2 DEF PastInv

LEMMA StepWindowFor ==
    ASSUME VelInv, [Next]_vars, NEW r \in Req, WindowFor(r)
    PROVE  VelInv'
<1> USE VelocityAssumption
<1> DEFINE k == call[r].key
           fresh == [events |-> <<>>, last |-> now]
<1>1. k \in Key
  BY LookupHasKey
<1>2. /\ call[r].pc = "lookup" /\ call'[r].pc \in {"decide", "aggregate"}
      /\ call'[r].pc = "decide" => call[r].ledger
      /\ call'[r].ledger = call[r].ledger
      /\ call'[r].w = windows'[k] /\ windows'[k] \in Req
      /\ call'[r].key = k /\ call'[r].velNow = call[r].velNow
      /\ call'[r].before = call[r].before
      /\ \A s \in Req \ {r} : call'[s] = call[s]
      /\ call' \in [Req -> Call]
      /\ now' = now
  BY <1>1, WindowForFacts DEF VelInv
<1>3. \/ windows[k] # None /\ UNCHANGED <<windows, window>>
      \/ /\ windows[k] = None
         /\ windows' = [j \in Key |->
                IF j = k THEN r
                ELSE IF j \in (IF Cardinality(Tracked) >= MaxKeys THEN Idle ELSE {})
                THEN None ELSE windows[j]]
         /\ window' = [window EXCEPT ![r] = fresh]
  BY <1>1, WindowForFacts DEF VelInv
<1>4. now \in Nat /\ windows \in [Key -> Req \cup {None}] /\ window \in [Req -> Window]
  BY DEF VelInv, TypeOK
<1>5. fresh \in Window /\ fresh.events = <<>> /\ Len(fresh.events) = 0
  BY <1>4 DEF Window
<1> HIDE DEF fresh
<1>6. /\ windows' \in [Key -> Req \cup {None}]
      /\ \A j \in Key \ {k} : windows'[j] \in {windows[j], None}
      /\ windows'[k] \in {windows[k], r}
  BY <1>1, <1>3, <1>4
<1>7. /\ window' \in [Req -> Window]
      /\ \A w \in Req : window'[w] = window[w] \/ (w = r /\ window'[w] = fresh)
  <2>1. CASE window' = window
    BY <1>4, <2>1
  <2>2. CASE window' = [window EXCEPT ![r] = fresh]
    BY <1>4, <1>5, <2>2
  <2> QED BY <1>3, <2>1, <2>2
<1>8. TypeOK'
  <2>1. \A w \in Req : Len(window'[w].events) <= MaxEvents
    BY <1>5, <1>7 DEF VelInv, TypeOK
  <2>2. \A s \in Req : call'[s].pc \notin {"idle", "lookup", "denied"} => call'[s].w \in Req
    BY <1>2 DEF VelInv, TypeOK
  <2> QED BY <1>2, <1>4, <1>6, <1>7, <2>1, <2>2 DEF TypeOK
<1>9. \A w \in Req : call[w].pc \notin {"idle", "lookup"} => call'[w].pc \notin {"idle", "lookup"}
  BY <1>2
<1>10. call'[r].pc \notin {"idle", "lookup"}
  BY <1>2
<1>11. HeldInv'
  <2>1. ASSUME NEW j \in Key, windows'[j] \in Req
        PROVE  call'[windows'[j]].pc \notin {"idle", "lookup"}
    <3>1. windows'[j] \in {windows[j], r}
      BY <1>6, <2>1
    <3>2. CASE windows'[j] = r
      BY <1>10, <3>2
    <3>3. CASE windows'[j] = windows[j]
      <4>1. call[windows[j]].pc \notin {"idle", "lookup"}
        BY <2>1, <3>3 DEF VelInv, HeldInv, Looked
      <4> QED BY <1>9, <2>1, <3>3, <4>1
    <3> QED BY <3>1, <3>2, <3>3
  <2>2. ASSUME NEW s \in Req, call'[s].w \in Req
        PROVE  call'[call'[s].w].pc \notin {"idle", "lookup"}
    <3>1. CASE s = r
      <4>1. windows'[k] \in Req /\ call'[s].w = windows'[k]
        BY <1>2, <3>1
      <4> HIDE DEF k
      <4> QED BY <1>1, <2>1, <4>1
    <3>2. CASE s # r
      <4>1. call'[s].w = call[s].w
        BY <1>2, <3>2
      <4>2. call[call[s].w].pc \notin {"idle", "lookup"}
        BY <2>2, <4>1 DEF VelInv, HeldInv, Looked
      <4> QED BY <1>9, <2>2, <4>1, <4>2
    <3> QED BY <3>1, <3>2
  <2> QED BY <2>1, <2>2 DEF HeldInv, Looked
<1>12. PastInv'
  BY <1>2, PastKept
<1>13. \A w \in Req : SpendersIn(w)' = SpendersIn(w)
  BY <1>2 DEF Spenders, SpendersIn
<1>14. SpendersIn(r) = {}
  BY <1>2 DEF VelInv, HeldInv, Looked, SpendersIn, Spenders
<1>15. WindowInv'
  <2>1. SUFFICES ASSUME NEW w \in Req
                 PROVE  \E own \in [DOMAIN window'[w].events -> SpendersIn(w)'] :
                           Accounts(own, window'[w].events, SpendersIn(w)', call', now')
    BY DEF WindowInv
  <2>2. CASE window'[w] = window[w]
    BY <1>2, <1>4, <1>13, <2>2, WindowStays
  <2>3. CASE w = r /\ window'[w] = fresh
    <3> DEFINE es == window'[w].events
               S == SpendersIn(w)'
    <3>1. es = <<>> /\ S = {}
      BY <1>5, <1>13, <1>14, <2>3
    <3> HIDE DEF es, S
    <3>2. DOMAIN es = {}
      BY <3>1
    <3> DEFINE own == [i \in {} |-> r]
    <3>3. own \in [DOMAIN es -> S]
      BY <3>1, <3>2
    <3> HIDE DEF own
    <3>4. Accounts(own, es, S, call', now')
      BY <3>1, <3>2, <3>3 DEF Accounts
    <3> QED BY <3>3, <3>4 DEF es, S
  <2> QED BY <1>7, <2>2, <2>3
<1>16. ReadInv'
  <2>1. SUFFICES ASSUME NEW q \in Req, HasRead(q)' PROVE ReadOK(q)'
    BY DEF ReadInv
  <2>2. call'[q] = call[q]
    BY <1>2, <2>1 DEF HasRead
  <2>3. HasRead(q)
    BY <2>1, <2>2 DEF HasRead
  <2> QED BY <1>2, <1>4, <1>12, <2>2, <2>3, ReadKept DEF VelInv, ReadInv, ReadOK
<1>17. FitInv'
  <2>1. /\ Seen \subseteq Seen' /\ (KeysFit' => KeysFit)
        /\ IsFiniteSet(Seen) /\ (KeysFit => Cardinality(Seen) <= MaxKeys)
    <3>1. \A s \in Req : call[s].pc # "idle" => call'[s].pc # "idle" /\ call'[s].key = call[s].key
      BY <1>2
    <3> QED BY <1>2, <1>12, <3>1, SeenGrows
  <2>2. k \in Seen
    BY <1>2 DEF Seen
  <2>3. \A j \in Key : windows'[j] # None => j \in Seen'
    <3>1. \A j \in Key : windows[j] # None => j \in Seen
      BY DEF VelInv, FitInv
    <3> HIDE DEF k
    <3> QED BY <1>6, <2>1, <2>2, <3>1
  <2>4. ASSUME KeysFit, NEW s \in Req, call'[s].w \in Req
        PROVE  windows'[call'[s].key] = call'[s].w
    <3>1. CASE s = r
      BY <1>2, <3>1
    <3>2. CASE s # r
      <4>1. call'[s] = call[s] /\ windows[call[s].key] = call[s].w /\ call[s].w \in Req
        BY <1>2, <2>4, <3>2 DEF VelInv, FitInv
      <4>2. call[s].key \in Key
        BY <4>1 DEF VelInv, PastInv
      <4>3. CASE windows[k] # None
        BY <1>3, <4>1, <4>3
      <4>4. CASE windows[k] = None
        <5>1. Tracked \in SUBSET (Seen \ {k})
          BY <4>4 DEF Tracked, VelInv, FitInv
        <5>2. /\ IsFiniteSet(Seen \ {k}) /\ Cardinality(Seen \ {k}) = Cardinality(Seen) - 1
              /\ Cardinality(Seen) \in Nat
          <6> HIDE DEF k
          <6> QED BY <2>1, <2>2, FS_RemoveElement, FS_CardinalityType
        <5>3. Cardinality(Tracked) <= Cardinality(Seen \ {k}) /\ Cardinality(Tracked) \in Nat
          BY <5>1, <5>2, FS_Subset, FS_CardinalityType
        <5>4. ~(Cardinality(Tracked) >= MaxKeys)
          BY <2>1, <2>4, <5>2, <5>3
        <5>5. call[s].key # k
          BY <4>1, <4>4
        <5>6. windows'[call[s].key] = windows[call[s].key]
          BY <1>3, <4>2, <4>4, <5>4, <5>5
        <5> QED BY <4>1, <5>6
      <4> QED BY <4>3, <4>4
    <3> QED BY <3>1, <3>2
  <2> QED BY <2>1, <2>3, <2>4 DEF FitInv
<1> QED BY <1>8, <1>11, <1>12, <1>15, <1>16, <1>17 DEF VelInv

LEMMA StepAggregate ==
    ASSUME VelInv, [Next]_vars, NEW r \in Req, Aggregate(r)
    PROVE  VelInv'
<1> USE VelocityAssumption
<1> DEFINE v == call[r].w
           t == call[r].velNow
           es == Prune(window[v].events, t)
           filled == [events |-> es, last |-> t]
<1>1. /\ call[r].pc = "aggregate" /\ call'[r].pc = "decide" /\ call'[r].read = now
      /\ call'[r].ledger = call[r].ledger
      /\ call'[r].sum1h = SumSince(es, t, Hour)
      /\ call'[r].sum24h = Total(es, DOMAIN es)
      /\ call'[r].w = v /\ call'[r].key = call[r].key
      /\ call'[r].velNow = t /\ call'[r].before = call[r].before
      /\ call'[r].amount = call[r].amount
      /\ \A s \in Req \ {r} : call'[s] = call[s]
      /\ call' \in [Req -> Call]
      /\ window' = [window EXCEPT ![v] = filled]
      /\ UNCHANGED <<now, windows>>
  BY AggregateFacts DEF VelInv
<1>2. /\ v \in Req /\ now \in Nat /\ t \in Nat /\ t <= now /\ window \in [Req -> Window]
      /\ call[r].before \in SUBSET Req
  BY <1>1, CallTyped DEF VelInv, TypeOK, PastInv
<1>3. window[v].events \in Seq(Event)
  BY <1>2, WindowTyped DEF VelInv
<1>4. es \in Seq(Event) /\ Len(es) <= MaxEvents
  BY <1>2, <1>3, PruneType
<1>5. PICK own : Accounts(own, es, SpendersIn(v), call, now)
  <2>1. PICK old \in [DOMAIN window[v].events -> SpendersIn(v)] :
                Accounts(old, window[v].events, SpendersIn(v), call, now)
    BY <1>2 DEF VelInv, WindowInv
  <2>2. IsFiniteSet(SpendersIn(v))
    <3>1. SpendersIn(v) \subseteq Spenders
      BY DEF SpendersIn
    <3> QED BY <3>1, SpendersFinite DEF VelInv
  <2> QED BY <1>2, <1>3, <2>1, <2>2, PruneAccounts
<1> HIDE DEF es
<1>6. filled \in Window /\ filled.events = es
  BY <1>2, <1>4 DEF Window
<1> HIDE DEF filled
<1>7. /\ window' \in [Req -> Window] /\ window'[v].events = es
      /\ \A w \in Req \ {v} : window'[w] = window[w]
  BY <1>1, <1>2, <1>6
<1>8. TypeOK'
  <2>1. \A w \in Req : Len(window'[w].events) <= MaxEvents
    BY <1>2, <1>4, <1>7 DEF VelInv, TypeOK
  <2>2. \A s \in Req : call'[s].pc \notin {"idle", "lookup", "denied"} => call'[s].w \in Req
    BY <1>1, <1>2 DEF VelInv, TypeOK
  <2>3. now' \in Nat /\ windows' \in [Key -> Req \cup {None}]
    BY <1>1 DEF VelInv, TypeOK
  <2> QED BY <1>1, <1>7, <2>1, <2>2, <2>3 DEF TypeOK
<1>9. HeldInv'
  BY <1>1 DEF VelInv, HeldInv, Looked
<1>10. PastInv'
  BY <1>1, PastKept
<1>11. Spenders' = Spenders /\ \A w \in Req : SpendersIn(w)' = SpendersIn(w)
  BY <1>1 DEF Spenders, SpendersIn
<1>12. \A s \in Spenders : s \in Req /\ s # r /\ call'[s] = call[s] /\ call[s].velNow \in Nat
                           /\ call[s].amount \in Nat
  BY <1>1, CallTyped DEF Spenders, VelInv
<1>13. WindowInv'
  <2>1. SUFFICES ASSUME NEW w \in Req
                 PROVE  \E new \in [DOMAIN window'[w].events -> SpendersIn(w)'] :
                           Accounts(new, window'[w].events, SpendersIn(w)', call', now')
    BY DEF WindowInv
  <2>2. CASE w # v
    BY <1>1, <1>2, <1>7, <1>11, <2>2, WindowStays
  <2>3. CASE w = v
    <3>1. \A s \in SpendersIn(v) : /\ call[s].velNow \in Nat
                                   /\ call'[s].velNow = call[s].velNow
                                   /\ call'[s].amount = call[s].amount
      BY <1>12 DEF SpendersIn
    <3>2. now <= now
      BY <1>2
    <3>3. Accounts(own, es, SpendersIn(v), call', now)
      BY <1>2, <1>4, <1>5, <3>1, <3>2, AccountsStay
    <3>4. own \in [DOMAIN es -> SpendersIn(v)]
      BY <1>5 DEF Accounts
    <3>5. window'[w].events = es /\ SpendersIn(w)' = SpendersIn(v) /\ now' = now
      BY <1>1, <1>2, <1>7, <1>11, <2>3
    <3> QED BY <3>3, <3>4, <3>5
  <2> QED BY <2>2, <2>3
<1>14. ReadInv'
  <2>1. SUFFICES ASSUME NEW q \in Req, HasRead(q)' PROVE ReadOK(q)'
    BY DEF ReadInv
  <2>2. CASE q # r
    <3>1. call'[q] = call[q]
      BY <1>1, <2>2
    <3>2. HasRead(q)
      BY <2>1, <3>1 DEF HasRead
    <3> QED BY <1>1, <1>2, <1>10, <3>1, <3>2, ReadKept DEF VelInv, ReadInv, ReadOK
  <2>3. CASE q = r
    <3> DEFINE S == SpendersIn(v)
    <3>1. IsFiniteSet(S)
      <4>1. S \subseteq Spenders
        BY DEF SpendersIn
      <4> QED BY <4>1, SpendersFinite DEF VelInv
    <3>2. NotFull(r)' => Cardinality(S) <= MaxEvents
      <4>1. {s \in Spenders' : call'[s].w = call'[r].w} = S
        BY <1>1, <1>11, <1>12 DEF SpendersIn
      <4> QED BY <4>1 DEF NotFull
    <3>3. ASSUME NEW span \in Nat, span <= Day, Cardinality(S) <= MaxEvents,
                 NEW I, I \subseteq DOMAIN es,
                 \A i \in DOMAIN es : es[i].at + span >= now => i \in I
          PROVE  SpentIn(r, span)' <= Total(es, I)
      <4> DEFINE U == {s \in Spenders \cap call[r].before :
                          call[s].w = v /\ call[s].velNow + span >= now}
      <4>1. SpentIn(r, span)' = Total(call', U)
        <5>1. {s \in Spenders' \cap call'[r].before :
                  call'[s].w = call'[r].w /\ call'[s].velNow + span >= call'[r].read} = U
          BY <1>1, <1>11, <1>12
        <5> QED BY <5>1 DEF SpentIn, Spent
      <4>2. U \subseteq S
        BY DEF SpendersIn
      <4>3. \A s \in U : /\ call[s].amount \in Nat /\ call'[s].amount = call[s].amount
                         /\ call[s].velNow + span >= now /\ call[s].velNow \in Nat
        BY <1>12
      <4> HIDE DEF U
      <4>4. IsFiniteSet(U)
        BY <3>1, <4>2, FS_Subset
      <4>5. Total(call', U) = Total(call, U)
        BY <4>3, <4>4, SumSame
      <4>6. \A s \in U : call[s].velNow + Day >= now
        BY <1>2, <3>3, <4>3
      <4>7. \A i \in DOMAIN es : own[i] \in U => i \in I
        <5>1. \A i \in DOMAIN es : es[i].at = call[own[i]].velNow
          BY <1>5 DEF Accounts
        <5> QED BY <3>3, <4>3, <5>1
      <4> HIDE DEF S
      <4>8. Accounts(own, es, S, call, now)
        BY <1>5 DEF S
      <4>9. Total(call, U) <= Total(es, I)
        BY <1>2, <1>4, <3>1, <3>3, <4>2, <4>3, <4>6, <4>7, <4>8, WindowCovers
      <4> QED BY <4>1, <4>5, <4>9
    <3>4. ASSUME Cardinality(S) <= MaxEvents
          PROVE  SpentIn(r, Hour)' <= call'[r].sum1h
      <4> DEFINE I == {i \in DOMAIN es : es[i].at + Hour >= t}
      <4>1. \A i \in DOMAIN es : es[i].at + Hour >= now => i \in I
        <5>1. \A i \in DOMAIN es : es[i].at \in Nat
          BY <1>4, EventsTyped
        <5> QED BY <1>2, <5>1
      <4>2. call'[r].sum1h = Total(es, I)
        BY <1>1 DEF SumSince
      <4>3. I \subseteq DOMAIN es /\ Hour <= Day
        OBVIOUS
      <4> HIDE DEF I
      <4> QED BY <3>3, <3>4, <4>1, <4>2, <4>3
    <3>5. ASSUME Cardinality(S) <= MaxEvents
          PROVE  SpentIn(r, Day)' <= call'[r].sum24h
      <4>1. call'[r].sum24h = Total(es, DOMAIN es)
        BY <1>1
      <4>2. Day <= Day /\ Day \in Nat
        OBVIOUS
      <4> QED BY <3>3, <3>5, <4>1, <4>2
    <3>6. call'[r].read <= now' /\ call'[r].pc = "decide"
      BY <1>1, <1>2
    <3> QED BY <2>3, <3>2, <3>4, <3>5, <3>6 DEF ReadOK
  <2> QED BY <2>2, <2>3
<1>15. FitInv'
  <2>1. \A s \in Req : call'[s].w = call[s].w /\ call'[s].key = call[s].key
    BY <1>1
  <2>2. \A s \in Req : call[s].pc # "idle" => call'[s].pc # "idle"
    BY <1>1
  <2> QED BY <1>1, <1>10, <2>1, <2>2, FitStays
<1> QED BY <1>8, <1>9, <1>10, <1>13, <1>14, <1>15 DEF VelInv

LEMMA StepDecide ==
    ASSUME VelInv, [Next]_vars, NEW r \in Req, NEW proceeds \in BOOLEAN, Decide(r, proceeds)
    PROVE  VelInv'
<1> USE VelocityAssumption
<1>1. /\ call[r].pc = "decide"
      /\ \A s \in Req \ {r} : call'[s] = call[s]
      /\ call' \in [Req -> Call]
      /\ UNCHANGED <<now, windows, window>>
      /\ \/ call'[r] = Denied(call[r].key)
         \/ /\ call[r].ledger \/ call[r].sum1h + call[r].amount <= Cap
            /\ \/ call[r].amount > 0 /\ call'[r] = [call[r] EXCEPT !.pc = "record"]
               \/ call[r].amount = 0 /\ call'[r] = [call[r] EXCEPT !.pc = "proceeded"]
  BY DecideFacts DEF VelInv
<1>2. call[r] \in Call /\ now \in Nat /\ call[r].amount \in Nat /\ call[r].sum1h \in Nat
  BY CallTyped DEF VelInv, TypeOK
<1>3. \/ /\ call'[r] = Denied(call[r].key)
         /\ call'[r].pc = "denied" /\ call'[r].w = None /\ call'[r].key = call[r].key
      \/ /\ call[r].ledger \/ call[r].sum1h + call[r].amount <= Cap
         /\ \/ call[r].amount > 0 /\ call'[r].pc = "record"
            \/ call[r].amount = 0 /\ call'[r].pc = "proceeded"
         /\ call'[r].key = call[r].key /\ call'[r].amount = call[r].amount
         /\ call'[r].ledger = call[r].ledger /\ call'[r].velNow = call[r].velNow
         /\ call'[r].w = call[r].w /\ call'[r].sum1h = call[r].sum1h
         /\ call'[r].sum24h = call[r].sum24h /\ call'[r].before = call[r].before
         /\ call'[r].read = call[r].read
  <2>1. CASE call'[r] = Denied(call[r].key)
    BY <2>1, DeniedFields
  <2>2. CASE /\ call[r].ledger \/ call[r].sum1h + call[r].amount <= Cap
             /\ call[r].amount > 0 /\ call'[r] = [call[r] EXCEPT !.pc = "record"]
    BY <1>2, <2>2, PcOnly
  <2>3. CASE /\ call[r].ledger \/ call[r].sum1h + call[r].amount <= Cap
             /\ call[r].amount = 0 /\ call'[r] = [call[r] EXCEPT !.pc = "proceeded"]
    BY <1>2, <2>3, PcOnly
  <2> QED BY <1>1, <2>1, <2>2, <2>3
<1>4. TypeOK'
  <2>1. \A s \in Req : call'[s].pc \notin {"idle", "lookup", "denied"} => call'[s].w \in Req
    BY <1>1, <1>3 DEF VelInv, TypeOK
  <2>2. \A w \in Req : Len(window'[w].events) <= MaxEvents
    BY <1>1 DEF VelInv, TypeOK
  <2> QED BY <1>1, <2>1, <2>2 DEF VelInv, TypeOK
<1>5. \A s \in Req : call'[s].w \in Req => call'[s].w = call[s].w /\ call'[s].key = call[s].key
  BY <1>1, <1>3
<1>6. HeldInv'
  <2>1. \A w \in Req : call[w].pc \notin {"idle", "lookup"} => call'[w].pc \notin {"idle", "lookup"}
    BY <1>1, <1>3
  <2> QED BY <1>1, <1>5, <2>1 DEF VelInv, HeldInv, Looked
<1>7. PastInv'
  BY <1>1, <1>3, PastKept
<1>8. \A w \in Req : SpendersIn(w)' = SpendersIn(w)
  <2>1. r \notin Spenders
    BY <1>1 DEF Spenders
  <2>2. r \notin Spenders'
    BY <1>2, <1>3 DEF Spenders
  <2> QED BY <1>1, <2>1, <2>2 DEF SpendersIn, Spenders
<1>9. WindowInv'
  BY <1>1, <1>2, <1>8, WindowStays DEF WindowInv
<1>10. ReadInv'
  <2>1. SUFFICES ASSUME NEW q \in Req, HasRead(q)' PROVE ReadOK(q)'
    BY DEF ReadInv
  <2>2. CASE q # r
    <3>1. call'[q] = call[q]
      BY <1>1, <2>2
    <3>2. HasRead(q)
      BY <2>1, <3>1 DEF HasRead
    <3> QED BY <1>1, <1>2, <1>7, <3>1, <3>2, ReadKept DEF VelInv, ReadInv, ReadOK
  <2>3. CASE q = r
    <3>1. call'[r].pc # "denied" /\ ~call'[r].ledger
      BY <2>1, <2>3 DEF HasRead
    <3>2. HasRead(r)
      BY <1>1, <1>3, <3>1 DEF HasRead
    <3>3. call'[r].amount + call'[r].sum1h <= Cap
      BY <1>2, <1>3, <3>1
    <3> QED BY <1>1, <1>2, <1>3, <1>7, <2>3, <3>1, <3>2, <3>3, ReadKept
  <2> QED BY <2>2, <2>3
<1>11. FitInv'
  <2>1. \A s \in Req : call[s].pc # "idle" => call'[s].pc # "idle" /\ call'[s].key = call[s].key
    BY <1>1, <1>3
  <2> QED BY <1>1, <1>5, <1>7, <2>1, FitStays
<1> QED BY <1>4, <1>6, <1>7, <1>9, <1>10, <1>11 DEF VelInv

LEMMA StepRecord ==
    ASSUME VelInv, [Next]_vars, NEW r \in Req, Record(r)
    PROVE  VelInv'
<1> USE VelocityAssumption
<1> DEFINE v == call[r].w
           t == call[r].velNow
           e == [at |-> t, amount |-> call[r].amount]
           xs == Append(window[v].events, e)
           es == Prune(xs, t)
           filled == [events |-> es, last |-> t]
<1>1. /\ call[r].pc = "record"
      /\ call'[r] = [call[r] EXCEPT !.pc = "proceeded"]
      /\ \A s \in Req \ {r} : call'[s] = call[s]
      /\ call' \in [Req -> Call]
      /\ window' = [window EXCEPT ![v] = filled]
      /\ UNCHANGED <<now, windows>>
  BY RecordFacts DEF VelInv
<1>2. /\ v \in Req /\ now \in Nat /\ t \in Nat /\ t <= now /\ window \in [Req -> Window]
      /\ call[r] \in Call /\ call[r].amount \in Nat /\ call[r].amount > 0
      /\ call[r].sum1h \in Nat
  BY <1>1, CallTyped DEF VelInv, TypeOK, PastInv
<1>3. /\ call'[r].pc = "proceeded" /\ call'[r].key = call[r].key
      /\ call'[r].amount = call[r].amount /\ call'[r].ledger = call[r].ledger
      /\ call'[r].velNow = t /\ call'[r].w = v /\ call'[r].sum1h = call[r].sum1h
      /\ call'[r].sum24h = call[r].sum24h /\ call'[r].before = call[r].before
      /\ call'[r].read = call[r].read
  BY <1>1, <1>2, PcOnly
<1>4. window[v].events \in Seq(Event) /\ e \in Event
  BY <1>2, WindowTyped DEF VelInv, Event
<1>5. e.at = t /\ e.amount = call[r].amount
  OBVIOUS
<1> HIDE DEF e
<1>6. xs \in Seq(Event)
  BY <1>4
<1>7. es \in Seq(Event) /\ Len(es) <= MaxEvents
  <2> HIDE DEF xs
  <2> QED BY <1>2, <1>6, PruneType
<1>8. \A s \in Spenders : /\ s \in Req /\ s # r /\ call'[s] = call[s] /\ call[s].velNow \in Nat
                          /\ call[s].amount \in Nat
  <2>1. \A s \in Spenders : s \in Req /\ call[s].pc = "proceeded"
    BY DEF Spenders
  <2>2. \A s \in Spenders : s # r
    BY <1>1, <2>1
  <2>3. \A s \in Req : call[s].velNow \in Nat /\ call[s].amount \in Nat
    BY CallTyped DEF VelInv
  <2> QED BY <1>1, <2>1, <2>2, <2>3
<1>9. Spenders' = Spenders \cup {r}
  <2>1. \A s \in Req : s \in Spenders' <=> call'[s].pc = "proceeded" /\ call'[s].amount > 0
    BY DEF Spenders
  <2>2. \A s \in Req \ {r} : s \in Spenders' <=> s \in Spenders
    BY <1>1, <2>1 DEF Spenders
  <2>3. r \in Spenders'
    BY <1>2, <1>3, <2>1
  <2>4. Spenders \subseteq Req /\ Spenders' \subseteq Req
    BY DEF Spenders
  <2> QED BY <2>2, <2>3, <2>4
<1>10. /\ SpendersIn(v)' = SpendersIn(v) \cup {r} /\ r \notin SpendersIn(v)
       /\ \A w \in Req \ {v} : SpendersIn(w)' = SpendersIn(w)
  BY <1>3, <1>8, <1>9 DEF SpendersIn
<1>11. IsFiniteSet(SpendersIn(v))
  <2>1. SpendersIn(v) \subseteq Spenders
    BY DEF SpendersIn
  <2> QED BY <2>1, SpendersFinite DEF VelInv
<1>12. PICK own : Accounts(own, es, SpendersIn(v) \cup {r}, call', now)
  <2> DEFINE S == SpendersIn(v)
             T == S \cup {r}
  <2>1. PICK old \in [DOMAIN window[v].events -> S] :
                Accounts(old, window[v].events, S, call, now)
    BY <1>2 DEF VelInv, WindowInv
  <2>2. \A s \in S : /\ call[s].velNow \in Nat
                     /\ call'[s].velNow = call[s].velNow /\ call'[s].amount = call[s].amount
    BY <1>8 DEF SpendersIn
  <2>3. IsFiniteSet(S) /\ r \notin S
    BY <1>10, <1>11
  <2> HIDE DEF S
  <2>4. now <= now
    BY <1>2
  <2>5. Accounts(old, window[v].events, S, call', now)
    BY <1>2, <1>4, <2>1, <2>2, <2>4, AccountsStay
  <2>6. PICK new : Accounts(new, Append(window[v].events, e), T, call', now)
    BY <1>2, <1>3, <1>4, <1>5, <2>3, <2>5, AppendAccounts
  <2>7. IsFiniteSet(T)
    BY <2>3, FS_AddElement
  <2>8. Accounts(new, xs, T, call', now)
    BY <2>6
  <2> HIDE DEF xs, T
  <2>9. \E last : Accounts(last, es, T, call', now)
    BY <1>2, <1>6, <2>7, <2>8, PruneAccounts
  <2> QED BY <2>9 DEF S, T
<1> HIDE DEF es, xs
<1>13. filled \in Window /\ filled.events = es
  BY <1>2, <1>7 DEF Window
<1> HIDE DEF filled
<1>14. /\ window' \in [Req -> Window] /\ window'[v].events = es
       /\ \A w \in Req \ {v} : window'[w] = window[w]
  BY <1>1, <1>2, <1>13
<1>15. TypeOK'
  <2>1. \A w \in Req : Len(window'[w].events) <= MaxEvents
    BY <1>2, <1>7, <1>14 DEF VelInv, TypeOK
  <2>2. \A s \in Req : call'[s].pc \notin {"idle", "lookup", "denied"} => call'[s].w \in Req
    BY <1>1, <1>2, <1>3 DEF VelInv, TypeOK
  <2>3. now' \in Nat /\ windows' \in [Key -> Req \cup {None}]
    BY <1>1 DEF VelInv, TypeOK
  <2> QED BY <1>1, <1>14, <2>1, <2>2, <2>3 DEF TypeOK
<1>16. \A s \in Req : call'[s].w = call[s].w /\ call'[s].key = call[s].key
  BY <1>1, <1>3
<1>17. HeldInv'
  <2>1. \A w \in Req : call[w].pc \notin {"idle", "lookup"} => call'[w].pc \notin {"idle", "lookup"}
    BY <1>1, <1>3
  <2> QED BY <1>1, <1>16, <2>1 DEF VelInv, HeldInv, Looked
<1>18. PastInv'
  BY <1>1, <1>3, PastKept
<1>19. WindowInv'
  <2>1. SUFFICES ASSUME NEW w \in Req
                 PROVE  \E new \in [DOMAIN window'[w].events -> SpendersIn(w)'] :
                           Accounts(new, window'[w].events, SpendersIn(w)', call', now')
    BY DEF WindowInv
  <2>2. CASE w # v
    BY <1>1, <1>2, <1>10, <1>14, <2>2, WindowStays
  <2>3. CASE w = v
    <3>1. own \in [DOMAIN es -> SpendersIn(v) \cup {r}]
      BY <1>12 DEF Accounts
    <3>2. window'[w].events = es /\ SpendersIn(w)' = SpendersIn(v) \cup {r} /\ now' = now
      BY <1>1, <1>10, <1>14, <2>3
    <3> QED BY <1>12, <3>1, <3>2
  <2> QED BY <2>2, <2>3
<1>20. ReadInv'
  <2>1. SUFFICES ASSUME NEW q \in Req, HasRead(q)' PROVE ReadOK(q)'
    BY DEF ReadInv
  <2>2. CASE q # r
    <3>1. call'[q] = call[q]
      BY <1>1, <2>2
    <3>2. HasRead(q)
      BY <2>1, <3>1 DEF HasRead
    <3> QED BY <1>1, <1>2, <1>18, <3>1, <3>2, ReadKept DEF VelInv, ReadInv, ReadOK
  <2>3. CASE q = r
    <3>1. HasRead(r)
      BY <1>1, <1>3, <2>1, <2>3 DEF HasRead
    <3>2. call'[r].amount + call'[r].sum1h <= Cap
      BY <1>1, <1>3, <3>1 DEF VelInv, ReadInv, ReadOK
    <3>3. now' \in Nat /\ now <= now'
      BY <1>1, <1>2
    <3>4. call'[r].w = call[r].w
      BY <1>3
    <3>5. ReadOK(r)'
      BY <1>3, <1>18, <3>1, <3>2, <3>3, <3>4, ReadKept
    <3> QED BY <2>3, <3>5
  <2> QED BY <2>2, <2>3
<1>21. FitInv'
  <2>1. \A s \in Req : call[s].pc # "idle" => call'[s].pc # "idle" /\ call'[s].key = call[s].key
    BY <1>1, <1>3
  <2> QED BY <1>1, <1>16, <1>18, <2>1, FitStays
<1> QED BY <1>15, <1>17, <1>18, <1>19, <1>20, <1>21 DEF VelInv

LEMMA StepTick ==
    ASSUME VelInv, [Next]_vars, Tick \/ UNCHANGED vars
    PROVE  VelInv'
<1>1. UNCHANGED <<windows, window, call>> /\ now \in Nat /\ now' \in Nat /\ now <= now'
  BY DEF Tick, vars, VelInv, TypeOK
<1>2. TypeOK' /\ HeldInv' /\ FitInv'
  BY <1>1 DEF VelInv, TypeOK, HeldInv, Looked, FitInv, KeysFit, Seen
<1>3. PastInv'
  <2>1. \A r \in Req : call[r].velNow <= now'
    BY <1>1, CallTyped DEF VelInv, PastInv
  <2> QED BY <1>1, <2>1 DEF VelInv, PastInv
<1>4. \A w \in Req : SpendersIn(w)' = SpendersIn(w)
  BY <1>1 DEF SpendersIn, Spenders
<1>5. WindowInv'
  BY <1>1, <1>4, WindowStays DEF WindowInv
<1>6. ReadInv'
  <2>1. SUFFICES ASSUME NEW q \in Req, HasRead(q)' PROVE ReadOK(q)'
    BY DEF ReadInv
  <2>2. HasRead(q)
    BY <1>1, <2>1 DEF HasRead
  <2> QED BY <1>1, <1>3, <2>2, ReadKept DEF VelInv, ReadInv, ReadOK
<1> QED BY <1>2, <1>3, <1>5, <1>6 DEF VelInv

LEMMA InitInv ==
    ASSUME Init
    PROVE  VelInv
<1> USE VelocityAssumption
<1> DEFINE empty == [events |-> <<>>, last |-> 0]
<1>1. /\ now = 0 /\ windows = [k \in Key |-> None]
      /\ window = [r \in Req |-> empty] /\ call = [r \in Req |-> NoCall]
  BY DEF Init
<1>2. empty \in Window /\ empty.events = <<>>
  BY DEF Window
<1> HIDE DEF empty
<1>3. /\ NoCall \in Call /\ NoCall.pc = "idle" /\ NoCall.w = None /\ NoCall.velNow = 0
      /\ NoCall.before = {}
  BY DEF NoCall, Call, Pc
<1> HIDE DEF NoCall
<1>4. /\ call \in [Req -> Call] /\ window \in [Req -> Window]
      /\ \A r \in Req : call[r] = NoCall /\ window[r] = empty
  BY <1>1, <1>2, <1>3
<1>5. TypeOK
  BY <1>1, <1>2, <1>3, <1>4 DEF TypeOK
<1>6. HeldInv /\ FitInv
  BY <1>1, <1>3, <1>4 DEF HeldInv, FitInv
<1>7. PastInv
  <2>1. {r \in Req : call[r].pc # "idle"} = {}
    BY <1>3, <1>4
  <2>2. IsFiniteSet({r \in Req : call[r].pc # "idle"})
    BY <2>1, FS_EmptySet
  <2> QED BY <1>1, <1>3, <1>4, <2>2 DEF PastInv
<1>8. ReadInv
  BY <1>3, <1>4 DEF ReadInv, HasRead
<1>9. WindowInv
  <2>1. SUFFICES ASSUME NEW w \in Req
                 PROVE  \E own \in [DOMAIN window[w].events -> SpendersIn(w)] :
                           Accounts(own, window[w].events, SpendersIn(w), call, now)
    BY DEF WindowInv
  <2> DEFINE es == window[w].events
             S == SpendersIn(w)
  <2>2. es = <<>> /\ S = {}
    BY <1>2, <1>3, <1>4 DEF SpendersIn, Spenders
  <2> HIDE DEF es, S
  <2>3. DOMAIN es = {}
    BY <2>2
  <2> DEFINE own == [i \in {} |-> w]
  <2>4. own \in [DOMAIN es -> S]
    BY <2>2, <2>3
  <2> HIDE DEF own
  <2>5. Accounts(own, es, S, call, now)
    BY <2>2, <2>3, <2>4 DEF Accounts
  <2> QED BY <2>4, <2>5 DEF es, S
<1> QED BY <1>5, <1>6, <1>7, <1>8, <1>9 DEF VelInv

\* The tracker keeps its books: every window accounts for the calls that went
\* into it, and what a call reads covers what was answered before it arrived.
THEOREM VelocityInvariant == Spec => []VelInv
<1>1. Init => VelInv
  BY InitInv
<1>2. VelInv /\ [Next]_vars => VelInv'
  <2>1. SUFFICES ASSUME VelInv, [Next]_vars PROVE VelInv'
    OBVIOUS
  <2> QED BY <2>1, StepKinds, StepArrive, StepWindowFor, StepAggregate, StepDecide, StepRecord,
             StepTick
<1> QED BY <1>1, <1>2, PTL DEF Spec

\* While the keys fit, all that was spent before a call is in its window.
LEMMA SpentInWindow ==
    ASSUME VelInv, NEW r \in Req, HasRead(r), NEW span
    PROVE  SpentBefore(r, span) = SpentIn(r, span)
<1>1. call[r].w \in Req
  BY DEF VelInv, TypeOK, HasRead
<1>2. ASSUME KeysFit
      PROVE  \A s \in Spenders \cap call[r].before : call[s].w = call[r].w
  <2>1. windows[call[r].key] = call[r].w
    BY <1>1, <1>2 DEF VelInv, FitInv
  <2>2. \A s \in Spenders \cap call[r].before : /\ s \in Req /\ call[s].pc = "proceeded"
                                                /\ call[s].key = call[r].key
    BY DEF VelInv, PastInv, Spenders
  <2>3. \A s \in Spenders \cap call[r].before : call[s].w \in Req
    BY <2>2 DEF VelInv, TypeOK
  <2> QED BY <1>2, <2>1, <2>2, <2>3 DEF VelInv, FitInv
<1>3. {s \in Spenders \cap call[r].before : /\ KeysFit \/ call[s].w = call[r].w
                                            /\ call[s].velNow + span >= call[r].read}
        = {s \in Spenders \cap call[r].before :
              call[s].w = call[r].w /\ call[s].velNow + span >= call[r].read}
  BY <1>2
<1> QED BY <1>3 DEF SpentBefore, SpentIn

\* Calls made one after the other stay within the cap of the velocity rule,
\* whatever other calls, prunes and out-of-order records come between, and
\* while the keys fit no eviction takes from it (velocity.go, windowFor,
\* aggregate and record; handlers.go, evaluate).
THEOREM SerialSpendingIsCapped == Spec => []SerialCap
<1>1. VelInv => SerialCap
  <2>1. SUFFICES ASSUME VelInv, NEW r \in Req, HasRead(r),
                        call[r].pc \in {"record", "proceeded"}, NotFull(r)
                 PROVE  call[r].amount + SpentBefore(r, Hour) <= Cap
    BY DEF SerialCap
  <2> DEFINE B == {s \in Spenders \cap call[r].before :
                      call[s].w = call[r].w /\ call[s].velNow + Hour >= call[r].read}
  <2>2. IsFiniteSet(B) /\ \A s \in B : call[s].amount \in Nat
    <3>1. B \subseteq Spenders
      OBVIOUS
    <3>2. \A s \in Spenders : call[s].amount \in Nat
      BY <2>1, CallTyped DEF VelInv, Spenders
    <3> HIDE DEF B
    <3> QED BY <2>1, <3>1, <3>2, SpendersFinite DEF VelInv
  <2>3. SpentIn(r, Hour) = Total(call, B)
    BY DEF SpentIn, Spent
  <2> HIDE DEF B
  <2>4. SpentIn(r, Hour) \in Nat
    BY <2>2, <2>3, SumType
  <2>5. /\ SpentIn(r, Hour) <= call[r].sum1h
        /\ call[r].amount + call[r].sum1h <= Cap
    BY <2>1 DEF VelInv, ReadInv, ReadOK
  <2>6. call[r].amount \in Nat /\ call[r].sum1h \in Nat
    BY <2>1, CallTyped DEF VelInv
  <2>7. SpentBefore(r, Hour) = SpentIn(r, Hour)
    BY <2>1, SpentInWindow
  <2> QED BY <2>4, <2>5, <2>6, <2>7, VelocityAssumption
<1> QED BY <1>1, VelocityInvariant, PTL

\* The 24h aggregate misses no spending of the day that was answered before the
\* call arrived (velocity.go, pruneLocked).
THEOREM DaySumIsComplete == Spec => []DayComplete
<1>1. VelInv => DayComplete
  <2>1. SUFFICES ASSUME VelInv, NEW r \in Req, HasRead(r), NotFull(r)
                 PROVE  call[r].sum24h >= SpentBefore(r, Day)
    BY DEF DayComplete
  <2>2. SpentIn(r, Day) <= call[r].sum24h
    BY <2>1 DEF VelInv, ReadInv, ReadOK
  <2>3. SpentBefore(r, Day) = SpentIn(r, Day)
    BY <2>1, SpentInWindow
  <2> QED BY <2>2, <2>3
<1> QED BY <1>1, VelocityInvariant, PTL

=============================================================================
