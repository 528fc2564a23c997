----------------------------- MODULE Recursion -----------------------------
(***************************************************************************)
(* Induction and recursion without operator parameters, which the provers  *)
(* cannot instantiate: a set of naturals has a least element, and a        *)
(* function that is computed from its value at one smaller argument        *)
(* exists.  Everything is a set or a function, so that the lemmas can be   *)
(* cited for a loop of the models.                                         *)
(***************************************************************************)
EXTENDS Integers, WellFoundedInduction, TLAPS

Less == OpToRel(<, Nat)

LEMMA LessWellFounded == IsWellFoundedOn(Less, Nat)
BY Zenon, NatLessThanWellFounded DEF Less

\* A set of naturals that is not empty has a least element.  A proof by
\* induction takes the least counterexample.
LEMMA LeastNatural ==
  ASSUME NEW T, T \subseteq Nat, T # {}
  PROVE  \E x \in T : \A y \in T : x <= y
<1>1. PICK x \in T : \A y \in T : ~(<<y, x>> \in Less)
  BY LessWellFounded, WFMin
<1>2. ASSUME NEW y \in T PROVE x <= y
  <2>1. x \in Nat /\ y \in Nat /\ ~(<<y, x>> \in Less)
    BY <1>1
  <2>2. ~(y < x)
    BY <2>1 DEF Less, OpToRel
  <2> QED BY <2>1, <2>2
<1> QED BY <1>2

\* The same for the elements of any set by a measure: one that is not in T while
\* all smaller ones are.
LEMMA LeastByMeasure ==
  ASSUME NEW S, NEW m \in [S -> Nat], NEW T, T \subseteq S, T # {}
  PROVE  \E x \in T : \A y \in S : m[y] < m[x] => y \notin T
<1> DEFINE M == {m[x] : x \in T}
<1>1. PICK n \in M : \A k \in M : n <= k
  <2>1. M \subseteq Nat /\ M # {}
    OBVIOUS
  <2> HIDE DEF M
  <2> QED BY <2>1, LeastNatural
<1>2. PICK x \in T : n = m[x]
  BY <1>1
<1>3. ASSUME NEW y \in S, m[y] < m[x], y \in T PROVE FALSE
  <2>1. m[y] \in M /\ m[x] \in Nat /\ m[y] \in Nat
    BY <1>3
  <2> QED BY <1>1, <1>2, <1>3, <2>1
<1> QED BY <1>3

\* f goes on from x with d[x], as long as that is smaller, and makes h of its result;
\* where it stops the result is b[x].
IsLoop(f, S, m, b, d, h) ==
  \A x \in S : f[x] = IF m[d[x]] < m[x] THEN h[<<x, f[d[x]]>>] ELSE b[x]

\* Every such loop is a function.
LEMMA LoopExists ==
  ASSUME NEW S, NEW V, NEW m \in [S -> Nat],
         NEW b \in [S -> V], NEW d \in [S -> S], NEW h \in [S \X V -> V]
  PROVE  \E f \in [S -> V] : IsLoop(f, S, m, b, d, h)
<1> DEFINE Step(g, x) == IF m[d[x]] < m[x] THEN h[<<x, g[d[x]]>>] ELSE b[x]
           Good(g, n) == \A x \in S : m[x] < n => g[x] = Step(g, x)
           Bad == {n \in Nat : ~ \E g \in [S -> V] : Good(g, n)}
<1>1. ASSUME NEW g \in [S -> V], NEW x \in S PROVE Step(g, x) \in V
  OBVIOUS
<1>2. Bad = {}
  <2> SUFFICES ASSUME Bad # {} PROVE FALSE
    OBVIOUS
  <2>1. PICK n \in Bad : \A k \in Bad : n <= k
    <3>1. Bad \subseteq Nat
      OBVIOUS
    <3> HIDE DEF Bad
    <3> QED BY <3>1, LeastNatural
  <2>2. n \in Nat /\ ~ \E g \in [S -> V] : Good(g, n)
    BY <2>1
  <2>3. n # 0
    <3>1. Good(b, 0)
      OBVIOUS
    <3> QED BY <2>2, <3>1
  <2>4. n - 1 \in Nat /\ n - 1 < n
    BY <2>2, <2>3
  <2>5. PICK g \in [S -> V] : Good(g, n - 1)
    <3>1. n - 1 \notin Bad
      <4> HIDE DEF Bad
      <4> QED BY <2>1, <2>2, <2>4
    <3> QED BY <2>4, <3>1
  <2> DEFINE e == [x \in S |-> IF m[x] < n - 1 THEN g[x] ELSE Step(g, x)]
  <2>6. e \in [S -> V]
    <3>1. \A x \in S : Step(g, x) \in V
      BY <1>1
    <3> HIDE DEF Step
    <3> QED BY <3>1
  <2>7. ASSUME NEW x \in S, m[x] < n PROVE e[x] = Step(e, x)
    <3>1. e[x] = Step(g, x)
      BY <2>5
    <3>2. CASE ~(m[d[x]] < m[x])
      BY <3>1, <3>2
    <3>3. CASE m[d[x]] < m[x]
      <4>1. d[x] \in S /\ m[d[x]] < m[x] /\ m[d[x]] \in Nat /\ m[x] \in Nat
        BY <3>3
      <4>2. m[d[x]] < n - 1
        BY <2>2, <2>7, <4>1
      <4>3. e[d[x]] = g[d[x]]
        BY <4>1, <4>2
      <4> HIDE DEF e
      <4> QED BY <3>1, <4>3
    <3> QED BY <3>2, <3>3
  <2>8. Good(e, n)
    <3> HIDE DEF e, Step
    <3> QED BY <2>7
  <2> HIDE DEF e, Good
  <2> QED BY <2>2, <2>6, <2>8
<1>3. \A n \in Nat : \E g \in [S -> V] : Good(g, n)
  BY <1>2
<1>4. ASSUME NEW g1 \in [S -> V], NEW g2 \in [S -> V], NEW n1 \in Nat, NEW n2 \in Nat,
             Good(g1, n1), Good(g2, n2),
             NEW x \in S, m[x] < n1, m[x] < n2
      PROVE  g1[x] = g2[x]
  <2> DEFINE D == {y \in S : m[y] < n1 /\ m[y] < n2 /\ g1[y] # g2[y]}
  <2> SUFFICES ASSUME D # {} PROVE FALSE
    BY <1>4
  <2>1. PICK y \in D : \A z \in S : m[z] < m[y] => z \notin D
    <3>1. D \subseteq S
      OBVIOUS
    <3> HIDE DEF D
    <3> QED BY <3>1, LeastByMeasure
  <2>2. g1[y] = Step(g1, y) /\ g2[y] = Step(g2, y) /\ g1[y] # g2[y] /\ y \in S
    BY <1>4, <2>1
  <2>3. m[d[y]] < m[y] /\ g1[d[y]] # g2[d[y]]
    BY <2>2
  <2>4. d[y] \in S /\ m[d[y]] < m[y] /\ m[d[y]] \in Nat /\ m[y] \in Nat
    BY <2>2, <2>3
  <2>5. d[y] \in D
    BY <2>1, <2>3, <2>4
  <2> QED BY <2>1, <2>4, <2>5
<1> DEFINE G(n) == CHOOSE g : g \in [S -> V] /\ Good(g, n)
           f == [x \in S |-> G(m[x] + 1)[x]]
<1>5. ASSUME NEW n \in Nat PROVE G(n) \in [S -> V] /\ Good(G(n), n)
  <2> HIDE DEF Good
  <2>1. \E g : g \in [S -> V] /\ Good(g, n)
    BY <1>3
  <2> QED BY <2>1
<1>6. f \in [S -> V]
  <2>1. \A x \in S : m[x] + 1 \in Nat
    OBVIOUS
  <2>2. \A x \in S : G(m[x] + 1) \in [S -> V]
    <3> HIDE DEF G, Good
    <3> QED BY <1>5, <2>1
  <2> HIDE DEF G
  <2> QED BY <2>2
<1>7. ASSUME NEW x \in S PROVE f[x] = Step(f, x)
  <2> DEFINE g == G(m[x] + 1)
  <2>1. m[x] \in Nat /\ m[x] + 1 \in Nat /\ m[x] < m[x] + 1
    OBVIOUS
  <2>2. g \in [S -> V] /\ Good(g, m[x] + 1)
    <3> HIDE DEF G, Good
    <3> QED BY <1>5, <2>1
  <2>3. f[x] = g[x]
    <3> HIDE DEF G
    <3> QED OBVIOUS
  <2>4. g[x] = Step(g, x)
    <3> HIDE DEF g
    <3> QED BY <2>1, <2>2
  <2>5. CASE ~(m[d[x]] < m[x])
    <3> HIDE DEF g, f
    <3> QED BY <2>3, <2>4, <2>5
  <2>6. CASE m[d[x]] < m[x]
    <3>1. d[x] \in S /\ m[d[x]] < m[x] /\ m[d[x]] \in Nat
      BY <2>6
    <3> DEFINE k == G(m[d[x]] + 1)
    <3>2. m[d[x]] + 1 \in Nat /\ m[d[x]] < m[d[x]] + 1 /\ m[d[x]] < m[x] + 1
      BY <2>1, <3>1
    <3>3. k \in [S -> V] /\ Good(k, m[d[x]] + 1)
      <4> HIDE DEF G, Good
      <4> QED BY <1>5, <3>2
    <3>4. f[d[x]] = k[d[x]]
      <4> HIDE DEF G
      <4> QED BY <3>1
    <3>5. k[d[x]] = g[d[x]]
      <4> HIDE DEF k, g, Good
      <4> QED BY <1>4, <2>1, <2>2, <3>1, <3>2, <3>3
    <3> HIDE DEF g, k, f
    <3> QED BY <2>3, <2>4, <3>4, <3>5
  <2> QED BY <2>5, <2>6
<1> HIDE DEF f
<1>8. IsLoop(f, S, m, b, d, h)
  BY <1>7 DEF IsLoop
<1> QED BY <1>6, <1>8
=============================================================================
