----------------------------- MODULE RoxmlLemmas -----------------------------
(***************************************************************************)
(* Facts about numbers that the proofs about linked lists rest on.         *)
(* Induction is stated with a set instead of a predicate, so that every    *)
(* fact is of first order.                                                 *)
(***************************************************************************)
EXTENDS Integers, WellFoundedInduction, TLAPS

\* Every set of natural numbers that is not empty has a least element.
LEMMA LeastNumber ==
    ASSUME NEW T, T \subseteq Nat, T # {}
    PROVE  \E n \in T : \A m \in T : n <= m
<1>. DEFINE R == OpToRel(<, Nat)
<1>1. IsWellFoundedOn(R, Nat)
  BY NatLessThanWellFounded
<1>2. PICK n \in T : \A m \in T : <<m, n>> \notin R
  <2>. HIDE DEF R
  <2>. QED
    BY <1>1, WFMin
<1>3. ASSUME NEW m \in T
      PROVE  n <= m
  <2>1. <<m, n>> \notin R
    BY <1>2
  <2>2. <<m, n>> \in Nat \X Nat
    OBVIOUS
  <2>3. ~(m < n)
    BY <2>1, <2>2 DEF OpToRel
  <2>. QED
    BY <2>3
<1>. QED
  BY <1>3

\* A set with 0 in it, and with every number the next one, has them all.
LEMMA SetInduction ==
    ASSUME NEW S, 0 \in S, \A n \in Nat : n \in S => n + 1 \in S
    PROVE  Nat \subseteq S
<1>. DEFINE T == Nat \ S
<1>1. SUFFICES ASSUME T # {}
               PROVE  FALSE
  OBVIOUS
<1>2. PICK n \in T : \A m \in T : n <= m
  <2>1. T \subseteq Nat
    OBVIOUS
  <2>. HIDE DEF T
  <2>. QED
    BY LeastNumber, <1>1, <2>1
<1>3. n - 1 \in Nat /\ n - 1 \notin T /\ n - 1 + 1 = n
  BY <1>2
<1>. QED
  BY <1>2, <1>3

\* R has no infinite path in S.
WellFounded(S, R) ==
    \A T \in SUBSET S : T # {} => \E a \in T : \A b \in T : <<a, b>> \notin R

\* What F[a] makes of a function depends on its values at what a leads to only.
Follows(S, V, R, F) ==
    /\ F \in [S -> [[S -> V] -> V]]
    /\ \A a \in S : \A k, l \in [S -> V] :
          (\A b \in S : <<a, b>> \in R => k[b] = l[b]) => F[a][k] = F[a][l]

\* A function may be defined by recursion along a relation without infinite
\* paths: there is one that satisfies the equation.
LEMMA Recursion ==
    ASSUME NEW S, NEW V, NEW R, NEW F, V # {}, WellFounded(S, R), Follows(S, V, R, F)
    PROVE  \E f \in [S -> V] : \A a \in S : f[a] = F[a][f]
<1>. PICK v : v \in V
  OBVIOUS
<1>. DEFINE Funs == [S -> V]
            Good(g, A) == /\ \A a \in A, b \in S : <<a, b>> \in R => b \in A
                          /\ \A a \in A : g[a] = F[a][g]
            U == {a \in S : \E g \in Funs, A \in SUBSET S : a \in A /\ Good(g, A)}
            choice(a) == CHOOSE g \in Funs : \E A \in SUBSET S : a \in A /\ Good(g, A)
            f == [a \in S |-> IF a \in U THEN choice(a)[a] ELSE v]
<1>0. /\ \A a \in S : \A k, l \in Funs :
               (\A b \in S : <<a, b>> \in R => k[b] = l[b]) => F[a][k] = F[a][l]
      /\ \A a \in S : \A k \in Funs : F[a][k] \in V
  BY DEF Follows
<1>1. \A g, k \in Funs : \A A, B \in SUBSET S :
         Good(g, A) /\ Good(k, B) => \A a \in A \cap B : g[a] = k[a]
  <2>. TAKE g, k \in Funs
  <2>. TAKE A, B \in SUBSET S
  <2>. HAVE Good(g, A) /\ Good(k, B)
  <2>. DEFINE T == {a \in A \cap B : g[a] # k[a]}
  <2>1. SUFFICES ASSUME T # {}
                 PROVE  FALSE
    OBVIOUS
  <2>2. PICK a \in T : \A b \in T : <<a, b>> \notin R
    <3>1. T \in SUBSET S
      OBVIOUS
    <3>. HIDE DEF T
    <3>. QED
      BY <3>1, <2>1 DEF WellFounded
  <2>3. \A b \in S : <<a, b>> \in R => g[b] = k[b]
    BY <2>2
  <2>4. F[a][g] = F[a][k]
    <3>. HIDE DEF Funs
    <3>. QED
      BY <1>0, <2>2, <2>3
  <2>. QED
    BY <2>2, <2>4
<1>2. ASSUME NEW a \in U
      PROVE  /\ choice(a) \in Funs
             /\ \E A \in SUBSET S : a \in A /\ Good(choice(a), A)
  <2>. HIDE DEF Good
  <2>. QED
    BY <1>2
<1>3. f \in Funs
  <2>1. \A a \in S : a \in U => choice(a)[a] \in V
    <3>. HIDE DEF U, choice
    <3>. QED
      BY <1>2
  <2>. HIDE DEF U, choice
  <2>. QED
    BY <2>1
<1>. HIDE DEF Funs
<1>4. ASSUME NEW g \in Funs, NEW A \in SUBSET S, Good(g, A), NEW a \in A
      PROVE  a \in U /\ f[a] = g[a]
  <2>1. a \in U
    <3>. HIDE DEF Good
    <3>. QED
      BY <1>4
  <2>2. PICK B \in SUBSET S : a \in B /\ Good(choice(a), B)
    <3>. HIDE DEF Good, U, choice
    <3>. QED
      BY <1>2, <2>1
  <2>3. choice(a)[a] = g[a]
    <3>. DEFINE h == choice(a)
    <3>1. h \in Funs /\ Good(h, B)
      <4>. HIDE DEF Good, U, choice
      <4>. QED
        BY <1>2, <2>1, <2>2
    <3>. HIDE DEF Good, U, h, choice, f
    <3>2. h[a] = g[a]
      BY <1>1, <1>4, <2>2, <3>1
    <3>. QED
      BY <3>2 DEF h
  <2>4. f[a] = choice(a)[a]
    <3>. HIDE DEF U, choice
    <3>. QED
      BY <2>1
  <2>. QED
    BY <2>1, <2>3, <2>4
<1>5. Good(f, U)
  <2>. SUFFICES ASSUME NEW a \in U
                PROVE  /\ \A b \in S : <<a, b>> \in R => b \in U
                       /\ f[a] = F[a][f]
    OBVIOUS
  <2>1. PICK g \in Funs, A \in SUBSET S : a \in A /\ Good(g, A)
    <3>. HIDE DEF Good
    <3>. QED
      OBVIOUS
  <2>2. \A b \in S : <<a, b>> \in R => b \in A
    BY <2>1
  <2>3. \A b \in A : b \in U /\ f[b] = g[b]
    <3>. HIDE DEF Good, U, f
    <3>. QED
      BY <1>4, <2>1
  <2>4. F[a][f] = F[a][g]
    <3>. HIDE DEF Good, U, f
    <3>. QED
      BY <1>0, <1>3, <2>1, <2>2, <2>3
  <2>5. g[a] = F[a][g]
    BY <2>1
  <2>. HIDE DEF Good, U, f
  <2>. QED
    BY <2>1, <2>2, <2>3, <2>4, <2>5
<1>6. S \subseteq U
  <2>. DEFINE T == S \ U
  <2>1. SUFFICES ASSUME T # {}
                 PROVE  FALSE
    OBVIOUS
  <2>2. PICK a \in T : \A b \in T : <<a, b>> \notin R
    <3>1. T \in SUBSET S
      OBVIOUS
    <3>. HIDE DEF T
    <3>. QED
      BY <3>1, <2>1 DEF WellFounded
  <2>. DEFINE k == [f EXCEPT ![a] = F[a][f]]
              A == U \cup {a}
  <2>3. a \in S /\ a \notin U /\ U \subseteq S
    BY <2>2
  <2>4. \A b \in S : <<a, b>> \in R => b \in U
    BY <2>2
  <2>5. \A c \in U, b \in S : <<c, b>> \in R => b \in U
    BY <1>5
  <2>6. \A c \in U : f[c] = F[c][f]
    BY <1>5
  <2>. HIDE DEF U, f, Good
  <2>7. F[a][f] \in V
    BY <1>0, <1>3, <2>3
  <2>8. k \in Funs /\ k[a] = F[a][f] /\ \A b \in S : b # a => k[b] = f[b]
    BY <1>3, <2>3, <2>7 DEF Funs
  <2>. HIDE DEF k
  <2>9. F[a][k] = F[a][f]
    BY <1>0, <1>3, <2>3, <2>4, <2>8
  <2>10. ASSUME NEW c \in U
         PROVE  F[c][k] = F[c][f]
    BY <1>0, <1>3, <2>3, <2>5, <2>8
  <2>11. \A c \in A : k[c] = F[c][k]
    BY <2>3, <2>6, <2>8, <2>9, <2>10
  <2>12. \A c \in A, b \in S : <<c, b>> \in R => b \in A
    BY <2>4, <2>5
  <2>13. A \in SUBSET S /\ a \in A
    BY <2>3
  <2>14. Good(k, A)
    BY <2>11, <2>12 DEF Good
  <2>. HIDE DEF A
  <2>15. a \in U
    BY <1>4, <2>8, <2>13, <2>14
  <2>. QED
    BY <2>3, <2>15
<1>7. \A a \in S : f[a] = F[a][f]
  <2>. HIDE DEF U, f
  <2>. QED
    BY <1>5, <1>6
<1>. QED
  BY <1>3, <1>7 DEF Funs

\* A set that has every element all of whose successors it has, has them all.
LEMMA Induction ==
    ASSUME NEW S, NEW R, WellFounded(S, R), NEW T,
           \A a \in S : (\A b \in S : <<a, b>> \in R => b \in T) => a \in T
    PROVE  S \subseteq T
<1>. DEFINE U == S \ T
<1>1. SUFFICES ASSUME U # {}
               PROVE  FALSE
  OBVIOUS
<1>2. PICK a \in U : \A b \in U : <<a, b>> \notin R
  <2>1. U \in SUBSET S
    OBVIOUS
  <2>. HIDE DEF U
  <2>. QED
    BY <1>1, <2>1 DEF WellFounded
<1>. QED
  BY <1>2

=============================================================================
