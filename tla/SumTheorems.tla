---------------------------- MODULE SumTheorems ----------------------------
(***************************************************************************)
(* What the recursive functions of the models compute: loops, powers, and  *)
(* SumFunctionOnSet, the sum of a function's values over a finite set of   *)
(* its arguments, with which the models state totals.  That such functions *)
(* exist, and what they compute, is shown by induction, which is stated    *)
(* for a set P of the arguments for which a formula holds and follows from *)
(* the existence of a least counterexample (WFMin).                        *)
(***************************************************************************)
EXTENDS FiniteSetTheorems, TLAPS

(* Induction over the subsets of a finite set: a collection of sets that   *)
(* holds a set whenever it holds all of its proper subsets holds them all. *)
LEMMA SubsetInduction ==
    ASSUME NEW S, IsFiniteSet(S), NEW P,
           \A T \in SUBSET S : (\A U \in SUBSET T : U # T => U \in P) => T \in P
    PROVE  SUBSET S \subseteq P
<1>1. IsWellFoundedOn(StrictSubsetOrdering(S), SUBSET S)
  <2>1. FiniteSubsetsOf(S) = SUBSET S
    BY FS_FiniteSubsetsOfFinite
  <2>2. QED
    BY <2>1, FS_StrictSubsetOrderingWellFounded
<1> DEFINE Bad == (SUBSET S) \ P
<1> SUFFICES ASSUME Bad # {} PROVE FALSE
  OBVIOUS
<1>2. PICK T \in Bad : \A U \in Bad : ~(<<U, T>> \in StrictSubsetOrdering(S))
  <2> HIDE DEF Bad
  <2>1. Bad \subseteq SUBSET S
    BY DEF Bad
  <2>2. QED
    BY <1>1, <2>1, WFMin
<1>3. \A U \in SUBSET T : U # T => U \in P
  BY <1>2 DEF StrictSubsetOrdering
<1>4. QED
  BY <1>2, <1>3

(* Induction over the naturals. *)
LEMMA NatSetInduction ==
    ASSUME NEW P, 0 \in P, \A n \in Nat : n \in P => n + 1 \in P
    PROVE  Nat \subseteq P
<1> DEFINE Bad == Nat \ P
<1> SUFFICES ASSUME Bad # {} PROVE FALSE
  OBVIOUS
<1>1. PICK m \in Bad : \A k \in Bad : ~(<<k, m>> \in OpToRel(<, Nat))
  <2> HIDE DEF Bad
  <2>1. Bad \subseteq Nat
    BY DEF Bad
  <2>2. QED
    BY <2>1, NatLessThanWellFounded, WFMin
<1>2. \A k \in Bad : ~(k < m)
  BY <1>1 DEF OpToRel
<1>3. m # 0 /\ m - 1 \in Nat
  OBVIOUS
<1>4. m - 1 \in P
  BY <1>2, <1>3
<1>5. QED
  BY <1>3, <1>4

(* g starts at c and follows the step F up to n. *)
Iterates(g, n, c, F) == g[0] = c /\ \A i \in 0..(n - 1) : g[i + 1] = F[g[i]]

(* Two such functions agree as far as both go. *)
LEMMA IteratesUnique ==
    ASSUME NEW c, NEW F, NEW m \in Nat, NEW n \in Nat, NEW g, NEW h,
           Iterates(g, m, c, F), Iterates(h, n, c, F)
    PROVE  \A i \in Nat : i <= m /\ i <= n => g[i] = h[i]
<1> DEFINE P == {i \in Nat : i <= m /\ i <= n => g[i] = h[i]}
<1>1. 0 \in P
  BY DEF Iterates
<1>2. ASSUME NEW i \in Nat, i \in P PROVE i + 1 \in P
  BY <1>2 DEF Iterates
<1>3. Nat \subseteq P
  <2> HIDE DEF P
  <2>1. QED
    BY <1>1, <1>2, NatSetInduction
<1>4. QED
  BY <1>3

(* A step on S can be iterated from any c in S. *)
LEMMA NatRecursion ==
    ASSUME NEW S, NEW c \in S, NEW F \in [S -> S]
    PROVE  \E f \in [Nat -> S] : f[0] = c /\ \A n \in Nat : f[n + 1] = F[f[n]]
<1> DEFINE P == {n \in Nat : \E g \in [0..n -> S] : Iterates(g, n, c, F)}
<1>1. 0 \in P
  <2> DEFINE g == [i \in 0..0 |-> c]
  <2>1. g \in [0..0 -> S] /\ Iterates(g, 0, c, F)
    BY DEF Iterates
  <2>2. QED
    BY <2>1
<1>2. ASSUME NEW n \in Nat, n \in P PROVE n + 1 \in P
  <2>1. PICK g \in [0..n -> S] : Iterates(g, n, c, F)
    BY <1>2
  <2> DEFINE h == [i \in 0..(n + 1) |-> IF i = n + 1 THEN F[g[n]] ELSE g[i]]
  <2>2. h \in [0..(n + 1) -> S]
    OBVIOUS
  <2>3. Iterates(h, n + 1, c, F)
    BY <2>1 DEF Iterates
  <2>4. QED
    BY <2>2, <2>3
<1>3. Nat \subseteq P
  <2> HIDE DEF P
  <2>1. QED
    BY <1>1, <1>2, NatSetInduction
<1> DEFINE G(n) == CHOOSE g \in [0..n -> S] : Iterates(g, n, c, F)
           f == [n \in Nat |-> G(n)[n]]
<1>4. \A n \in Nat : G(n) \in [0..n -> S] /\ Iterates(G(n), n, c, F)
  BY <1>3
<1> HIDE DEF G
<1>5. f \in [Nat -> S]
  BY <1>4
<1>6. f[0] = c
  BY <1>4 DEF Iterates
<1>7. ASSUME NEW n \in Nat PROVE f[n + 1] = F[f[n]]
  <2>1. Iterates(G(n), n, c, F) /\ Iterates(G(n + 1), n + 1, c, F)
    BY <1>4
  <2>2. G(n)[n] = G(n + 1)[n]
    BY <2>1, IteratesUnique
  <2>3. G(n + 1)[n + 1] = F[G(n + 1)[n]]
    BY <2>1 DEF Iterates
  <2>4. QED
    BY <2>2, <2>3
<1>8. QED
  BY <1>5, <1>6, <1>7

(* The powers of b, as the models define them, are positive. *)
LEMMA PowersPositive ==
    ASSUME NEW b \in Nat \ {0}
    PROVE  LET f == CHOOSE g : g = [n \in Nat |-> IF n = 0 THEN 1 ELSE b * g[n - 1]]
           IN  \A n \in Nat : f[n] \in Nat \ {0}
<1> DEFINE Times == [k \in Nat |-> b * k]
           Def(f) == [n \in Nat |-> IF n = 0 THEN 1 ELSE b * f[n - 1]]
           power == CHOOSE g : g = Def(g)
<1>1. PICK f \in [Nat -> Nat] : f[0] = 1 /\ \A n \in Nat : f[n + 1] = Times[f[n]]
  <2> DEFINE N == Nat
             one == 1
  <2>1. one \in N /\ Times \in [N -> N]
    OBVIOUS
  <2>2. \E g \in [Nat -> N] : g[0] = one /\ \A n \in Nat : g[n + 1] = Times[g[n]]
    <3> HIDE DEF N, one, Times
    <3>1. QED
      BY <2>1, NatRecursion
  <2>3. QED
    BY <2>2
<1>2. f = Def(f)
  <2>1. ASSUME NEW n \in Nat PROVE f[n] = IF n = 0 THEN 1 ELSE b * f[n - 1]
    <3>1. CASE n = 0
      BY <1>1, <3>1
    <3>2. CASE n # 0
      <4>1. n - 1 \in Nat /\ (n - 1) + 1 = n
        BY <3>2
      <4>2. f[n] = Times[f[n - 1]]
        BY <1>1, <4>1
      <4>3. QED
        BY <1>1, <3>2, <4>1, <4>2
    <3>3. QED
      BY <3>1, <3>2
  <2>2. QED
    BY <2>1
<1>3. power = Def(power)
  <2> HIDE DEF Def
  <2>1. QED
    BY <1>2, Zenon
<1> DEFINE P == {n \in Nat : power[n] \in Nat \ {0}}
<1>4. \A n \in Nat : power[n] = IF n = 0 THEN 1 ELSE b * power[n - 1]
  <2> HIDE DEF power
  <2>1. QED
    BY <1>3
<1> HIDE DEF power
<1>5. 0 \in P
  BY <1>4
<1>6. ASSUME NEW n \in Nat, n \in P PROVE n + 1 \in P
  <2>1. n + 1 \in Nat /\ n + 1 # 0 /\ (n + 1) - 1 = n
    OBVIOUS
  <2>2. power[n + 1] = b * power[n]
    BY <1>4, <2>1
  <2>3. QED
    BY <1>6, <2>1, <2>2
<1>7. Nat \subseteq P
  <2> HIDE DEF P
  <2>1. QED
    BY <1>5, <1>6, NatSetInduction
<1>8. QED
  BY <1>7 DEF power

(* f is the loop over the states A that returns v[x] when it arrives in    *)
(* Done and goes on with step[x] otherwise.                                *)
IsLoop(f, A, Done, v, step) == f = [x \in A |-> IF x \in Done THEN v[x] ELSE f[step[x]]]

(* The recursive function that describes a loop exists, whether or not the *)
(* loop ends for every x.                                                  *)
LEMMA TailRecursion ==
    ASSUME NEW A, NEW Done, NEW v, NEW step, \A x \in A \ Done : step[x] \in A
    PROVE  \E f : IsLoop(f, A, Done, v, step)
<1> DEFINE F == [x \in A |-> IF x \in Done THEN x ELSE step[x]]
           IsRun(g, x) == g \in [Nat -> A] /\ g[0] = x /\ \A n \in Nat : g[n + 1] = F[g[n]]
           Run(x) == CHOOSE g : IsRun(g, x)
<1>1. F \in [A -> A]
  OBVIOUS
<1>2. \A x \in A : F[x] = IF x \in Done THEN x ELSE step[x]
  OBVIOUS
<1> HIDE DEF F
<1>3. \A x \in A : IsRun(Run(x), x)
  <2> SUFFICES ASSUME NEW x \in A PROVE \E g : IsRun(g, x)
    OBVIOUS
  <2>1. \E g \in [Nat -> A] : g[0] = x /\ \A n \in Nat : g[n + 1] = F[g[n]]
    BY <1>1, NatRecursion
  <2>2. QED
    BY <2>1
<1> HIDE DEF Run
<1>4. ASSUME NEW x \in A, NEW m \in Nat, Run(x)[m] \in Done, NEW k \in Nat
      PROVE  Run(x)[m + k] = Run(x)[m]
  <2> DEFINE P == {i \in Nat : Run(x)[m + i] = Run(x)[m]}
  <2>1. 0 \in P
    OBVIOUS
  <2>2. ASSUME NEW i \in Nat, i \in P PROVE i + 1 \in P
    <3>1. Run(x)[m + i] = Run(x)[m] /\ Run(x)[m] \in A
      BY <1>3, <2>2
    <3>2. m + i \in Nat /\ (m + i) + 1 = m + (i + 1)
      OBVIOUS
    <3>3. Run(x)[(m + i) + 1] = F[Run(x)[m + i]]
      BY <1>3, <3>2
    <3>4. Run(x)[m + (i + 1)] = Run(x)[m]
      BY <1>2, <1>4, <3>1, <3>2, <3>3
    <3>5. QED
      BY <3>4
  <2>3. Nat \subseteq P
    <3> HIDE DEF P
    <3>1. QED
      BY <2>1, <2>2, NatSetInduction
  <2>4. QED
    BY <2>3
<1>5. ASSUME NEW x \in A, NEW m \in Nat, NEW n \in Nat, Run(x)[m] \in Done, Run(x)[n] \in Done
      PROVE  Run(x)[m] = Run(x)[n]
  <2>1. CASE m <= n
    <3>1. n - m \in Nat /\ m + (n - m) = n
      BY <2>1
    <3>2. Run(x)[m + (n - m)] = Run(x)[m]
      BY <1>4, <1>5, <3>1
    <3>3. QED
      BY <3>1, <3>2
  <2>2. CASE n <= m
    <3>1. m - n \in Nat /\ n + (m - n) = m
      BY <2>2
    <3>2. Run(x)[n + (m - n)] = Run(x)[n]
      BY <1>4, <1>5, <3>1
    <3>3. QED
      BY <3>1, <3>2
  <2>3. QED
    BY <2>1, <2>2
<1>6. ASSUME NEW x \in A \ Done
      PROVE  step[x] \in A /\ \A n \in Nat : Run(step[x])[n] = Run(x)[n + 1]
  <2> DEFINE y == step[x]
             P == {n \in Nat : Run(y)[n] = Run(x)[n + 1]}
  <2>1. y \in A /\ F[x] = y
    BY <1>2
  <2> HIDE DEF y
  <2>2. 0 \in P
    <3>1. Run(x)[0] = x /\ Run(x)[0 + 1] = F[Run(x)[0]] /\ Run(y)[0] = y
      BY <1>3, <2>1
    <3>2. QED
      BY <2>1, <3>1
  <2>3. ASSUME NEW n \in Nat, n \in P PROVE n + 1 \in P
    <3>1. Run(y)[n + 1] = F[Run(y)[n]]
      BY <1>3, <2>1
    <3>2. n + 1 \in Nat
      OBVIOUS
    <3>3. \A i \in Nat : Run(x)[i + 1] = F[Run(x)[i]]
      BY <1>3
    <3>4. Run(x)[(n + 1) + 1] = F[Run(x)[n + 1]]
      BY <3>2, <3>3
    <3>5. QED
      BY <2>3, <3>1, <3>4
  <2>4. Nat \subseteq P
    <3> HIDE DEF P
    <3>1. QED
      BY <2>2, <2>3, NatSetInduction
  <2>5. QED
    BY <2>1, <2>4 DEF y
<1> DEFINE Ends(x) == {n \in Nat : Run(x)[n] \in Done}
           Val(x) == IF Ends(x) = {} THEN 0 ELSE v[Run(x)[CHOOSE n : n \in Ends(x)]]
           f == [x \in A |-> Val(x)]
<1>7. ASSUME NEW x \in A, NEW n \in Ends(x) PROVE Val(x) = v[Run(x)[n]]
  <2> DEFINE m == CHOOSE k : k \in Ends(x)
  <2>1. m \in Ends(x)
    OBVIOUS
  <2>2. Run(x)[m] = Run(x)[n]
    BY <1>5, <2>1
  <2>3. QED
    BY <2>2
<1>8. ASSUME NEW x \in A PROVE f[x] = IF x \in Done THEN v[x] ELSE f[step[x]]
  <2>1. CASE x \in Done
    <3>1. Run(x)[0] = x
      BY <1>3
    <3>2. 0 \in Ends(x)
      BY <2>1, <3>1
    <3>3. Val(x) = v[Run(x)[0]]
      BY <1>7, <3>2
    <3> HIDE DEF Val
    <3>4. QED
      BY <2>1, <3>1, <3>3
  <2>2. CASE x \notin Done
    <3>1. step[x] \in A /\ \A n \in Nat : Run(step[x])[n] = Run(x)[n + 1]
      BY <1>6, <2>2
    <3>2. Run(x)[0] = x
      BY <1>3
    <3>3. CASE Ends(step[x]) # {}
      <4>1. PICK n : n \in Ends(step[x])
        BY <3>3
      <4>2. n + 1 \in Ends(x)
        BY <3>1, <4>1
      <4>3. Val(step[x]) = v[Run(step[x])[n]]
        BY <1>7, <3>1, <4>1
      <4>4. Val(x) = v[Run(x)[n + 1]]
        BY <1>7, <4>2
      <4>5. Run(step[x])[n] = Run(x)[n + 1]
        BY <3>1, <4>1
      <4> HIDE DEF Val
      <4>6. QED
        BY <2>2, <3>1, <4>3, <4>4, <4>5
    <3>4. CASE Ends(step[x]) = {}
      <4>1. Ends(x) = {}
        <5> SUFFICES ASSUME NEW n \in Ends(x) PROVE FALSE
          OBVIOUS
        <5>1. n # 0
          BY <2>2, <3>2
        <5>2. n - 1 \in Nat /\ (n - 1) + 1 = n
          BY <5>1
        <5>3. Run(step[x])[n - 1] = Run(x)[n]
          BY <3>1, <5>2
        <5>4. n - 1 \in Ends(step[x])
          BY <5>2, <5>3
        <5>5. QED
          BY <3>4, <5>4
      <4>2. Val(x) = 0 /\ Val(step[x]) = 0
        BY <3>4, <4>1
      <4> HIDE DEF Val
      <4>3. QED
        BY <2>2, <3>1, <4>2
    <3>5. QED
      BY <3>3, <3>4
  <2>3. QED
    BY <2>1, <2>2
<1>9. f = [x \in A |-> IF x \in Done THEN v[x] ELSE f[step[x]]]
  <2>1. f = [x \in A |-> f[x]]
    OBVIOUS
  <2> HIDE DEF f
  <2>2. QED
    BY <1>8, <2>1
<1>10. QED
  BY <1>9 DEF IsLoop

(* The argument about a loop: Inv holds on the way, mu decreases with      *)
(* every step, and the values returned from within Inv are Good.           *)
LoopArgument(Inv, mu, Good, A, Done, v, step) ==
    /\ Inv \subseteq A
    /\ \A x \in Inv : mu[x] \in Nat
    /\ \A x \in Inv \ Done : step[x] \in Inv /\ mu[step[x]] < mu[x]
    /\ \A x \in Inv \cap Done : v[x] \in Good

(* With such an argument, what the loop returns is Good. *)
LEMMA LoopResult ==
    ASSUME NEW A, NEW Done, NEW v, NEW step, NEW f, IsLoop(f, A, Done, v, step),
           NEW Inv, NEW mu, NEW Good, LoopArgument(Inv, mu, Good, A, Done, v, step)
    PROVE  \A x \in Inv : f[x] \in Good
<1> USE DEF LoopArgument
<1> DEFINE P == {n \in Nat : \A x \in Inv : mu[x] <= n => f[x] \in Good}
<1>1. \A x \in Inv : f[x] = IF x \in Done THEN v[x] ELSE f[step[x]]
  BY DEF IsLoop
<1>2. 0 \in P
  <2> SUFFICES ASSUME NEW x \in Inv, mu[x] <= 0 PROVE f[x] \in Good
    OBVIOUS
  <2>1. x \in Done
    <3> SUFFICES ASSUME x \notin Done PROVE FALSE
      OBVIOUS
    <3>1. step[x] \in Inv /\ mu[step[x]] < mu[x]
      OBVIOUS
    <3>2. mu[step[x]] \in Nat /\ mu[x] \in Nat
      BY <3>1
    <3>3. QED
      BY <3>1, <3>2
  <2>2. QED
    BY <1>1, <2>1
<1>3. ASSUME NEW n \in Nat, n \in P PROVE n + 1 \in P
  <2> SUFFICES ASSUME NEW x \in Inv, mu[x] <= n + 1 PROVE f[x] \in Good
    OBVIOUS
  <2>1. CASE x \in Done
    BY <1>1, <2>1
  <2>2. CASE x \notin Done
    <3>1. step[x] \in Inv /\ mu[step[x]] < mu[x] /\ mu[x] \in Nat
      BY <2>2
    <3>2. mu[step[x]] \in Nat
      BY <3>1
    <3>3. mu[step[x]] <= n
      BY <3>1, <3>2
    <3>4. f[step[x]] \in Good
      BY <1>3, <3>1, <3>3
    <3>5. QED
      BY <1>1, <2>2, <3>4
  <2>3. QED
    BY <2>1, <2>2
<1>4. Nat \subseteq P
  <2> HIDE DEF P
  <2>1. QED
    BY <1>2, <1>3, NatSetInduction
<1>5. QED
  BY <1>4

-----------------------------------------------------------------------------
(* The element that the sum takes first. *)
Pick(s) == CHOOSE x \in s : TRUE

(* g holds the sum of f over each subset of S. *)
SumsOn(g, f, S) ==
    g = [s \in SUBSET S |-> IF s = {} THEN 0 ELSE f[Pick(s)] + g[s \ {Pick(s)}]]

(* The sum is the value of such a g. *)
LEMMA SumIsChosen ==
    ASSUME NEW f, NEW S
    PROVE  SumFunctionOnSet(f, S) = (CHOOSE g : SumsOn(g, f, S))[S]
  BY DEF SumFunctionOnSet, FoldFunctionOnSet, MapThenFoldSet, SumsOn, Pick

(* There is at most one. *)
LEMMA SumsUnique ==
    ASSUME NEW f, NEW S, IsFiniteSet(S), NEW g, NEW h, SumsOn(g, f, S), SumsOn(h, f, S)
    PROVE  g = h
<1> DEFINE P == {T \in SUBSET S : g[T] = h[T]}
<1>1. ASSUME NEW T \in SUBSET S, \A U \in SUBSET T : U # T => U \in P
      PROVE  T \in P
  <2>1. CASE T = {}
    BY <2>1 DEF SumsOn
  <2>2. CASE T # {}
    <3>1. Pick(T) \in T
      BY <2>2 DEF Pick
    <3>2. T \ {Pick(T)} \in P
      BY <1>1, <3>1
    <3>3. g[T] = f[Pick(T)] + g[T \ {Pick(T)}] /\ h[T] = f[Pick(T)] + h[T \ {Pick(T)}]
      BY <2>2 DEF SumsOn
    <3>4. QED
      BY <3>2, <3>3
  <2>3. QED
    BY <2>1, <2>2
<1>2. SUBSET S \subseteq P
  <2> HIDE DEF P
  <2>1. QED
    BY <1>1, SubsetInduction
<1>3. QED
  BY <1>2 DEF SumsOn

(* The sums over the subsets of S are sums over the subsets of a part. *)
LEMMA SumsRestrict ==
    ASSUME NEW f, NEW S, NEW T \in SUBSET S, NEW g, SumsOn(g, f, S)
    PROVE  SumsOn([s \in SUBSET T |-> g[s]], f, T)
<1> DEFINE h == [s \in SUBSET T |-> g[s]]
<1>1. ASSUME NEW s \in SUBSET T
      PROVE  h[s] = IF s = {} THEN 0 ELSE f[Pick(s)] + h[s \ {Pick(s)}]
  <2>1. s \in SUBSET S /\ s \ {Pick(s)} \in SUBSET T
    OBVIOUS
  <2>2. g[s] = IF s = {} THEN 0 ELSE f[Pick(s)] + g[s \ {Pick(s)}]
    BY <2>1 DEF SumsOn
  <2>3. QED
    BY <2>1, <2>2
<1>2. h = [s \in SUBSET T |-> IF s = {} THEN 0 ELSE f[Pick(s)] + h[s \ {Pick(s)}]]
  BY <1>1
<1>3. QED
  BY <1>2 DEF SumsOn

(* Any g that holds the sums agrees with the operator. *)
LEMMA SumsAgree ==
    ASSUME NEW f, NEW S, IsFiniteSet(S), NEW g, SumsOn(g, f, S), NEW T \in SUBSET S
    PROVE  g[T] = SumFunctionOnSet(f, T)
<1> DEFINE h == [s \in SUBSET T |-> g[s]]
<1>1. SumsOn(h, f, T)
  BY SumsRestrict
<1>2. IsFiniteSet(T)
  BY FS_Subset
<1> DEFINE c == CHOOSE k : SumsOn(k, f, T)
<1>3. SumsOn(c, f, T)
  BY <1>1
<1>4. c = h
  <2> HIDE DEF c, h
  <2>1. QED
    BY <1>1, <1>2, <1>3, SumsUnique
<1>5. SumFunctionOnSet(f, T) = c[T]
  BY SumIsChosen
<1>6. QED
  BY <1>4, <1>5

(* There is one. *)
LEMMA SumsExist ==
    ASSUME NEW f, NEW S, IsFiniteSet(S)
    PROVE  \E g : SumsOn(g, f, S)
<1> DEFINE P == {T \in SUBSET S : \E g : SumsOn(g, f, T)}
<1>1. ASSUME NEW T \in SUBSET S, \A U \in SUBSET T : U # T => U \in P
      PROVE  T \in P
  <2> DEFINE g == [s \in SUBSET T |-> IF s = {} THEN 0
                                      ELSE f[Pick(s)] + SumFunctionOnSet(f, s \ {Pick(s)})]
  <2>1. ASSUME NEW U \in SUBSET T, U # T
        PROVE  g[U] = SumFunctionOnSet(f, U)
    <3>1. PICK k : SumsOn(k, f, U)
      BY <1>1, <2>1
    <3>2. IsFiniteSet(U) /\ U \ {Pick(U)} \in SUBSET U /\ U \in SUBSET U
      BY FS_Subset
    <3>3. k[U] = SumFunctionOnSet(f, U) /\ k[U \ {Pick(U)}] = SumFunctionOnSet(f, U \ {Pick(U)})
      BY <3>1, <3>2, SumsAgree
    <3>4. k[U] = IF U = {} THEN 0 ELSE f[Pick(U)] + k[U \ {Pick(U)}]
      BY <3>1, <3>2 DEF SumsOn
    <3>5. QED
      BY <3>3, <3>4
  <2>2. ASSUME NEW s \in SUBSET T
        PROVE  g[s] = IF s = {} THEN 0 ELSE f[Pick(s)] + g[s \ {Pick(s)}]
    <3>1. CASE s = {}
      BY <3>1
    <3>2. CASE s # {}
      <4>1. Pick(s) \in s
        BY <3>2 DEF Pick
      <4>2. s \ {Pick(s)} \in SUBSET T /\ s \ {Pick(s)} # T
        BY <4>1
      <4>3. g[s \ {Pick(s)}] = SumFunctionOnSet(f, s \ {Pick(s)})
        BY <4>2, <2>1
      <4>4. QED
        BY <3>2, <4>3
    <3>3. QED
      BY <3>1, <3>2
  <2>3. SumsOn(g, f, T)
    BY <2>2 DEF SumsOn
  <2>4. QED
    BY <2>3
<1>2. SUBSET S \subseteq P
  <2> HIDE DEF P
  <2>1. QED
    BY <1>1, SubsetInduction
<1>3. QED
  BY <1>2

-----------------------------------------------------------------------------
(* The sum over nothing is zero. *)
LEMMA SumEmpty == ASSUME NEW f PROVE SumFunctionOnSet(f, {}) = 0
<1>1. IsFiniteSet({})
  BY FS_EmptySet
<1>2. PICK g : SumsOn(g, f, {})
  BY <1>1, SumsExist
<1>3. g[{}] = SumFunctionOnSet(f, {})
  BY <1>1, <1>2, SumsAgree
<1>4. QED
  BY <1>2, <1>3 DEF SumsOn

(* The recursion of the sum. *)
LEMMA SumStep ==
    ASSUME NEW f, NEW S, IsFiniteSet(S), S # {}
    PROVE  /\ Pick(S) \in S
           /\ SumFunctionOnSet(f, S) = f[Pick(S)] + SumFunctionOnSet(f, S \ {Pick(S)})
<1>1. PICK g : SumsOn(g, f, S)
  BY SumsExist
<1>2. S \in SUBSET S /\ S \ {Pick(S)} \in SUBSET S
  OBVIOUS
<1>3. \A T \in SUBSET S : g[T] = SumFunctionOnSet(f, T)
  BY <1>1, SumsAgree
<1>4. g[S] = SumFunctionOnSet(f, S)
  BY ONLY <1>2, <1>3
<1>5. g[S \ {Pick(S)}] = SumFunctionOnSet(f, S \ {Pick(S)})
  BY ONLY <1>2, <1>3
<1>6. QED
  BY <1>1, <1>2, <1>4, <1>5 DEF SumsOn, Pick

(* Induction along the order of summation. *)
LEMMA PickInduction ==
    ASSUME NEW S, IsFiniteSet(S), NEW P, {} \in P,
           ASSUME NEW T \in SUBSET S, IsFiniteSet(T), T # {}, T \ {Pick(T)} \in P
           PROVE  T \in P
    PROVE  S \in P
<1>1. ASSUME NEW T \in SUBSET S, \A U \in SUBSET T : U # T => U \in P
      PROVE  T \in P
  <2>1. CASE T = {}
    BY <2>1
  <2>2. CASE T # {}
    <3>1. Pick(T) \in T
      BY <2>2 DEF Pick
    <3>2. T \ {Pick(T)} \in P
      BY <1>1, <3>1
    <3>3. IsFiniteSet(T)
      BY FS_Subset
    <3>4. QED
      BY <2>2, <3>2, <3>3
  <2>3. QED
    BY <2>1, <2>2
<1>2. SUBSET S \subseteq P
  BY <1>1, SubsetInduction
<1>3. QED
  BY <1>2

(* A sum of integers is an integer. *)
LEMMA SumInt ==
    ASSUME NEW f, NEW S, IsFiniteSet(S), \A x \in S : f[x] \in Int
    PROVE  SumFunctionOnSet(f, S) \in Int
<1> DEFINE P == {T \in SUBSET S : SumFunctionOnSet(f, T) \in Int}
<1>1. {} \in P
  BY SumEmpty
<1>2. ASSUME NEW T \in SUBSET S, IsFiniteSet(T), T # {}, T \ {Pick(T)} \in P
      PROVE  T \in P
  <2>1. Pick(T) \in T /\ SumFunctionOnSet(f, T) = f[Pick(T)] + SumFunctionOnSet(f, T \ {Pick(T)})
    BY <1>2, SumStep
  <2>2. f[Pick(T)] \in Int /\ SumFunctionOnSet(f, T \ {Pick(T)}) \in Int
    BY <1>2, <2>1
  <2>3. QED
    BY <2>1, <2>2
<1>3. S \in P
  <2> HIDE DEF P
  <2>1. QED
    BY <1>1, <1>2, PickInduction
<1>4. QED
  BY <1>3

(* A sum of naturals is a natural. *)
LEMMA SumNat ==
    ASSUME NEW f, NEW S, IsFiniteSet(S), \A x \in S : f[x] \in Nat
    PROVE  SumFunctionOnSet(f, S) \in Nat
<1> DEFINE P == {T \in SUBSET S : SumFunctionOnSet(f, T) \in Nat}
<1>1. {} \in P
  BY SumEmpty
<1>2. ASSUME NEW T \in SUBSET S, IsFiniteSet(T), T # {}, T \ {Pick(T)} \in P
      PROVE  T \in P
  <2>1. Pick(T) \in T /\ SumFunctionOnSet(f, T) = f[Pick(T)] + SumFunctionOnSet(f, T \ {Pick(T)})
    BY <1>2, SumStep
  <2>2. f[Pick(T)] \in Nat /\ SumFunctionOnSet(f, T \ {Pick(T)}) \in Nat
    BY <1>2, <2>1
  <2>3. QED
    BY <2>1, <2>2
<1>3. S \in P
  <2> HIDE DEF P
  <2>1. QED
    BY <1>1, <1>2, PickInduction
<1>4. QED
  BY <1>3

(* A sum looks only at the values of the function on the set. *)
LEMMA SumSame ==
    ASSUME NEW f, NEW g, NEW S, IsFiniteSet(S), \A x \in S : f[x] = g[x]
    PROVE  SumFunctionOnSet(f, S) = SumFunctionOnSet(g, S)
<1> DEFINE P == {T \in SUBSET S : SumFunctionOnSet(f, T) = SumFunctionOnSet(g, T)}
<1>1. {} \in P
  BY SumEmpty
<1>2. ASSUME NEW T \in SUBSET S, IsFiniteSet(T), T # {}, T \ {Pick(T)} \in P
      PROVE  T \in P
  BY <1>2, SumStep
<1>3. S \in P
  <2> HIDE DEF P
  <2>1. QED
    BY <1>1, <1>2, PickInduction
<1>4. QED
  BY <1>3

(* The order of summation does not matter: any element may be taken first. *)
LEMMA SumTake ==
    ASSUME NEW f, NEW S, IsFiniteSet(S), \A x \in S : f[x] \in Int, NEW y \in S
    PROVE  SumFunctionOnSet(f, S) = f[y] + SumFunctionOnSet(f, S \ {y})
<1> DEFINE P == {T \in SUBSET S : \A x \in T :
                     SumFunctionOnSet(f, T) = f[x] + SumFunctionOnSet(f, T \ {x})}
<1>1. ASSUME NEW T \in SUBSET S, \A U \in SUBSET T : U # T => U \in P
      PROVE  T \in P
  <2> SUFFICES ASSUME NEW x \in T
               PROVE  SumFunctionOnSet(f, T) = f[x] + SumFunctionOnSet(f, T \ {x})
    OBVIOUS
  <2> DEFINE c == Pick(T)
  <2>1. IsFiniteSet(T)
    BY FS_Subset
  <2>2. c \in T /\ SumFunctionOnSet(f, T) = f[c] + SumFunctionOnSet(f, T \ {c})
    BY <2>1, SumStep
  <2>3. CASE x = c
    BY <2>2, <2>3
  <2>4. CASE x # c
    <3> HIDE DEF c
    <3>1. T \ {c} \in P /\ x \in T \ {c} /\ T \ {x} \in P /\ c \in T \ {x}
      BY <1>1, <2>2, <2>4
    <3>2. /\ SumFunctionOnSet(f, T \ {c}) = f[x] + SumFunctionOnSet(f, (T \ {c}) \ {x})
          /\ SumFunctionOnSet(f, T \ {x}) = f[c] + SumFunctionOnSet(f, (T \ {x}) \ {c})
      BY <3>1
    <3>3. (T \ {c}) \ {x} = (T \ {x}) \ {c} /\ (T \ {c}) \ {x} \in SUBSET S
      OBVIOUS
    <3>4. IsFiniteSet((T \ {c}) \ {x})
      BY <3>3, FS_Subset
    <3>5. SumFunctionOnSet(f, (T \ {c}) \ {x}) \in Int
      BY <3>3, <3>4, SumInt
    <3>6. f[x] \in Int /\ f[c] \in Int
      BY <2>2
    <3>7. SumFunctionOnSet(f, T) = f[c] + (f[x] + SumFunctionOnSet(f, (T \ {c}) \ {x}))
      BY <2>2, <3>2, Zenon
    <3>8. f[x] + SumFunctionOnSet(f, T \ {x}) = f[x] + (f[c] + SumFunctionOnSet(f, (T \ {c}) \ {x}))
      BY <3>2, <3>3, Zenon
    <3>9. QED
      BY <3>5, <3>6, <3>7, <3>8
  <2>5. QED
    BY <2>3, <2>4
<1>2. SUBSET S \subseteq P
  <2> HIDE DEF P
  <2>1. QED
    BY <1>1, SubsetInduction
<1>3. S \in SUBSET S
  OBVIOUS
<1>4. QED
  BY <1>2, <1>3

(* Adding an element adds its value. *)
LEMMA SumAdd ==
    ASSUME NEW f, NEW S, IsFiniteSet(S), NEW y, y \notin S, \A x \in S \cup {y} : f[x] \in Int
    PROVE  SumFunctionOnSet(f, S \cup {y}) = f[y] + SumFunctionOnSet(f, S)
<1>1. IsFiniteSet(S \cup {y}) /\ (S \cup {y}) \ {y} = S /\ y \in S \cup {y}
  BY FS_AddElement
<1>2. QED
  BY <1>1, SumTake

(* A function changed at one argument changes the sum by the difference. *)
LEMMA SumChange ==
    ASSUME NEW f, NEW g, NEW S, IsFiniteSet(S), NEW y \in S,
           \A x \in S : f[x] \in Int /\ g[x] \in Int,
           \A x \in S : x # y => f[x] = g[x]
    PROVE  SumFunctionOnSet(g, S) = SumFunctionOnSet(f, S) - f[y] + g[y]
<1>1. IsFiniteSet(S \ {y})
  BY FS_RemoveElement
<1>2. SumFunctionOnSet(f, S \ {y}) = SumFunctionOnSet(g, S \ {y})
  BY <1>1, SumSame
<1>3. SumFunctionOnSet(f, S \ {y}) \in Int
  BY <1>1, SumInt
<1>4. /\ SumFunctionOnSet(f, S) = f[y] + SumFunctionOnSet(f, S \ {y})
      /\ SumFunctionOnSet(g, S) = g[y] + SumFunctionOnSet(g, S \ {y})
  BY SumTake
<1>5. QED
  BY <1>2, <1>3, <1>4

(* Sums of naturals grow with the set. *)
LEMMA SumMonotone ==
    ASSUME NEW f, NEW S, IsFiniteSet(S), \A x \in S : f[x] \in Nat, NEW T \in SUBSET S
    PROVE  SumFunctionOnSet(f, T) <= SumFunctionOnSet(f, S)
<1> DEFINE P == {U \in SUBSET S : SumFunctionOnSet(f, U \cap T) <= SumFunctionOnSet(f, U)}
<1>1. {} \in P
  BY SumEmpty
<1>2. ASSUME NEW U \in SUBSET S, IsFiniteSet(U), U # {}, U \ {Pick(U)} \in P
      PROVE  U \in P
  <2> DEFINE c == Pick(U)
             V == U \ {c}
  <2>1. c \in U /\ SumFunctionOnSet(f, U) = f[c] + SumFunctionOnSet(f, V)
    BY <1>2, SumStep
  <2>2. IsFiniteSet(V) /\ IsFiniteSet(V \cap T)
    BY <1>2, FS_Subset
  <2>3. /\ SumFunctionOnSet(f, V) \in Nat /\ SumFunctionOnSet(f, V \cap T) \in Nat /\ f[c] \in Nat
        /\ SumFunctionOnSet(f, V \cap T) <= SumFunctionOnSet(f, V)
    <3> HIDE DEF c
    <3>1. QED
      BY <1>2, <2>1, <2>2, SumNat DEF c
  <2>4. CASE c \in T
    <3>1. U \cap T = (V \cap T) \cup {c} /\ c \notin V \cap T
      BY <2>1, <2>4
    <3>2. SumFunctionOnSet(f, U \cap T) = f[c] + SumFunctionOnSet(f, V \cap T)
      <4> HIDE DEF c, V
      <4>1. \A x \in (V \cap T) \cup {c} : f[x] \in Int
        BY <2>1, <3>1
      <4>2. QED
        BY <2>2, <3>1, <4>1, SumAdd
    <3>3. SumFunctionOnSet(f, U \cap T) <= SumFunctionOnSet(f, U)
      <4> HIDE DEF c, V
      <4>1. QED
        BY <2>1, <2>3, <3>2
    <3>4. QED
      BY <3>3
  <2>5. CASE c \notin T
    <3>1. U \cap T = V \cap T
      BY <2>5
    <3>2. SumFunctionOnSet(f, U \cap T) <= SumFunctionOnSet(f, U)
      <4> HIDE DEF c, V
      <4>1. SumFunctionOnSet(f, U \cap T) = SumFunctionOnSet(f, V \cap T)
        BY <3>1
      <4>2. QED
        BY <2>1, <2>3, <4>1
    <3>3. QED
      BY <3>2
  <2>6. QED
    BY <2>4, <2>5
<1>3. S \in P
  <2> HIDE DEF P
  <2>1. QED
    BY <1>1, <1>2, PickInduction
<1>4. S \cap T = T
  OBVIOUS
<1>5. QED
  BY <1>3, <1>4

(* No single value exceeds the sum. *)
LEMMA SumCovers ==
    ASSUME NEW f, NEW S, IsFiniteSet(S), \A x \in S : f[x] \in Nat, NEW y \in S
    PROVE  f[y] <= SumFunctionOnSet(f, S)
<1>1. SumFunctionOnSet(f, S) = f[y] + SumFunctionOnSet(f, S \ {y})
  BY SumTake
<1>2. IsFiniteSet(S \ {y})
  BY FS_RemoveElement
<1>3. SumFunctionOnSet(f, S \ {y}) \in Nat
  BY <1>2, SumNat
<1>4. QED
  BY <1>1, <1>3

-----------------------------------------------------------------------------
(* The sum of all values of a function of integers is an integer, of       *)
(* naturals a natural.                                                     *)
LEMMA SumFunctionType ==
    ASSUME NEW f, IsFiniteSet(DOMAIN f)
    PROVE  /\ (\A x \in DOMAIN f : f[x] \in Int) => SumFunction(f) \in Int
           /\ (\A x \in DOMAIN f : f[x] \in Nat) => SumFunction(f) \in Nat
  BY SumInt, SumNat DEF SumFunction

(* A function of no arguments sums to zero. *)
LEMMA SumFunctionEmpty == ASSUME NEW f, DOMAIN f = {} PROVE SumFunction(f) = 0
  BY SumEmpty DEF SumFunction

(* Storing a value under an argument, new or not, changes the sum by the   *)
(* difference.                                                             *)
LEMMA SumFunctionPut ==
    ASSUME NEW f, NEW g, NEW y, IsFiniteSet(DOMAIN f), DOMAIN g = DOMAIN f \cup {y},
           \A x \in DOMAIN f : f[x] \in Int, g[y] \in Int,
           \A x \in DOMAIN f \ {y} : g[x] = f[x]
    PROVE  SumFunction(g) = SumFunction(f) + g[y] - (IF y \in DOMAIN f THEN f[y] ELSE 0)
<1> DEFINE X == DOMAIN f
<1>1. SumFunction(f) = SumFunctionOnSet(f, X) /\ SumFunction(g) = SumFunctionOnSet(g, X \cup {y})
  BY DEF SumFunction
<1>2. \A x \in X \cup {y} : g[x] \in Int
  OBVIOUS
<1> HIDE DEF X
<1>3. CASE y \in X
  <2>1. X \cup {y} = X
    BY <1>3
  <2>2. SumFunctionOnSet(g, X) = SumFunctionOnSet(f, X) - f[y] + g[y]
    BY <1>2, <1>3, <2>1, SumChange DEF X
  <2>3. SumFunctionOnSet(f, X) \in Int /\ f[y] \in Int
    BY <1>3, SumInt DEF X
  <2>4. QED
    BY <1>1, <1>3, <2>1, <2>2, <2>3 DEF X
<1>4. CASE y \notin X
  <2>1. SumFunctionOnSet(g, X \cup {y}) = g[y] + SumFunctionOnSet(g, X)
    BY <1>2, <1>4, SumAdd DEF X
  <2>2. SumFunctionOnSet(g, X) = SumFunctionOnSet(f, X)
    BY <1>4, SumSame DEF X
  <2>3. SumFunctionOnSet(f, X) \in Int
    BY SumInt DEF X
  <2>4. QED
    BY <1>1, <1>4, <2>1, <2>2, <2>3 DEF X
<1>5. QED
  BY <1>3, <1>4

(* Removing an argument subtracts its value. *)
LEMMA SumFunctionDrop ==
    ASSUME NEW f, NEW g, NEW y \in DOMAIN f, IsFiniteSet(DOMAIN f), DOMAIN g = DOMAIN f \ {y},
           \A x \in DOMAIN f : f[x] \in Int,
           \A x \in DOMAIN g : g[x] = f[x]
    PROVE  SumFunction(g) = SumFunction(f) - f[y]
<1> DEFINE X == DOMAIN f
<1>1. SumFunction(f) = SumFunctionOnSet(f, X) /\ SumFunction(g) = SumFunctionOnSet(g, X \ {y})
  BY DEF SumFunction
<1>2. IsFiniteSet(X \ {y}) /\ \A x \in X \ {y} : g[x] = f[x]
  BY FS_RemoveElement
<1>3. SumFunctionOnSet(g, X \ {y}) = SumFunctionOnSet(f, X \ {y})
  BY <1>2, SumSame
<1>4. SumFunctionOnSet(f, X) = f[y] + SumFunctionOnSet(f, X \ {y})
  BY SumTake
<1>5. SumFunctionOnSet(f, X \ {y}) \in Int /\ f[y] \in Int
  BY <1>2, SumInt
<1>6. QED
  BY <1>1, <1>3, <1>4, <1>5

(* No single value of naturals exceeds their sum. *)
LEMMA SumFunctionCovers ==
    ASSUME NEW f, IsFiniteSet(DOMAIN f), \A x \in DOMAIN f : f[x] \in Nat, NEW y \in DOMAIN f
    PROVE  f[y] <= SumFunction(f)
  BY SumCovers DEF SumFunction

(* Sums can be added value by value. *)
LEMMA SumFunctionAdd ==
    ASSUME NEW f, NEW g, NEW h, IsFiniteSet(DOMAIN f), DOMAIN g = DOMAIN f, DOMAIN h = DOMAIN f,
           \A x \in DOMAIN f : f[x] \in Int /\ g[x] \in Int /\ h[x] = f[x] + g[x]
    PROVE  SumFunction(h) = SumFunction(f) + SumFunction(g)
<1> DEFINE S == DOMAIN f
           P == {T \in SUBSET S : SumFunctionOnSet(h, T) = SumFunctionOnSet(f, T) + SumFunctionOnSet(g, T)}
<1>1. {} \in P
  BY SumEmpty
<1>2. ASSUME NEW T \in SUBSET S, IsFiniteSet(T), T # {}, T \ {Pick(T)} \in P
      PROVE  T \in P
  <2> DEFINE c == Pick(T)
             U == T \ {c}
  <2>1. /\ c \in T /\ SumFunctionOnSet(f, T) = f[c] + SumFunctionOnSet(f, U)
        /\ SumFunctionOnSet(g, T) = g[c] + SumFunctionOnSet(g, U)
        /\ SumFunctionOnSet(h, T) = h[c] + SumFunctionOnSet(h, U)
    BY <1>2, SumStep
  <2>2. IsFiniteSet(U) /\ U \in SUBSET S
    BY <1>2, FS_Subset
  <2>3. SumFunctionOnSet(f, U) \in Int /\ SumFunctionOnSet(g, U) \in Int
    <3>1. \A x \in U : f[x] \in Int /\ g[x] \in Int
      BY <2>2
    <3> HIDE DEF U
    <3>2. QED
      BY <2>2, <3>1, SumInt
  <2>4. f[c] \in Int /\ g[c] \in Int /\ h[c] = f[c] + g[c]
    BY <2>1
  <2>5. SumFunctionOnSet(h, U) = SumFunctionOnSet(f, U) + SumFunctionOnSet(g, U)
    BY <1>2
  <2> HIDE DEF c, U
  <2>6. SumFunctionOnSet(h, T) = SumFunctionOnSet(f, T) + SumFunctionOnSet(g, T)
    BY <2>1, <2>3, <2>4, <2>5
  <2>7. QED
    BY <2>6
<1>3. S \in P
  <2> HIDE DEF P
  <2>1. IsFiniteSet(S)
    OBVIOUS
  <2> HIDE DEF S
  <2>2. QED
    BY <1>1, <1>2, <2>1, PickInduction
<1>4. QED
  BY <1>3 DEF SumFunction

(* What G gives to the parts, together, is at most what it gives to the    *)
(* whole, when that is so for two parts.                                   *)
LEMMA SumFunctionOfParts ==
    ASSUME NEW G \in [Nat -> Nat], \A m, n \in Nat : G[m] + G[n] <= G[m + n],
           NEW f, NEW g, IsFiniteSet(DOMAIN f), DOMAIN g = DOMAIN f,
           \A x \in DOMAIN f : f[x] \in Nat /\ g[x] = G[f[x]]
    PROVE  SumFunction(g) <= G[SumFunction(f)]
<1> DEFINE S == DOMAIN f
           P == {T \in SUBSET S : SumFunctionOnSet(g, T) <= G[SumFunctionOnSet(f, T)]}
<1>1. {} \in P
  BY SumEmpty
<1>2. ASSUME NEW T \in SUBSET S, IsFiniteSet(T), T # {}, T \ {Pick(T)} \in P
      PROVE  T \in P
  <2> DEFINE c == Pick(T)
             U == T \ {c}
  <2>1. /\ c \in T /\ SumFunctionOnSet(f, T) = f[c] + SumFunctionOnSet(f, U)
        /\ SumFunctionOnSet(g, T) = g[c] + SumFunctionOnSet(g, U)
    BY <1>2, SumStep
  <2>2. IsFiniteSet(U) /\ U \in SUBSET S
    BY <1>2, FS_Subset
  <2>3. SumFunctionOnSet(f, U) \in Nat /\ SumFunctionOnSet(g, U) \in Nat
    <3>1. \A x \in U : f[x] \in Nat /\ g[x] \in Nat
      BY <2>2
    <3> HIDE DEF U
    <3>2. QED
      BY <2>2, <3>1, SumNat
  <2>4. f[c] \in Nat /\ g[c] = G[f[c]]
    BY <2>1
  <2>5. SumFunctionOnSet(g, U) <= G[SumFunctionOnSet(f, U)]
    BY <1>2
  <2> HIDE DEF c, U
  <2>6. PICK k, m \in Nat : k = f[c] /\ m = SumFunctionOnSet(f, U)
    BY <2>3, <2>4
  <2>7. k + m = SumFunctionOnSet(f, T) /\ k + m \in Nat
    <3>1. SumFunctionOnSet(f, T) = f[c] + SumFunctionOnSet(f, U)
      BY <2>1
    <3>2. SumFunctionOnSet(f, T) = k + m
      BY <2>6, <3>1
    <3>3. k + m \in Nat
      OBVIOUS
    <3>4. QED
      BY ONLY <3>2, <3>3
  <2>8. SumFunctionOnSet(g, T) <= G[SumFunctionOnSet(f, T)]
    <3>1. G[k] + G[m] <= G[k + m] /\ G[k] \in Nat /\ G[m] \in Nat /\ G[k + m] \in Nat
      BY <2>7
    <3>2. PICK n \in Nat : n = SumFunctionOnSet(g, U)
      BY <2>3
    <3>3. n <= G[m] /\ SumFunctionOnSet(g, T) = G[k] + n
      BY <2>1, <2>4, <2>5, <2>6, <3>2
    <3>4. SumFunctionOnSet(g, T) <= G[k + m]
      BY <3>1, <3>3
    <3>5. QED
      BY <2>7, <3>4
  <2>9. QED
    BY <2>8
<1>3. S \in P
  <2> HIDE DEF P
  <2>1. IsFiniteSet(S)
    OBVIOUS
  <2> HIDE DEF S
  <2>2. QED
    BY <1>1, <1>2, <2>1, PickInduction
<1>4. QED
  BY <1>3 DEF SumFunction

(* One more element of the set adds its value when the function has it. *)
LEMMA SumNext ==
    ASSUME NEW f, NEW V, IsFiniteSet(V), NEW c, c \notin V, \A x \in DOMAIN f : f[x] \in Int
    PROVE  /\ SumFunctionOnSet(f, V \cap DOMAIN f) \in Int
           /\ SumFunctionOnSet(f, (V \cup {c}) \cap DOMAIN f)
                = SumFunctionOnSet(f, V \cap DOMAIN f) + (IF c \in DOMAIN f THEN f[c] ELSE 0)
<1> DEFINE W == V \cap DOMAIN f
<1>1. IsFiniteSet(W) /\ c \notin W /\ \A x \in W : f[x] \in Int
  BY FS_Subset
<1> HIDE DEF W
<1>2. SumFunctionOnSet(f, W) \in Int
  BY <1>1, SumInt
<1>3. CASE c \in DOMAIN f
  <2>1. (V \cup {c}) \cap DOMAIN f = W \cup {c}
    BY <1>3 DEF W
  <2>2. \A x \in W \cup {c} : f[x] \in Int
    BY <1>1, <1>3
  <2>3. SumFunctionOnSet(f, W \cup {c}) = f[c] + SumFunctionOnSet(f, W)
    BY <1>1, <2>2, SumAdd
  <2>4. f[c] \in Int
    BY <1>3
  <2>5. f[c] + SumFunctionOnSet(f, W) = SumFunctionOnSet(f, W) + f[c]
    BY <1>2, <2>4
  <2>6. QED
    BY <1>2, <1>3, <2>1, <2>3, <2>5 DEF W
<1>4. CASE c \notin DOMAIN f
  <2>1. (V \cup {c}) \cap DOMAIN f = W
    BY <1>4 DEF W
  <2>2. SumFunctionOnSet(f, W) + 0 = SumFunctionOnSet(f, W)
    BY <1>2
  <2>3. QED
    BY <1>2, <1>4, <2>1, <2>2 DEF W
<1>5. QED
  BY <1>3, <1>4

(* Two functions that share out the arguments of a third, and are nowhere  *)
(* above it, sum to at most its sum.                                       *)
LEMMA SumFunctionShared ==
    ASSUME NEW f, NEW g, NEW h, IsFiniteSet(DOMAIN h), DOMAIN f \cup DOMAIN g = DOMAIN h,
           DOMAIN f \cap DOMAIN g = {}, \A x \in DOMAIN h : h[x] \in Int,
           \A x \in DOMAIN f : f[x] \in Int /\ f[x] <= h[x],
           \A x \in DOMAIN g : g[x] \in Int /\ g[x] <= h[x]
    PROVE  SumFunction(f) + SumFunction(g) <= SumFunction(h)
<1> DEFINE S == DOMAIN h
           Over(k, T) == SumFunctionOnSet(k, T \cap DOMAIN k)
           P == {T \in SUBSET S : Over(f, T) + Over(g, T) <= Over(h, T)}
<1>1. {} \in P
  <2>1. {} \cap DOMAIN f = {} /\ {} \cap DOMAIN g = {} /\ {} \cap DOMAIN h = {}
    OBVIOUS
  <2>2. Over(f, {}) = 0 /\ Over(g, {}) = 0 /\ Over(h, {}) = 0
    BY <2>1, SumEmpty
  <2>3. QED
    BY <2>2
<1>2. ASSUME NEW T \in SUBSET S, IsFiniteSet(T), T # {}, T \ {Pick(T)} \in P
      PROVE  T \in P
  <2> DEFINE c == Pick(T)
             U == T \ {c}
             At(k) == IF c \in DOMAIN k THEN k[c] ELSE 0
  <2>1. c \in T
    BY <1>2, SumStep
  <2>2. IsFiniteSet(U) /\ c \notin U /\ T = U \cup {c}
    BY <1>2, <2>1, FS_Subset
  <2>3. Over(f, U) + Over(g, U) <= Over(h, U)
    BY <1>2
  <2> HIDE DEF c, U
  <2>4. Over(f, U) \in Int /\ Over(f, T) = Over(f, U) + At(f)
    BY <2>2, SumNext
  <2>5. Over(g, U) \in Int /\ Over(g, T) = Over(g, U) + At(g)
    BY <2>2, SumNext
  <2>6. Over(h, U) \in Int /\ Over(h, T) = Over(h, U) + At(h)
    BY <2>2, SumNext
  <2>7. At(f) \in Int /\ At(g) \in Int /\ At(h) \in Int /\ At(f) + At(g) <= At(h)
    <3>1. c \in DOMAIN h
      BY <2>1
    <3>2. CASE c \in DOMAIN f
      BY <3>1, <3>2
    <3>3. CASE c \in DOMAIN g
      BY <3>1, <3>3
    <3>4. QED
      BY <3>1, <3>2, <3>3
  <2> HIDE DEF Over, At
  <2>8. Over(f, T) + Over(g, T) <= Over(h, T)
    BY <2>3, <2>4, <2>5, <2>6, <2>7
  <2>9. QED
    BY <2>8
<1>3. S \in P
  <2> HIDE DEF P
  <2>1. IsFiniteSet(S)
    OBVIOUS
  <2> HIDE DEF S
  <2>2. QED
    BY <1>1, <1>2, <2>1, PickInduction
<1>4. S \cap DOMAIN f = DOMAIN f /\ S \cap DOMAIN g = DOMAIN g /\ S \cap DOMAIN h = DOMAIN h
  OBVIOUS
<1>5. Over(f, S) + Over(g, S) <= Over(h, S)
  BY <1>3
<1>6. QED
  BY <1>4, <1>5 DEF SumFunction

(* Zeros sum to zero. *)
LEMMA SumFunctionZero ==
    ASSUME NEW f, IsFiniteSet(DOMAIN f), \A x \in DOMAIN f : f[x] = 0
    PROVE  SumFunction(f) = 0
<1>1. SumFunction(f) \in Nat
  BY SumFunctionType
<1>2. SumFunction(f) = SumFunction(f) + SumFunction(f)
  BY SumFunctionAdd
<1>3. ASSUME NEW n \in Nat, n = n + n PROVE n = 0
  BY <1>3
<1>4. QED
  BY ONLY <1>1, <1>2, <1>3

(* A function that is nowhere above another sums to at most its sum. *)
LEMMA SumFunctionBelow ==
    ASSUME NEW f, NEW h, IsFiniteSet(DOMAIN h), DOMAIN f = DOMAIN h,
           \A x \in DOMAIN h : f[x] \in Int /\ h[x] \in Int /\ f[x] <= h[x]
    PROVE  SumFunction(f) <= SumFunction(h)
<1> DEFINE e == [x \in {} |-> 0]
<1>1. DOMAIN e = {}
  OBVIOUS
<1> HIDE DEF e
<1>2. SumFunction(f) \in Int /\ SumFunction(e) = 0
  BY <1>1, SumFunctionType, SumFunctionEmpty
<1>3. SumFunction(f) + SumFunction(e) <= SumFunction(h)
  BY <1>1, SumFunctionShared
<1>4. QED
  BY <1>2, <1>3
=============================================================================
