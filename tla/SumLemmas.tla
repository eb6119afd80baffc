----------------------------- MODULE SumLemmas -----------------------------
(***************************************************************************)
(* What the proofs need of the sums of the community module Functions.     *)
(* SumFunctionOnSet is a fold over a set, whose recursive function picks   *)
(* the next element with CHOOSE; the lemmas show that the recursion is     *)
(* well defined on a finite set and does not depend on the order.  There   *)
(* is no induction rule to cite, so each of them takes a least             *)
(* counterexample among the subsets of a finite set.  At the end, the      *)
(* quotients of naturals, by products.                                     *)
(***************************************************************************)
EXTENDS Functions, FiniteSets, Integers, FiniteSetTheorems,
        WellFoundedInduction, TLAPS

\* A non-empty family of subsets of a finite set has a minimal member.
LEMMA LeastSubset ==
  ASSUME NEW S, IsFiniteSet(S), NEW F, F \subseteq SUBSET S, F # {}
  PROVE  \E T \in F : \A U \in F : U \subseteq T => U = T
<1>1. IsWellFoundedOn(StrictSubsetOrdering(S), SUBSET S)
  BY FS_StrictSubsetOrderingWellFounded, FS_FiniteSubsetsOfFinite
<1>2. PICK T \in F : \A U \in F : ~(<<U, T>> \in StrictSubsetOrdering(S))
  BY <1>1, WFMin
<1> QED
  BY <1>2 DEF StrictSubsetOrdering

LEMMA LeastNatural ==
  ASSUME NEW S, S \subseteq Nat, S # {}
  PROVE  \E m \in S : \A k \in S : m <= k
<1> DEFINE Less == {ss \in Nat \X Nat : ss[1] < ss[2]}
<1>1. IsWellFoundedOn(Less, Nat)
  BY NatLessThanWellFounded DEF OpToRel
<1>2. PICK m \in S : \A k \in S : ~(<<k, m>> \in Less)
  <2> HIDE DEF Less
  <2> QED BY <1>1, WFMin
<1>3. \A k \in S : ~(k < m)
  BY <1>2
<1> QED BY <1>3

\* Induction over the naturals, for a set of them.
LEMMA EveryNatural ==
  ASSUME NEW S, 0 \in S, \A k \in Nat : k \in S => k + 1 \in S
  PROVE  Nat \subseteq S
<1> DEFINE Lacking == {k \in Nat : k \notin S}
<1> SUFFICES ASSUME Lacking # {} PROVE FALSE
  OBVIOUS
<1>1. PICK m \in Lacking : \A k \in Lacking : m <= k
  BY LeastNatural
<1>2. m # 0 /\ m - 1 \in Nat /\ m - 1 \notin Lacking
  BY <1>1
<1>3. m - 1 \in S /\ (m - 1) + 1 = m
  BY <1>1, <1>2
<1> QED BY <1>1, <1>2, <1>3

\* The element a fold takes out of a set, and what is left.
Picked(s) == CHOOSE x \in s : TRUE
Rest(s) == s \ {Picked(s)}

\* f holds the sum of g over every subset of S.
SumsUp(f, g, S) ==
  f = [s \in SUBSET S |-> IF s = {} THEN 0 ELSE g[Picked(s)] + f[Rest(s)]]

\* The element picked is one of the set's.
LEMMA PickedIn ==
  ASSUME NEW s, s # {}
  PROVE  Picked(s) \in s /\ Rest(s) \subseteq s /\ Rest(s) # s
BY DEF Picked, Rest

\* The fold is the value of such a function at the whole set.
LEMMA SumIsChosen ==
  ASSUME NEW g, NEW S
  PROVE  SumFunctionOnSet(g, S) = (CHOOSE f : SumsUp(f, g, S))[S]
BY Zenon DEF SumFunctionOnSet, FoldFunctionOnSet, MapThenFoldSet,
             SumsUp, Picked, Rest

\* One unfolding of such a function.
LEMMA SumsUpAt ==
  ASSUME NEW f, NEW g, NEW S, SumsUp(f, g, S), NEW s \in SUBSET S
  PROVE  f[s] = IF s = {} THEN 0 ELSE g[Picked(s)] + f[Rest(s)]
<1> DEFINE Sums(h) == [t \in SUBSET S |-> IF t = {} THEN 0 ELSE g[Picked(t)] + h[Rest(t)]]
<1>1. f = Sums(f)
  BY DEF SumsUp
<1>2. Sums(f)[s] = IF s = {} THEN 0 ELSE g[Picked(s)] + f[Rest(s)]
  OBVIOUS
<1> HIDE DEF Sums
<1> QED
  BY <1>1, <1>2

\* Two such functions agree wherever both are defined.
LEMMA SumsAgree ==
  ASSUME NEW A, IsFiniteSet(A), NEW B, NEW f, NEW h, NEW g,
         SumsUp(f, g, A), SumsUp(h, g, B),
         NEW s \in SUBSET A, s \subseteq B
  PROVE  f[s] = h[s]
<1> DEFINE F == {t \in SUBSET A : t \subseteq B /\ f[t] # h[t]}
<1>1. SUFFICES ASSUME F # {} PROVE FALSE
  OBVIOUS
<1>2. PICK T \in F : \A U \in F : U \subseteq T => U = T
  <2>1. F \subseteq SUBSET A
    OBVIOUS
  <2> HIDE DEF F
  <2> QED
    BY <1>1, <2>1, LeastSubset
<1>3. f[T] = IF T = {} THEN 0 ELSE g[Picked(T)] + f[Rest(T)]
  BY <1>2, SumsUpAt
<1>4. h[T] = IF T = {} THEN 0 ELSE g[Picked(T)] + h[Rest(T)]
  BY <1>2, SumsUpAt
<1>5. T # {}
  BY <1>2, <1>3, <1>4
<1>6. f[Rest(T)] = h[Rest(T)]
  BY <1>2, <1>5, PickedIn
<1> QED
  BY <1>2, <1>3, <1>4, <1>5, <1>6

\* On a finite set such a function exists.
LEMMA SumsExist ==
  ASSUME NEW S, IsFiniteSet(S), NEW g
  PROVE  \E f : SumsUp(f, g, S)
<1> DEFINE F == {t \in SUBSET S : ~ \E f : SumsUp(f, g, t)}
           At(t) == CHOOSE f : SumsUp(f, g, t)
<1>1. SUFFICES ASSUME F # {} PROVE FALSE
  OBVIOUS
<1>2. PICK T \in F : \A U \in F : U \subseteq T => U = T
  <2>1. F \subseteq SUBSET S
    OBVIOUS
  <2> HIDE DEF F
  <2> QED
    BY <1>1, <2>1, LeastSubset
<1>3. \A t \in SUBSET T : t # T => SumsUp(At(t), g, t)
  BY <1>2
<1>4. \A t \in SUBSET T : IsFiniteSet(t)
  BY <1>2, FS_Subset
<1> DEFINE new == [s \in SUBSET T |->
                     IF s = {} THEN 0 ELSE g[Picked(s)] + At(Rest(s))[Rest(s)]]
<1> HIDE DEF At
<1>5. ASSUME NEW s \in SUBSET T, s # T
      PROVE  new[s] = At(s)[s]
  <2>1. At(s)[s] = IF s = {} THEN 0 ELSE g[Picked(s)] + At(s)[Rest(s)]
    BY <1>3, <1>5, SumsUpAt
  <2>2. CASE s = {}
    BY <2>1, <2>2
  <2>3. CASE s # {}
    <3>1. Rest(s) \in SUBSET s /\ Rest(s) \in SUBSET T /\ Rest(s) # T
      BY <2>3, <1>5, PickedIn
    <3>2. SumsUp(At(Rest(s)), g, Rest(s)) /\ SumsUp(At(s), g, s) /\ IsFiniteSet(s)
      BY <3>1, <1>3, <1>4, <1>5
    <3>3. At(s)[Rest(s)] = At(Rest(s))[Rest(s)]
      BY <3>1, <3>2, SumsAgree
    <3> QED
      BY <2>1, <2>3, <3>3
  <2> QED
    BY <2>2, <2>3
<1>6. \A s \in SUBSET T : s # {} => new[Rest(s)] = At(Rest(s))[Rest(s)]
  <2> SUFFICES ASSUME NEW s \in SUBSET T, s # {}
               PROVE  new[Rest(s)] = At(Rest(s))[Rest(s)]
    OBVIOUS
  <2>1. Rest(s) \in SUBSET T /\ Rest(s) # T
    BY PickedIn
  <2> HIDE DEF new
  <2> QED
    BY <2>1, <1>5
<1>7. SumsUp(new, g, T)
  <2> DEFINE again == [s \in SUBSET T |-> IF s = {} THEN 0 ELSE g[Picked(s)] + new[Rest(s)]]
  <2>1. \A s \in SUBSET T : new[s] = again[s]
    <3>1. \A s \in SUBSET T : new[s] = IF s = {} THEN 0 ELSE g[Picked(s)] + At(Rest(s))[Rest(s)]
      OBVIOUS
    <3>2. \A s \in SUBSET T : again[s] = IF s = {} THEN 0 ELSE g[Picked(s)] + new[Rest(s)]
      BY Zenon
    <3> HIDE DEF again, new
    <3> QED
      BY <3>1, <3>2, <1>6
  <2>2. new = again
    BY <2>1
  <2> HIDE DEF new
  <2> QED
    BY <2>2 DEF SumsUp
<1> QED
  BY <1>2, <1>7

-----------------------------------------------------------------------------
(* The recursion, and what follows from it. *)

\* What the chosen function is.
LEMMA SumFromAny ==
  ASSUME NEW S, IsFiniteSet(S), NEW g, NEW T, S \subseteq T, NEW f, SumsUp(f, g, T)
  PROVE  SumFunctionOnSet(g, S) = f[S]
<1> DEFINE chosen == CHOOSE h : SumsUp(h, g, S)
<1>1. SumsUp(chosen, g, S)
  BY SumsExist
<1>2. SumFunctionOnSet(g, S) = chosen[S]
  BY SumIsChosen
<1> HIDE DEF chosen
<1> QED
  BY <1>1, <1>2, SumsAgree

\* The sum over no element is 0.
LEMMA SumEmpty ==
  ASSUME NEW g
  PROVE  SumFunctionOnSet(g, {}) = 0
<1>1. IsFiniteSet({})
  BY FS_EmptySet
<1>2. PICK f : SumsUp(f, g, {})
  BY <1>1, SumsExist
<1>3. SumFunctionOnSet(g, {}) = f[{}]
  BY <1>1, <1>2, SumFromAny
<1> QED
  BY <1>2, <1>3, SumsUpAt

\* Any other sum is one value and the sum of the rest.
LEMMA SumUnfold ==
  ASSUME NEW S, IsFiniteSet(S), S # {}, NEW g
  PROVE  SumFunctionOnSet(g, S) = g[Picked(S)] + SumFunctionOnSet(g, Rest(S))
<1>1. PICK f : SumsUp(f, g, S)
  BY SumsExist
<1>2. Rest(S) \in SUBSET S /\ IsFiniteSet(Rest(S))
  BY PickedIn, FS_Subset
<1>3. SumFunctionOnSet(g, S) = f[S]
  BY <1>1, SumFromAny
<1>4. SumFunctionOnSet(g, Rest(S)) = f[Rest(S)]
  BY <1>1, <1>2, SumFromAny
<1>5. f[S] = g[Picked(S)] + f[Rest(S)]
  BY <1>1, SumsUpAt
<1> QED
  BY <1>3, <1>4, <1>5

\* A sum of integers is an integer, and a sum of naturals a natural.
LEMMA SumInt ==
  ASSUME NEW S, IsFiniteSet(S), NEW g, \A x \in S : g[x] \in Int
  PROVE  SumFunctionOnSet(g, S) \in Int
<1> DEFINE F == {t \in SUBSET S : ~(SumFunctionOnSet(g, t) \in Int)}
<1>1. SUFFICES ASSUME F # {} PROVE FALSE
  OBVIOUS
<1>2. PICK T \in F : \A U \in F : U \subseteq T => U = T
  <2>1. F \subseteq SUBSET S
    OBVIOUS
  <2> HIDE DEF F
  <2> QED
    BY <1>1, <2>1, LeastSubset
<1>3. T \in SUBSET S /\ IsFiniteSet(T) /\ ~(SumFunctionOnSet(g, T) \in Int)
  BY <1>2, FS_Subset
<1>4. T # {}
  BY <1>3, SumEmpty
<1>5. Picked(T) \in T /\ Rest(T) \subseteq T /\ Rest(T) # T
  BY <1>4, PickedIn
<1>6. SumFunctionOnSet(g, Rest(T)) \in Int
  BY <1>2, <1>5
<1>7. SumFunctionOnSet(g, T) = g[Picked(T)] + SumFunctionOnSet(g, Rest(T))
  BY <1>3, <1>4, SumUnfold
<1> QED
  BY <1>3, <1>5, <1>6, <1>7

\* The order does not matter: any element may be taken out first.
LEMMA SumRemove ==
  ASSUME NEW S, IsFiniteSet(S), NEW g, \A x \in S : g[x] \in Int, NEW e \in S
  PROVE  SumFunctionOnSet(g, S) = g[e] + SumFunctionOnSet(g, S \ {e})
<1> DEFINE Ok(t) == \A x \in t : SumFunctionOnSet(g, t) = g[x] + SumFunctionOnSet(g, t \ {x})
           F == {t \in SUBSET S : ~Ok(t)}
<1>1. SUFFICES ASSUME F # {} PROVE FALSE
  <2>1. S \notin F => Ok(S)
    OBVIOUS
  <2> HIDE DEF F
  <2> QED
    BY <2>1
<1>2. PICK T \in F : \A U \in F : U \subseteq T => U = T
  <2>1. F \subseteq SUBSET S
    OBVIOUS
  <2> HIDE DEF F
  <2> QED
    BY <1>1, <2>1, LeastSubset
<1>3. T \in SUBSET S /\ IsFiniteSet(T)
  BY <1>2, FS_Subset
<1>4. PICK x \in T : SumFunctionOnSet(g, T) # g[x] + SumFunctionOnSet(g, T \ {x})
  BY <1>2
<1> DEFINE y == Picked(T)
<1>5. y \in T /\ Rest(T) = T \ {y}
  BY <1>4, PickedIn DEF Rest
<1>6. SumFunctionOnSet(g, T) = g[y] + SumFunctionOnSet(g, T \ {y})
  BY <1>3, <1>4, <1>5, SumUnfold
<1> HIDE DEF y
<1>7. x # y
  BY <1>4, <1>6
<1>8. Ok(T \ {y}) /\ Ok(T \ {x})
  BY <1>2, <1>3, <1>4, <1>5
<1>9. /\ SumFunctionOnSet(g, T \ {y}) = g[x] + SumFunctionOnSet(g, (T \ {y}) \ {x})
      /\ SumFunctionOnSet(g, T \ {x}) = g[y] + SumFunctionOnSet(g, (T \ {x}) \ {y})
  BY <1>4, <1>5, <1>7, <1>8
<1>10. (T \ {y}) \ {x} = (T \ {x}) \ {y}
  OBVIOUS
<1>11. SumFunctionOnSet(g, (T \ {x}) \ {y}) \in Int
  BY <1>3, SumInt, FS_Subset
<1>12. g[x] \in Int /\ g[y] \in Int
  BY <1>3, <1>4, <1>5
<1> DEFINE z == SumFunctionOnSet(g, (T \ {x}) \ {y})
<1>13. /\ SumFunctionOnSet(g, T \ {y}) = g[x] + z
       /\ SumFunctionOnSet(g, T \ {x}) = g[y] + z
  BY <1>9, <1>10, Zenon
<1> HIDE DEF F, Ok, z
<1>14. z \in Int
  BY <1>11 DEF z
<1>15. g[y] + (g[x] + z) = g[x] + (g[y] + z)
  BY <1>12, <1>14
<1> QED
  BY <1>4, <1>6, <1>13, <1>15, Zenon

\* A sum only depends on the values of its elements.
LEMMA SumEqual ==
  ASSUME NEW S, IsFiniteSet(S), NEW g, NEW h, \A x \in S : g[x] = h[x]
  PROVE  SumFunctionOnSet(g, S) = SumFunctionOnSet(h, S)
<1> DEFINE F == {t \in SUBSET S : SumFunctionOnSet(g, t) # SumFunctionOnSet(h, t)}
<1>1. SUFFICES ASSUME F # {} PROVE FALSE
  OBVIOUS
<1>2. PICK T \in F : \A U \in F : U \subseteq T => U = T
  <2>1. F \subseteq SUBSET S
    OBVIOUS
  <2> HIDE DEF F
  <2> QED
    BY <1>1, <2>1, LeastSubset
<1>3. T \in SUBSET S /\ IsFiniteSet(T)
  BY <1>2, FS_Subset
<1>4. T # {}
  BY <1>2, SumEmpty
<1>5. Picked(T) \in T /\ Rest(T) \subseteq T /\ Rest(T) # T
  BY <1>4, PickedIn
<1>6. SumFunctionOnSet(g, Rest(T)) = SumFunctionOnSet(h, Rest(T))
  BY <1>2, <1>5
<1>7. /\ SumFunctionOnSet(g, T) = g[Picked(T)] + SumFunctionOnSet(g, Rest(T))
      /\ SumFunctionOnSet(h, T) = h[Picked(T)] + SumFunctionOnSet(h, Rest(T))
  BY <1>3, <1>4, SumUnfold
<1>8. g[Picked(T)] = h[Picked(T)]
  BY <1>3, <1>5
<1> QED
  BY <1>2, <1>6, <1>7, <1>8

\* A sum of naturals is a natural.
LEMMA SumNat ==
  ASSUME NEW S, IsFiniteSet(S), NEW g, \A x \in S : g[x] \in Nat
  PROVE  SumFunctionOnSet(g, S) \in Nat
<1> DEFINE F == {t \in SUBSET S : ~(SumFunctionOnSet(g, t) \in Nat)}
<1>1. SUFFICES ASSUME F # {} PROVE FALSE
  OBVIOUS
<1>2. PICK T \in F : \A U \in F : U \subseteq T => U = T
  <2>1. F \subseteq SUBSET S
    OBVIOUS
  <2> HIDE DEF F
  <2> QED
    BY <1>1, <2>1, LeastSubset
<1>3. T \in SUBSET S /\ IsFiniteSet(T) /\ ~(SumFunctionOnSet(g, T) \in Nat)
  BY <1>2, FS_Subset
<1>4. T # {}
  BY <1>3, SumEmpty
<1>5. Picked(T) \in T /\ Rest(T) \subseteq T /\ Rest(T) # T
  BY <1>4, PickedIn
<1>6. SumFunctionOnSet(g, Rest(T)) \in Nat
  BY <1>2, <1>5
<1>7. SumFunctionOnSet(g, T) = g[Picked(T)] + SumFunctionOnSet(g, Rest(T))
  BY <1>3, <1>4, SumUnfold
<1> QED
  BY <1>3, <1>5, <1>6, <1>7

\* A sum of zeros is zero.
LEMMA SumZero ==
  ASSUME NEW S, IsFiniteSet(S), NEW g, \A x \in S : g[x] = 0
  PROVE  SumFunctionOnSet(g, S) = 0
<1> DEFINE F == {t \in SUBSET S : SumFunctionOnSet(g, t) # 0}
<1>1. SUFFICES ASSUME F # {} PROVE FALSE
  OBVIOUS
<1>2. PICK T \in F : \A U \in F : U \subseteq T => U = T
  <2>1. F \subseteq SUBSET S
    OBVIOUS
  <2> HIDE DEF F
  <2> QED
    BY <1>1, <2>1, LeastSubset
<1>3. T \in SUBSET S /\ IsFiniteSet(T) /\ SumFunctionOnSet(g, T) # 0
  BY <1>2, FS_Subset
<1>4. T # {}
  BY <1>3, SumEmpty
<1>5. Picked(T) \in T /\ Rest(T) \subseteq T /\ Rest(T) # T
  BY <1>4, PickedIn
<1>6. SumFunctionOnSet(g, Rest(T)) = 0
  BY <1>2, <1>5
<1>7. SumFunctionOnSet(g, T) = g[Picked(T)] + SumFunctionOnSet(g, Rest(T))
  BY <1>3, <1>4, SumUnfold
<1> QED
  BY <1>3, <1>5, <1>6, <1>7

-----------------------------------------------------------------------------
(* Sums of whole functions. *)

\* Every value of a function on naturals is at most their sum.
LEMMA SumCovers ==
  ASSUME NEW S, IsFiniteSet(S), NEW f \in [S -> Nat], NEW e \in S
  PROVE  SumFunction(f) \in Nat /\ f[e] <= SumFunction(f)
<1>1. SumFunction(f) = SumFunctionOnSet(f, S)
  BY DEF SumFunction
<1>2. SumFunctionOnSet(f, S) = f[e] + SumFunctionOnSet(f, S \ {e})
  BY SumRemove
<1>3. IsFiniteSet(S \ {e})
  BY FS_Subset
<1>4. SumFunctionOnSet(f, S \ {e}) \in Nat
  BY <1>3, SumNat
<1> QED
  BY <1>1, <1>2, <1>4

\* Two functions that differ at one place only, which may be in the domain
\* of either: the sums differ by what is there.
LEMMA SumMoves ==
  ASSUME NEW S, IsFiniteSet(S), NEW T, IsFiniteSet(T), NEW e, S \ {e} = T \ {e},
         NEW f \in [S -> Int], NEW h \in [T -> Int],
         \A x \in S \ {e} : f[x] = h[x]
  PROVE  /\ SumFunction(f) \in Int
         /\ SumFunction(h) =
              SumFunction(f) - (IF e \in S THEN f[e] ELSE 0) + (IF e \in T THEN h[e] ELSE 0)
<1> DEFINE r == SumFunctionOnSet(f, S \ {e})
<1>1. IsFiniteSet(S \ {e}) /\ IsFiniteSet(T \ {e})
  BY FS_Subset
<1>2. r \in Int
  BY <1>1, SumInt
<1>3. SumFunctionOnSet(h, T \ {e}) = r
  BY <1>1, SumEqual
<1>4. SumFunction(f) = (IF e \in S THEN f[e] ELSE 0) + r
  <2>1. SumFunction(f) = SumFunctionOnSet(f, S)
    BY DEF SumFunction
  <2>2. CASE e \in S
    <3>1. SumFunctionOnSet(f, S) = f[e] + r
      BY <2>2, SumRemove
    <3> QED
      BY <2>1, <2>2, <3>1
  <2>3. CASE e \notin S
    <3>1. S \ {e} = S
      BY <2>3
    <3>2. SumFunctionOnSet(f, S) = r
      BY <3>1, Zenon
    <3> HIDE DEF r
    <3> QED
      BY <1>2, <2>1, <2>3, <3>2
  <2> QED
    BY <2>2, <2>3
<1>5. SumFunction(h) = (IF e \in T THEN h[e] ELSE 0) + r
  <2>1. SumFunction(h) = SumFunctionOnSet(h, T)
    BY DEF SumFunction
  <2>2. CASE e \in T
    <3>1. SumFunctionOnSet(h, T) = h[e] + r
      BY <1>3, <2>2, SumRemove
    <3> QED
      BY <2>1, <2>2, <3>1
  <2>3. CASE e \notin T
    <3>1. T \ {e} = T
      BY <2>3
    <3>2. SumFunctionOnSet(h, T) = r
      BY <1>3, <3>1, Zenon
    <3> HIDE DEF r
    <3> QED
      BY <1>2, <2>1, <2>3, <3>2
  <2> QED
    BY <2>2, <2>3
<1>6. (IF e \in S THEN f[e] ELSE 0) \in Int /\ (IF e \in T THEN h[e] ELSE 0) \in Int
  OBVIOUS
<1> HIDE DEF r
<1> QED
  BY <1>2, <1>4, <1>5, <1>6

\* The sums of a function on no element and on one.
LEMMA SumOfNone ==
  ASSUME NEW f, DOMAIN f = {}
  PROVE  SumFunction(f) = 0
BY SumEmpty DEF SumFunction

LEMMA SumOfOne ==
  ASSUME NEW e, NEW f \in [{e} -> Int]
  PROVE  SumFunction(f) = f[e]
<1>1. IsFiniteSet({e}) /\ {e} \ {e} = {}
  BY FS_Singleton
<1>2. SumFunctionOnSet(f, {e}) = f[e] + SumFunctionOnSet(f, {e} \ {e})
  BY <1>1, SumRemove
<1>3. SumFunctionOnSet(f, {e} \ {e}) = 0
  BY <1>1, SumEmpty, Zenon
<1>4. SumFunction(f) = SumFunctionOnSet(f, {e}) /\ f[e] \in Int
  BY DEF SumFunction
<1> QED
  BY <1>2, <1>3, <1>4

\* The sum of a function that is zero everywhere.
LEMMA SumOfZeros ==
  ASSUME NEW S, IsFiniteSet(S)
  PROVE  SumFunction([x \in S |-> 0]) = 0
BY SumZero DEF SumFunction

\* The sum of the sums, and the smaller of two sums.
LEMMA SumPlus ==
  ASSUME NEW S, IsFiniteSet(S), NEW f \in [S -> Int], NEW g \in [S -> Int],
         NEW h \in [S -> Int], \A x \in S : h[x] = f[x] + g[x]
  PROVE  /\ SumFunction(f) \in Int /\ SumFunction(g) \in Int
         /\ SumFunction(h) = SumFunction(f) + SumFunction(g)
<1> DEFINE Adds(t) == SumFunctionOnSet(h, t) = SumFunctionOnSet(f, t) + SumFunctionOnSet(g, t)
           F == {t \in SUBSET S : ~Adds(t)}
<1>1. F = {}
  <2> SUFFICES ASSUME F # {} PROVE FALSE
    OBVIOUS
  <2>1. PICK T \in F : \A U \in F : U \subseteq T => U = T
    <3>1. F \subseteq SUBSET S
      OBVIOUS
    <3> HIDE DEF F
    <3> QED
      BY <3>1, LeastSubset
  <2>2. T \in SUBSET S /\ IsFiniteSet(T) /\ ~Adds(T)
    BY <2>1, FS_Subset
  <2>3. T # {}
    <3> SUFFICES ASSUME T = {} PROVE FALSE
      OBVIOUS
    <3>1. SumFunctionOnSet(h, T) = 0 /\ SumFunctionOnSet(f, T) = 0 /\ SumFunctionOnSet(g, T) = 0
      BY SumEmpty
    <3> QED
      BY <2>2, <3>1
  <2> DEFINE e == Picked(T)
             R == Rest(T)
  <2>4. e \in S /\ R \in SUBSET S /\ R \subseteq T /\ R # T /\ IsFiniteSet(R)
    BY <2>2, <2>3, PickedIn, FS_Subset
  <2>5. Adds(R)
    BY <2>1, <2>4
  <2>6. /\ SumFunctionOnSet(h, T) = h[e] + SumFunctionOnSet(h, R)
        /\ SumFunctionOnSet(f, T) = f[e] + SumFunctionOnSet(f, R)
        /\ SumFunctionOnSet(g, T) = g[e] + SumFunctionOnSet(g, R)
    BY <2>2, <2>3, SumUnfold
  <2>7. SumFunctionOnSet(f, R) \in Int /\ SumFunctionOnSet(g, R) \in Int
    BY <2>4, SumInt
  <2>8. h[e] = f[e] + g[e] /\ f[e] \in Int /\ g[e] \in Int
    BY <2>4
  <2> HIDE DEF e, R, F
  <2> QED
    BY <2>2, <2>5, <2>6, <2>7, <2>8
<1>2. Adds(S)
  BY <1>1
<1>3. SumFunction(f) = SumFunctionOnSet(f, S) /\ SumFunction(g) = SumFunctionOnSet(g, S)
      /\ SumFunction(h) = SumFunctionOnSet(h, S)
  BY DEF SumFunction
<1>4. SumFunctionOnSet(f, S) \in Int /\ SumFunctionOnSet(g, S) \in Int
  BY SumInt
<1> HIDE DEF F
<1> QED
  BY <1>2, <1>3, <1>4

LEMMA SumAtMost ==
  ASSUME NEW S, IsFiniteSet(S), NEW f \in [S -> Int], NEW g \in [S -> Int],
         \A x \in S : f[x] <= g[x]
  PROVE  /\ SumFunction(f) \in Int /\ SumFunction(g) \in Int
         /\ SumFunction(f) <= SumFunction(g)
<1> DEFINE d == [x \in S |-> g[x] - f[x]]
<1>1. d \in [S -> Nat] /\ d \in [S -> Int] /\ \A x \in S : g[x] = f[x] + d[x]
  OBVIOUS
<1>2. SumFunction(d) \in Nat
  <2>1. SumFunctionOnSet(d, S) \in Nat
    <3> HIDE DEF d
    <3> QED
      BY <1>1, SumNat
  <2> QED
    BY <2>1 DEF SumFunction
<1> HIDE DEF d
<1>3. /\ SumFunction(f) \in Int /\ SumFunction(g) = SumFunction(f) + SumFunction(d)
  BY <1>1, SumPlus
<1> QED
  BY <1>2, <1>3

\* A constant adds up to itself times the number of elements.
LEMMA SumConst ==
  ASSUME NEW S, IsFiniteSet(S), NEW c \in Nat
  PROVE  SumFunction([x \in S |-> c]) = c * Cardinality(S)
<1> DEFINE f == [x \in S |-> c]
           Times(t) == SumFunctionOnSet(f, t) = c * Cardinality(t)
           F == {t \in SUBSET S : ~Times(t)}
<1>1. F = {}
  <2> SUFFICES ASSUME F # {} PROVE FALSE
    OBVIOUS
  <2>1. PICK T \in F : \A U \in F : U \subseteq T => U = T
    <3>1. F \subseteq SUBSET S
      OBVIOUS
    <3> HIDE DEF F
    <3> QED
      BY <3>1, LeastSubset
  <2>2. T \in SUBSET S /\ IsFiniteSet(T) /\ ~Times(T)
    BY <2>1, FS_Subset
  <2>3. T # {}
    <3> SUFFICES ASSUME T = {} PROVE FALSE
      OBVIOUS
    <3>1. SumFunctionOnSet(f, T) = 0 /\ Cardinality(T) = 0
      BY SumEmpty, FS_EmptySet
    <3> QED
      BY <2>2, <3>1
  <2> DEFINE e == Picked(T)
             R == Rest(T)
  <2>4. e \in T /\ e \in S /\ R = T \ {e} /\ R \in SUBSET S /\ R \subseteq T /\ R # T
    BY <2>2, <2>3, PickedIn DEF Rest
  <2>5. Times(R)
    BY <2>1, <2>4
  <2>6. SumFunctionOnSet(f, T) = f[e] + SumFunctionOnSet(f, R)
    BY <2>2, <2>3, SumUnfold
  <2>7. Cardinality(R) = Cardinality(T) - 1 /\ Cardinality(T) \in Nat
    BY <2>2, <2>4, FS_RemoveElement, FS_CardinalityType
  <2>8. f[e] = c
    BY <2>4
  <2> HIDE DEF e, R, F, f
  <2>9. c * Cardinality(T) = c + c * (Cardinality(T) - 1)
    BY <2>7
  <2> QED
    BY <2>2, <2>5, <2>6, <2>7, <2>8, <2>9
<1>2. Times(S)
  BY <1>1
<1>3. SumFunction(f) = SumFunctionOnSet(f, S)
  BY DEF SumFunction
<1> QED
  BY <1>2, <1>3

\* The sum of a sequence is its first value and the sum of the others.
LEMMA SumShiftBy ==
  ASSUME NEW i \in Nat \ {0}, NEW f, NEW h,
         \A x \in 1..i : f[x + 1] \in Int /\ h[x] = f[x + 1],
         SumFunctionOnSet(f, 2..i) = SumFunctionOnSet(h, 1..(i - 1))
  PROVE  SumFunctionOnSet(f, 2..(i + 1)) = SumFunctionOnSet(h, 1..i)
<1>1. IsFiniteSet(2..(i + 1)) /\ IsFiniteSet(1..i)
  BY FS_Interval
<1>2. i + 1 \in 2..(i + 1) /\ i \in 1..i
  OBVIOUS
<1>3. (2..(i + 1)) \ {i + 1} = 2..i /\ (1..i) \ {i} = 1..(i - 1)
  OBVIOUS
<1>4. \A x \in 2..(i + 1) : f[x] \in Int
  <2> SUFFICES ASSUME NEW x \in 2..(i + 1) PROVE f[x] \in Int
    OBVIOUS
  <2>1. x - 1 \in 1..i /\ (x - 1) + 1 = x
    OBVIOUS
  <2> QED
    BY <2>1
<1>5. \A x \in 1..i : h[x] \in Int
  OBVIOUS
<1>6. SumFunctionOnSet(f, 2..(i + 1)) = f[i + 1] + SumFunctionOnSet(f, (2..(i + 1)) \ {i + 1})
  BY <1>1, <1>2, <1>4, SumRemove
<1>7. SumFunctionOnSet(h, 1..i) = h[i] + SumFunctionOnSet(h, (1..i) \ {i})
  BY <1>1, <1>2, <1>5, SumRemove
<1>8. h[i] = f[i + 1]
  BY <1>2
<1> QED
  BY <1>3, <1>6, <1>7, <1>8

LEMMA SumShift ==
  ASSUME NEW n \in Nat \ {0}, NEW f \in [1..n -> Int], NEW h \in [1..(n - 1) -> Int],
         \A i \in 1..(n - 1) : h[i] = f[i + 1]
  PROVE  SumFunction(h) \in Int /\ SumFunction(f) = f[1] + SumFunction(h)
<1> DEFINE Same(i) == SumFunctionOnSet(f, 2..(i + 1)) = SumFunctionOnSet(h, 1..i)
           B == {i \in Nat : i <= n - 1 /\ ~Same(i)}
<1>1. B = {}
  <2> SUFFICES ASSUME B # {} PROVE FALSE
    OBVIOUS
  <2>1. PICK i \in B : \A k \in B : i <= k
    <3>1. B \subseteq Nat
      OBVIOUS
    <3> HIDE DEF B
    <3> QED
      BY <3>1, LeastNatural
  <2>2. i \in Nat /\ i <= n - 1 /\ ~Same(i)
    BY <2>1
  <2>3. i # 0
    <3> SUFFICES ASSUME i = 0 PROVE FALSE
      OBVIOUS
    <3>1. 2..(i + 1) = {} /\ 1..i = {}
      OBVIOUS
    <3>2. SumFunctionOnSet(f, 2..(i + 1)) = 0 /\ SumFunctionOnSet(h, 1..i) = 0
      BY <3>1, SumEmpty
    <3> QED
      BY <2>2, <3>2
  <2>4. i - 1 \in Nat /\ i - 1 <= n - 1 /\ i - 1 \notin B
    BY <2>1, <2>2, <2>3
  <2>5. Same(i - 1)
    BY <2>4
  <2>6. (i - 1) + 1 = i
    BY <2>2
  <2> HIDE DEF B
  <2>7. SumFunctionOnSet(f, 2..((i - 1) + 1)) = SumFunctionOnSet(h, 1..(i - 1))
    BY <2>5, Zenon
  <2>8. SumFunctionOnSet(f, 2..i) = SumFunctionOnSet(h, 1..(i - 1))
    BY <2>6, <2>7, Zenon
  <2>9. \A x \in 1..i : f[x + 1] \in Int /\ h[x] = f[x + 1]
    BY <2>2
  <2>10. SumFunctionOnSet(f, 2..(i + 1)) = SumFunctionOnSet(h, 1..i)
    BY <2>2, <2>3, <2>8, <2>9, SumShiftBy
  <2> QED
    BY <2>2, <2>10, Zenon
<1>2. Same(n - 1)
  <2>1. n - 1 \in Nat /\ n - 1 <= n - 1
    OBVIOUS
  <2>2. \A i \in Nat : i <= n - 1 => Same(i)
    <3> HIDE DEF Same
    <3> QED
      BY <1>1
  <2> HIDE DEF Same
  <2> QED
    BY <2>1, <2>2
<1>3. SumFunctionOnSet(f, 2..n) = SumFunctionOnSet(h, 1..(n - 1))
  <2>1. (n - 1) + 1 = n
    OBVIOUS
  <2> HIDE DEF B
  <2>2. SumFunctionOnSet(f, 2..((n - 1) + 1)) = SumFunctionOnSet(h, 1..(n - 1))
    BY <1>2, Zenon
  <2> QED
    BY <2>1, <2>2, Zenon
<1> HIDE DEF Same, B
<1>4. IsFiniteSet(1..n) /\ IsFiniteSet(1..(n - 1)) /\ 1 \in 1..n /\ (1..n) \ {1} = 2..n
  <2>1. n \in Int /\ n - 1 \in Int
    OBVIOUS
  <2>2. IsFiniteSet(1..n) /\ IsFiniteSet(1..(n - 1))
    BY <2>1, FS_Interval
  <2> QED
    BY <2>2
<1>5. SumFunctionOnSet(f, 1..n) = f[1] + SumFunctionOnSet(f, (1..n) \ {1})
  BY <1>4, SumRemove, ZenonT(30)
<1>6. SumFunctionOnSet(h, 1..(n - 1)) \in Int
  BY <1>4, SumInt
<1>7. SumFunction(f) = SumFunctionOnSet(f, 1..n) /\ SumFunction(h) = SumFunctionOnSet(h, 1..(n - 1))
  BY DEF SumFunction
<1> QED
  BY <1>3, <1>4, <1>5, <1>6, <1>7

\* One value changes, or comes behind the others.
LEMMA SumUpdate ==
  ASSUME NEW S, IsFiniteSet(S), NEW e \in S, NEW f \in [S -> Int], NEW h \in [S -> Int],
         \A x \in S \ {e} : h[x] = f[x]
  PROVE  /\ SumFunction(f) \in Int
         /\ SumFunction(h) = SumFunction(f) - f[e] + h[e]
BY SumMoves

LEMMA SumAppend ==
  ASSUME NEW n \in Nat, NEW f \in [1..n -> Int], NEW h \in [1..(n + 1) -> Int],
         \A x \in 1..n : h[x] = f[x]
  PROVE  SumFunction(f) \in Int /\ SumFunction(h) = SumFunction(f) + h[n + 1]
<1>1. IsFiniteSet(1..n) /\ IsFiniteSet(1..(n + 1))
  <2>1. n \in Int /\ n + 1 \in Int
    OBVIOUS
  <2> QED
    BY <2>1, FS_Interval
<1>2. (1..n) \ {n + 1} = (1..(n + 1)) \ {n + 1} /\ n + 1 \notin 1..n /\ n + 1 \in 1..(n + 1)
  OBVIOUS
<1>3. \A x \in (1..n) \ {n + 1} : f[x] = h[x]
  OBVIOUS
<1>4. /\ SumFunction(f) \in Int
      /\ SumFunction(h) = SumFunction(f) - (IF n + 1 \in 1..n THEN f[n + 1] ELSE 0)
                            + (IF n + 1 \in 1..(n + 1) THEN h[n + 1] ELSE 0)
  BY <1>1, <1>2, <1>3, SumMoves, SMTT(30)
<1>5. h[n + 1] \in Int
  OBVIOUS
<1> QED
  BY <1>2, <1>4, <1>5

\* The sum of a function that is given on an interval, one value more.
LEMMA SumNextOf ==
  ASSUME NEW n \in Nat, NEW f, \A x \in 1..(n + 1) : f[x] \in Int
  PROVE  /\ SumFunctionOnSet(f, 1..n) \in Int
         /\ SumFunctionOnSet(f, 1..(n + 1)) = SumFunctionOnSet(f, 1..n) + f[n + 1]
<1>1. IsFiniteSet(1..n) /\ IsFiniteSet(1..(n + 1))
  <2>1. n \in Int /\ n + 1 \in Int
    OBVIOUS
  <2> QED
    BY <2>1, FS_Interval
<1>2. n + 1 \in 1..(n + 1) /\ (1..(n + 1)) \ {n + 1} = 1..n
  OBVIOUS
<1>3. SumFunctionOnSet(f, 1..(n + 1))
        = f[n + 1] + SumFunctionOnSet(f, (1..(n + 1)) \ {n + 1})
  BY <1>1, <1>2, SumRemove
<1>4. SumFunctionOnSet(f, 1..n) \in Int /\ f[n + 1] \in Int
  BY <1>1, SumInt
<1>5. \A a \in Int, b \in Int : a + b = b + a
  OBVIOUS
<1>6. SumFunctionOnSet(f, (1..(n + 1)) \ {n + 1}) = SumFunctionOnSet(f, 1..n)
  BY <1>2, Zenon
<1> QED
  BY <1>3, <1>4, <1>5, <1>6

-----------------------------------------------------------------------------
(* Quotients. *)

\* What a quotient rounded down is.
LEMMA Quotient ==
  ASSUME NEW p \in Nat, NEW d \in Nat \ {0}
  PROVE  /\ p \div d \in Nat
         /\ d * (p \div d) <= p
         /\ p < d * (p \div d) + d
OBVIOUS

\* A quotient is at least what fits in, and below what does not.
LEMMA QuotientAtLeast ==
  ASSUME NEW p \in Nat, NEW d \in Nat \ {0}, NEW a \in Nat, d * a <= p
  PROVE  a <= p \div d
<1> DEFINE q == p \div d
<1>1. q \in Nat /\ p < d * q + d
  BY Quotient
<1> HIDE DEF q
<1>2. SUFFICES ASSUME q + 1 <= a PROVE FALSE
  BY <1>1 DEF q
<1>3. PICK e \in Nat : a = q + 1 + e
  <2>1. a - (q + 1) \in Nat
    BY <1>1, <1>2
  <2> QED
    BY <1>1, <2>1
<1>4. d * a = d * q + d + d * e /\ d * e \in Nat /\ d * q \in Nat
  BY <1>1, <1>3
<1> QED
  BY <1>1, <1>4

LEMMA QuotientBelow ==
  ASSUME NEW p \in Nat, NEW d \in Nat \ {0}, NEW a \in Nat, p < d * a
  PROVE  p \div d < a
<1> DEFINE q == p \div d
<1>1. q \in Nat /\ d * q <= p
  BY Quotient
<1> HIDE DEF q
<1>2. SUFFICES ASSUME a <= q PROVE FALSE
  BY <1>1 DEF q
<1>3. PICK e \in Nat : q = a + e
  <2>1. q - a \in Nat
    BY <1>1, <1>2
  <2> QED
    BY <1>1, <2>1
<1>4. d * q = d * a + d * e /\ d * e \in Nat /\ d * a \in Nat
  BY <1>1, <1>3
<1> QED
  BY <1>1, <1>4

\* A quotient, found.
LEMMA QuotientIs ==
  ASSUME NEW d \in Nat \ {0}, NEW q \in Nat, NEW r \in Nat, r < d
  PROVE  (d * q + r) \div d = q
<1>1. d * q \in Nat /\ d * (q + 1) = d * q + d
  OBVIOUS
<1> DEFINE p == d * q + r
<1>2. p \in Nat /\ d * q <= p /\ p < d * (q + 1)
  BY <1>1
<1> HIDE DEF p
<1>3. p \div d \in Nat /\ q <= p \div d /\ p \div d < q + 1
  BY <1>2, Quotient, QuotientAtLeast, QuotientBelow
<1> QED
  BY <1>3 DEF p
=============================================================================
