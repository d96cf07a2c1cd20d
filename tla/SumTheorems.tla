----------------------------- MODULE SumTheorems -----------------------------
(***************************************************************************)
(* Sums of a function over a finite set (SumFunctionOnSet): what the       *)
(* proofs about CreditLedger and StorageUsage need to know of them.  The   *)
(* operator is a fold; it is characterised by the equation of the fold's   *)
(* recursive function first, and every other fact follows by taking a      *)
(* smallest set for which it fails.                                        *)
(***************************************************************************)
EXTENDS Integers, FiniteSets, Functions, FiniteSetTheorems, WellFoundedInduction, TLAPS

\* Among subsets of a finite set there is a smallest one.
LEMMA SmallestSubset ==
    ASSUME NEW D, IsFiniteSet(D), NEW B \in SUBSET (SUBSET D), B # {}
    PROVE  \E S \in B : \A T \in B : T \subseteq S => T = S
  <1>1. FiniteSubsetsOf(D) = SUBSET D
    BY FS_FiniteSubsetsOfFinite
  <1>2. IsWellFoundedOn(StrictSubsetOrdering(D), SUBSET D)
    BY <1>1, FS_StrictSubsetOrderingWellFounded
  <1>3. PICK S \in B : \A T \in B : ~ (<<T, S>> \in StrictSubsetOrdering(D))
    BY <1>2, WFMin
  <1>4. ASSUME NEW T \in B, T \subseteq S, T # S PROVE FALSE
    <2>1. <<T, S>> \in StrictSubsetOrdering(D)
      BY <1>4 DEF StrictSubsetOrdering
    <2>. QED
      BY <1>3, <2>1
  <1>. QED
    BY <1>4

(***************************************************************************)
(* The equation of the fold                                                *)
(***************************************************************************)
\* The element that the fold takes out of a set next.
Pick(S) == CHOOSE x \in S : TRUE

\* g sums f over every subset of D.
Sums(g, f, D) ==
    g = [S \in SUBSET D |-> IF S = {} THEN 0 ELSE f[Pick(S)] + g[S \ {Pick(S)}]]

SumFn(f, D) == CHOOSE g : Sums(g, f, D)

LEMMA SumIsFold ==
    ASSUME NEW f, NEW D
    PROVE  SumFunctionOnSet(f, D) = SumFn(f, D)[D]
  BY DEF SumFunctionOnSet, FoldFunctionOnSet, MapThenFoldSet, SumFn, Sums, Pick

LEMMA PickIn ==
    ASSUME NEW S, S # {}
    PROVE  Pick(S) \in S
  BY DEF Pick

\* What g is at a subset, without the function constructor.
LEMMA SumsAt ==
    ASSUME NEW g, NEW f, NEW D, Sums(g, f, D), NEW S \in SUBSET D
    PROVE  g[S] = IF S = {} THEN 0 ELSE f[Pick(S)] + g[S \ {Pick(S)}]
  BY DEF Sums

\* Two such functions agree wherever both are defined.
LEMMA SumsAgree ==
    ASSUME NEW f, NEW D, IsFiniteSet(D), NEW E \in SUBSET D,
           NEW g, Sums(g, f, D), NEW h, Sums(h, f, E)
    PROVE  \A S \in SUBSET E : g[S] = h[S]
  <1>. DEFINE Bad == {S \in SUBSET E : g[S] # h[S]}
  <1>1. SUFFICES ASSUME Bad # {} PROVE FALSE
    OBVIOUS
  <1>2. PICK B \in SUBSET (SUBSET E) : B = Bad
    OBVIOUS
  <1>3. IsFiniteSet(E) /\ B # {}
    BY <1>1, <1>2, FS_Subset
  <1>4. PICK S \in B : \A T \in B : T \subseteq S => T = S
    BY <1>3, SmallestSubset
  <1>5. S \in Bad
    BY <1>2
  <1>6. /\ S \in SUBSET E /\ S \in SUBSET D /\ g[S] # h[S]
    BY <1>5
  <1>7. CASE S = {}
    BY <1>6, <1>7, SumsAt
  <1>8. CASE S # {}
    <2>1. Pick(S) \in S
      BY <1>8, PickIn
    <2>2. S \ {Pick(S)} \in SUBSET E /\ S \ {Pick(S)} # S /\ S \ {Pick(S)} \subseteq S
      BY <2>1
    <2>3. g[S \ {Pick(S)}] = h[S \ {Pick(S)}]
      BY <1>2, <1>4, <2>2
    <2>4. g[S] = f[Pick(S)] + g[S \ {Pick(S)}] /\ h[S] = f[Pick(S)] + h[S \ {Pick(S)}]
      BY <1>6, <1>8, SumsAt
    <2>. QED
      BY <1>6, <2>3, <2>4
  <1>. QED
    BY <1>7, <1>8

\* The fold's recursive function exists on every finite set.
LEMMA SumsExist ==
    ASSUME NEW f, NEW D, IsFiniteSet(D)
    PROVE  Sums(SumFn(f, D), f, D)
  <1>. DEFINE Bad == {S \in SUBSET D : ~ Sums(SumFn(f, S), f, S)}
  <1>1. SUFFICES ASSUME Bad # {} PROVE FALSE
    OBVIOUS
  <1>2. PICK B \in SUBSET (SUBSET D) : B = Bad
    OBVIOUS
  <1>3. B # {}
    BY <1>1, <1>2
  <1>4. PICK S \in B : \A T \in B : T \subseteq S => T = S
    BY <1>3, SmallestSubset
  <1>5. S \in SUBSET D /\ ~ Sums(SumFn(f, S), f, S)
    BY <1>2
  <1>6. \A T \in SUBSET S : T # S => Sums(SumFn(f, T), f, T)
    BY <1>4, <1>5, <1>2
  <1>7. \A T \in SUBSET S : IsFiniteSet(T)
    BY <1>5, FS_Subset
  <1>. HIDE DEF Bad
  <1>. DEFINE rest(T) == SumFn(f, T \ {Pick(T)})[T \ {Pick(T)}]
              val(T) == IF T = {} THEN 0 ELSE f[Pick(T)] + rest(T)
              g == [T \in SUBSET S |-> val(T)]
  <1>8. ASSUME NEW T \in SUBSET S, T # S
        PROVE  SumFn(f, T)[T] = val(T)
    <2>1. Sums(SumFn(f, T), f, T) /\ IsFiniteSet(T)
      BY <1>6, <1>7, <1>8
    <2>2. SumFn(f, T)[T] = IF T = {} THEN 0
                           ELSE f[Pick(T)] + SumFn(f, T)[T \ {Pick(T)}]
      BY ZenonT(60), <2>1, SumsAt
    <2>3. CASE T # {}
      <3>1. Pick(T) \in T
        BY <2>3, PickIn
      <3>2. PICK R : R = T \ {Pick(T)}
        OBVIOUS
      <3>3. R \in SUBSET T /\ R \in SUBSET S /\ R # S
        BY <3>1, <3>2
      <3>4. Sums(SumFn(f, R), f, R)
        BY <1>6, <3>3
      <3>5. SumFn(f, T)[R] = SumFn(f, R)[R]
        BY <2>1, <3>3, <3>4, SumsAgree
      <3>. QED
        BY <2>2, <2>3, <3>2, <3>5
    <2>. QED
      BY <2>2, <2>3
  <1>9. ASSUME NEW T \in SUBSET S
        PROVE  g[T] = IF T = {} THEN 0 ELSE f[Pick(T)] + g[T \ {Pick(T)}]
    <2>1. g[T] = val(T)
      OBVIOUS
    <2>2. CASE T # {}
      <3>1. Pick(T) \in T
        BY <2>2, PickIn
      <3>2. PICK R : R = T \ {Pick(T)}
        OBVIOUS
      <3>3. R \in SUBSET S /\ R # S
        BY <3>1, <3>2
      <3>4. g[R] = val(R) /\ SumFn(f, R)[R] = val(R)
        BY <1>8, <3>3
      <3>. QED
        BY <2>1, <2>2, <3>2, <3>4
    <2>. QED
      BY <2>1, <2>2
  <1>10. Sums(g, f, S)
    <2>. HIDE DEF val
    <2>1. g = [T \in SUBSET S |-> g[T]]
      OBVIOUS
    <2>. HIDE DEF g
    <2>. QED
      BY <1>9, <2>1 DEF Sums
  <1>. HIDE DEF g
  <1>11. Sums(SumFn(f, S), f, S)
    BY <1>10 DEF SumFn
  <1>. QED
    BY <1>5, <1>11

\* The sum over nothing is zero.
LEMMA SumEmpty ==
    ASSUME NEW f
    PROVE  SumFunctionOnSet(f, {}) = 0
  <1>1. Sums(SumFn(f, {}), f, {})
    BY FS_EmptySet, SumsExist
  <1>2. SumFn(f, {})[{}] = 0
    BY <1>1, SumsAt
  <1>. QED
    BY <1>2, SumIsFold

\* The equation of the fold.
LEMMA SumPick ==
    ASSUME NEW f, NEW D, IsFiniteSet(D), D # {}
    PROVE  SumFunctionOnSet(f, D)
               = f[Pick(D)] + SumFunctionOnSet(f, D \ {Pick(D)})
  <1>1. PICK R : R = D \ {Pick(D)}
    OBVIOUS
  <1>2. R \in SUBSET D /\ IsFiniteSet(R)
    BY <1>1, FS_Subset
  <1>3. Sums(SumFn(f, D), f, D) /\ Sums(SumFn(f, R), f, R)
    BY <1>2, SumsExist
  <1>4. SumFn(f, D)[D] = f[Pick(D)] + SumFn(f, D)[R]
    BY <1>1, <1>3, SumsAt
  <1>5. SumFn(f, D)[R] = SumFn(f, R)[R]
    BY <1>2, <1>3, SumsAgree
  <1>. QED
    BY <1>1, <1>4, <1>5, SumIsFold

(***************************************************************************)
(* What follows from it                                                    *)
(***************************************************************************)
\* A sum of integers is an integer ...
LEMMA SumInt ==
    ASSUME NEW f, NEW D, IsFiniteSet(D), \A x \in D : f[x] \in Int
    PROVE  SumFunctionOnSet(f, D) \in Int
  <1>. DEFINE Bad == {S \in SUBSET D : SumFunctionOnSet(f, S) \notin Int}
  <1>1. SUFFICES ASSUME Bad # {} PROVE FALSE
    OBVIOUS
  <1>2. PICK B \in SUBSET (SUBSET D) : B = Bad
    OBVIOUS
  <1>3. B # {}
    BY <1>1, <1>2
  <1>4. PICK S \in B : \A T \in B : T \subseteq S => T = S
    BY <1>3, SmallestSubset
  <1>5. S \in SUBSET D /\ SumFunctionOnSet(f, S) \notin Int /\ IsFiniteSet(S)
    BY <1>2, FS_Subset
  <1>6. S # {}
    <2>1. SumFunctionOnSet(f, {}) = 0
      BY SumEmpty
    <2>2. SumFunctionOnSet(f, {}) \in Int
      BY <2>1
    <2>. QED
      BY <1>5, <2>2
  <1>7. Pick(S) \in S /\ f[Pick(S)] \in Int
    BY <1>5, <1>6, PickIn
  <1>8. PICK R : R = S \ {Pick(S)}
    OBVIOUS
  <1>9. R \in SUBSET D /\ R \subseteq S /\ R # S
    BY <1>5, <1>7, <1>8
  <1>10. SumFunctionOnSet(f, R) \in Int
    BY <1>2, <1>4, <1>9
  <1>11. SumFunctionOnSet(f, S) = f[Pick(S)] + SumFunctionOnSet(f, R)
    BY <1>5, <1>6, <1>8, SumPick
  <1>. QED
    BY <1>5, <1>7, <1>10, <1>11

\* ... and the element taken out first does not matter.
LEMMA SumRemove ==
    ASSUME NEW f, NEW D, IsFiniteSet(D), \A x \in D : f[x] \in Int, NEW e \in D
    PROVE  SumFunctionOnSet(f, D) = f[e] + SumFunctionOnSet(f, D \ {e})
  <1>. DEFINE Bad == {S \in SUBSET D : \E x \in S :
                          SumFunctionOnSet(f, S)
                              # f[x] + SumFunctionOnSet(f, S \ {x})}
  <1>1. SUFFICES ASSUME Bad # {} PROVE FALSE
    OBVIOUS
  <1>2. PICK B \in SUBSET (SUBSET D) : B = Bad
    OBVIOUS
  <1>3. B # {}
    BY <1>1, <1>2
  <1>4. PICK S \in B : \A T \in B : T \subseteq S => T = S
    BY <1>3, SmallestSubset
  <1>5. S \in SUBSET D /\ IsFiniteSet(S)
    BY <1>2, FS_Subset
  <1>6. PICK x \in S : SumFunctionOnSet(f, S) # f[x] + SumFunctionOnSet(f, S \ {x})
    BY <1>2
  <1>7. PICK y \in S : y = Pick(S)
    BY PickIn
  <1>8. SumFunctionOnSet(f, S) = f[y] + SumFunctionOnSet(f, S \ {y})
    BY <1>5, <1>7, SumPick
  <1>9. x # y
    BY <1>6, <1>8
  <1>10. \A T \in SUBSET S : T # S => \A z \in T :
             SumFunctionOnSet(f, T) = f[z] + SumFunctionOnSet(f, T \ {z})
    BY <1>2, <1>4, <1>5
  <1>11. PICK Sx : Sx = S \ {x}
    OBVIOUS
  <1>12. PICK Sy : Sy = S \ {y}
    OBVIOUS
  <1>13. PICK R : R = (S \ {x}) \ {y}
    OBVIOUS
  <1>14. /\ Sx \in SUBSET S /\ Sx # S /\ y \in Sx /\ Sx \ {y} = R
         /\ Sy \in SUBSET S /\ Sy # S /\ x \in Sy /\ Sy \ {x} = R
    BY <1>9, <1>11, <1>12, <1>13
  <1>15. /\ SumFunctionOnSet(f, Sx) = f[y] + SumFunctionOnSet(f, R)
         /\ SumFunctionOnSet(f, Sy) = f[x] + SumFunctionOnSet(f, R)
    BY <1>10, <1>14
  <1>16. SumFunctionOnSet(f, R) \in Int
    <2>1. IsFiniteSet(R) /\ R \in SUBSET D
      BY <1>5, <1>13, FS_Subset
    <2>. QED
      BY <2>1, SumInt
  <1>17. f[x] \in Int /\ f[y] \in Int
    BY <1>5
  <1>. QED
    BY <1>6, <1>8, <1>11, <1>12, <1>15, <1>16, <1>17

\* One more element adds its value.
LEMMA SumAdd ==
    ASSUME NEW f, NEW D, IsFiniteSet(D), \A x \in D : f[x] \in Int,
           NEW e, e \notin D, f[e] \in Int
    PROVE  SumFunctionOnSet(f, D \cup {e}) = f[e] + SumFunctionOnSet(f, D)
  <1>1. PICK E : E = D \cup {e}
    OBVIOUS
  <1>2. IsFiniteSet(E)
    BY <1>1, FS_AddElement
  <1>3. e \in E /\ E \ {e} = D /\ \A x \in E : f[x] \in Int
    BY <1>1
  <1>. QED
    BY <1>1, <1>2, <1>3, SumRemove

\* Functions that agree on a set have the same sum over it.
LEMMA SumSame ==
    ASSUME NEW f, NEW g, NEW D, IsFiniteSet(D), \A x \in D : f[x] = g[x]
    PROVE  SumFunctionOnSet(f, D) = SumFunctionOnSet(g, D)
  <1>. DEFINE Bad == {S \in SUBSET D :
                          SumFunctionOnSet(f, S) # SumFunctionOnSet(g, S)}
  <1>1. SUFFICES ASSUME Bad # {} PROVE FALSE
    OBVIOUS
  <1>2. PICK B \in SUBSET (SUBSET D) : B = Bad
    OBVIOUS
  <1>3. B # {}
    BY <1>1, <1>2
  <1>4. PICK S \in B : \A T \in B : T \subseteq S => T = S
    BY <1>3, SmallestSubset
  <1>5. /\ S \in SUBSET D /\ IsFiniteSet(S)
        /\ SumFunctionOnSet(f, S) # SumFunctionOnSet(g, S)
    BY <1>2, FS_Subset
  <1>6. S # {}
    BY <1>5, SumEmpty
  <1>7. Pick(S) \in S /\ f[Pick(S)] = g[Pick(S)]
    BY <1>5, <1>6, PickIn
  <1>8. PICK R : R = S \ {Pick(S)}
    OBVIOUS
  <1>9. R \in SUBSET D /\ R \subseteq S /\ R # S
    BY <1>5, <1>7, <1>8
  <1>10. SumFunctionOnSet(f, R) = SumFunctionOnSet(g, R)
    BY <1>2, <1>4, <1>9
  <1>11. /\ SumFunctionOnSet(f, S) = f[Pick(S)] + SumFunctionOnSet(f, R)
         /\ SumFunctionOnSet(g, S) = g[Pick(S)] + SumFunctionOnSet(g, R)
    BY <1>5, <1>6, <1>8, SumPick
  <1>. QED
    BY <1>5, <1>7, <1>10, <1>11

\* A new element adds its value, whatever else the function had for it before.
LEMMA SumGrows ==
    ASSUME NEW f, NEW g, NEW D, IsFiniteSet(D), \A x \in D : f[x] \in Int,
           \A x \in D : g[x] = f[x], NEW e, e \notin D, g[e] \in Int
    PROVE  SumFunctionOnSet(g, D \cup {e}) = g[e] + SumFunctionOnSet(f, D)
  <1>1. \A x \in D : g[x] \in Int
    OBVIOUS
  <1>2. SumFunctionOnSet(g, D \cup {e}) = g[e] + SumFunctionOnSet(g, D)
    BY <1>1, SumAdd
  <1>3. SumFunctionOnSet(f, D) = SumFunctionOnSet(g, D)
    BY SumSame
  <1>. QED
    BY <1>2, <1>3

\* A sum of natural numbers is one, and no smaller than the sum over a part.
LEMMA SumNat ==
    ASSUME NEW f, NEW D, IsFiniteSet(D), \A x \in D : f[x] \in Nat
    PROVE  SumFunctionOnSet(f, D) \in Nat
  <1>. DEFINE Bad == {S \in SUBSET D : SumFunctionOnSet(f, S) \notin Nat}
  <1>1. SUFFICES ASSUME Bad # {} PROVE FALSE
    OBVIOUS
  <1>2. PICK B \in SUBSET (SUBSET D) : B = Bad
    OBVIOUS
  <1>3. B # {}
    BY <1>1, <1>2
  <1>4. PICK S \in B : \A T \in B : T \subseteq S => T = S
    BY <1>3, SmallestSubset
  <1>5. S \in SUBSET D /\ SumFunctionOnSet(f, S) \notin Nat /\ IsFiniteSet(S)
    BY <1>2, FS_Subset
  <1>6. S # {}
    <2>1. SumFunctionOnSet(f, {}) = 0
      BY SumEmpty
    <2>2. SumFunctionOnSet(f, {}) \in Nat
      BY <2>1
    <2>. QED
      BY <1>5, <2>2
  <1>7. Pick(S) \in S /\ f[Pick(S)] \in Nat
    BY <1>5, <1>6, PickIn
  <1>8. PICK R : R = S \ {Pick(S)}
    OBVIOUS
  <1>9. R \in SUBSET D /\ R \subseteq S /\ R # S
    BY <1>5, <1>7, <1>8
  <1>10. SumFunctionOnSet(f, R) \in Nat
    BY <1>2, <1>4, <1>9
  <1>11. SumFunctionOnSet(f, S) = f[Pick(S)] + SumFunctionOnSet(f, R)
    BY <1>5, <1>6, <1>8, SumPick
  <1>. QED
    BY <1>5, <1>7, <1>10, <1>11

LEMMA SumPart ==
    ASSUME NEW f, NEW D, IsFiniteSet(D), \A x \in D : f[x] \in Nat, NEW E \in SUBSET D
    PROVE  SumFunctionOnSet(f, E) <= SumFunctionOnSet(f, D)
  <1>. DEFINE Bad == {S \in SUBSET D :
                  E \subseteq S /\ ~ (SumFunctionOnSet(f, E) <= SumFunctionOnSet(f, S))}
  <1>1. SUFFICES ASSUME Bad # {} PROVE FALSE
    OBVIOUS
  <1>2. PICK B \in SUBSET (SUBSET D) : B = Bad
    OBVIOUS
  <1>3. B # {}
    BY <1>1, <1>2
  <1>4. PICK S \in B : \A T \in B : T \subseteq S => T = S
    BY <1>3, SmallestSubset
  <1>5. /\ S \in SUBSET D /\ E \subseteq S /\ IsFiniteSet(S) /\ IsFiniteSet(E)
        /\ ~ (SumFunctionOnSet(f, E) <= SumFunctionOnSet(f, S))
    BY <1>2, FS_Subset
  <1>6. SumFunctionOnSet(f, E) \in Nat /\ SumFunctionOnSet(f, S) \in Nat
    BY <1>5, SumNat
  <1>7. E # S
    BY <1>5, <1>6
  <1>8. PICK x \in S : x \notin E
    BY <1>5, <1>7
  <1>9. PICK R : R = S \ {x}
    OBVIOUS
  <1>10. R \in SUBSET D /\ R \subseteq S /\ R # S /\ E \subseteq R /\ IsFiniteSet(R)
    BY <1>5, <1>8, <1>9, FS_Subset
  <1>11. SumFunctionOnSet(f, E) <= SumFunctionOnSet(f, R)
    BY <1>2, <1>4, <1>10
  <1>12. SumFunctionOnSet(f, S) = f[x] + SumFunctionOnSet(f, R)
    <2>1. \A y \in S : f[y] \in Int
      BY <1>5
    <2>. QED
      BY <1>5, <1>9, <2>1, SumRemove
  <1>13. f[x] \in Nat /\ SumFunctionOnSet(f, R) \in Nat
    BY <1>5, <1>10, SumNat
  <1>. QED
    BY <1>5, <1>6, <1>11, <1>12, <1>13

\* Zeros add up to zero.
LEMMA SumOfZeros ==
    ASSUME NEW f, NEW D, IsFiniteSet(D), \A x \in D : f[x] = 0
    PROVE  SumFunctionOnSet(f, D) = 0
  <1>. DEFINE Bad == {S \in SUBSET D : SumFunctionOnSet(f, S) # 0}
  <1>1. SUFFICES ASSUME Bad # {} PROVE FALSE
    OBVIOUS
  <1>2. PICK B \in SUBSET (SUBSET D) : B = Bad
    OBVIOUS
  <1>3. B # {}
    BY <1>1, <1>2
  <1>4. PICK S \in B : \A T \in B : T \subseteq S => T = S
    BY <1>3, SmallestSubset
  <1>5. S \in SUBSET D /\ SumFunctionOnSet(f, S) # 0 /\ IsFiniteSet(S)
    BY <1>2, FS_Subset
  <1>6. S # {}
    BY <1>5, SumEmpty
  <1>7. Pick(S) \in S /\ f[Pick(S)] = 0
    BY <1>5, <1>6, PickIn
  <1>8. PICK R : R = S \ {Pick(S)}
    OBVIOUS
  <1>9. R \in SUBSET D /\ R \subseteq S /\ R # S
    BY <1>5, <1>7, <1>8
  <1>10. SumFunctionOnSet(f, R) = 0
    BY <1>2, <1>4, <1>9
  <1>11. SumFunctionOnSet(f, S) = f[Pick(S)] + SumFunctionOnSet(f, R)
    BY <1>5, <1>6, <1>8, SumPick
  <1>. QED
    BY <1>5, <1>7, <1>10, <1>11

\* A sum over a set is that over a part and that over the rest.
LEMMA SumSplit ==
    ASSUME NEW f, NEW D, IsFiniteSet(D), \A x \in D : f[x] \in Int, NEW E \in SUBSET D
    PROVE  SumFunctionOnSet(f, D) = SumFunctionOnSet(f, E) + SumFunctionOnSet(f, D \ E)
  <1>. DEFINE Bad == {S \in SUBSET D : E \subseteq S /\
                  SumFunctionOnSet(f, S)
                      # SumFunctionOnSet(f, E) + SumFunctionOnSet(f, S \ E)}
  <1>1. SUFFICES ASSUME Bad # {} PROVE FALSE
    OBVIOUS
  <1>2. PICK B \in SUBSET (SUBSET D) : B = Bad
    OBVIOUS
  <1>3. B # {}
    BY <1>1, <1>2
  <1>4. PICK S \in B : \A T \in B : T \subseteq S => T = S
    BY <1>3, SmallestSubset
  <1>5. /\ S \in SUBSET D /\ E \subseteq S /\ IsFiniteSet(S) /\ IsFiniteSet(S \ E)
        /\ SumFunctionOnSet(f, S)
               # SumFunctionOnSet(f, E) + SumFunctionOnSet(f, S \ E)
    BY <1>2, FS_Subset
  <1>6. PICK t \in Int : t = SumFunctionOnSet(f, E)
    BY FS_Subset, SumInt
  <1>7. E # S
    <2>1. ASSUME E = S PROVE FALSE
      <3>1. S \ E = {}
        BY <2>1
      <3>2. SumFunctionOnSet(f, S \ E) = 0
        BY <3>1, SumEmpty
      <3>3. t # t + 0
        BY <1>5, <1>6, <2>1, <3>2
      <3>. QED
        BY <1>6, <3>3
    <2>. QED
      BY <2>1
  <1>8. PICK x \in S : x \notin E
    BY <1>5, <1>7
  <1>9. PICK R : R = S \ {x}
    OBVIOUS
  <1>10. R \in SUBSET D /\ R \subseteq S /\ R # S /\ E \subseteq R
    BY <1>5, <1>8, <1>9
  <1>11. SumFunctionOnSet(f, R) = t + SumFunctionOnSet(f, R \ E)
    BY <1>2, <1>4, <1>6, <1>10
  <1>12. SumFunctionOnSet(f, S) = f[x] + SumFunctionOnSet(f, R)
    <2>1. \A y \in S : f[y] \in Int
      BY <1>5
    <2>. QED
      BY <1>5, <1>9, <2>1, SumRemove
  <1>13. PICK Q : Q = S \ E
    OBVIOUS
  <1>14. SumFunctionOnSet(f, Q) = f[x] + SumFunctionOnSet(f, Q \ {x})
    <2>1. \A y \in Q : f[y] \in Int
      BY <1>5, <1>13
    <2>2. x \in Q /\ IsFiniteSet(Q)
      BY <1>5, <1>8, <1>13
    <2>. QED
      BY <2>1, <2>2, SumRemove
  <1>15. Q \ {x} = R \ E
    BY <1>9, <1>13
  <1>16. PICK r \in Int : r = SumFunctionOnSet(f, R \ E)
    <2>1. \A y \in R \ E : f[y] \in Int
      BY <1>10
    <2>2. IsFiniteSet(R \ E)
      BY <1>10, FS_Subset
    <2>. QED
      BY <2>1, <2>2, SumInt
  <1>17. PICK v \in Int : v = f[x]
    BY <1>5
  <1>18. SumFunctionOnSet(f, S) = v + (t + r)
    BY <1>11, <1>12, <1>16, <1>17
  <1>19. SumFunctionOnSet(f, S \ E) = v + r
    BY <1>13, <1>14, <1>15, <1>16, <1>17
  <1>20. v + (t + r) # t + (v + r)
    BY <1>5, <1>6, <1>18, <1>19
  <1>. QED
    BY <1>20

\* Where one value moves from a to b, the sum moves with it.
LEMMA SumMove ==
    ASSUME NEW f, NEW g, NEW D, IsFiniteSet(D), NEW e \in D, NEW a \in Int, NEW b \in Int,
           \A x \in D : f[x] \in Int, f[e] = a, g[e] = b,
           \A x \in D \ {e} : g[x] = f[x]
    PROVE  SumFunctionOnSet(g, D) = (SumFunctionOnSet(f, D) - a) + b
  <1>1. PICK R : R = D \ {e}
    OBVIOUS
  <1>2. IsFiniteSet(R)
    BY <1>1, FS_Subset
  <1>3. \A x \in R : f[x] \in Int /\ f[x] = g[x]
    BY <1>1
  <1>4. PICK s \in Int : s = SumFunctionOnSet(f, R)
    BY <1>2, <1>3, SumInt
  <1>5. SumFunctionOnSet(f, R) = SumFunctionOnSet(g, R)
    BY <1>2, <1>3, SumSame
  <1>6. \A x \in D : g[x] \in Int
    <2>1. \A x \in D : x = e \/ x \in R
      BY <1>1
    <2>. QED
      BY <1>3, <2>1
  <1>7. SumFunctionOnSet(f, D) = a + s
    <2>1. SumFunctionOnSet(f, D) = f[e] + SumFunctionOnSet(f, D \ {e})
      BY SumRemove
    <2>. QED
      BY <1>1, <1>4, <2>1
  <1>8. SumFunctionOnSet(g, D) = b + s
    <2>1. SumFunctionOnSet(g, D) = g[e] + SumFunctionOnSet(g, D \ {e})
      BY <1>6, SumRemove
    <2>. QED
      BY <1>1, <1>4, <1>5, <2>1
  <1>9. b + s = ((a + s) - a) + b
    BY <1>4
  <1>. QED
    BY <1>7, <1>8, <1>9
==============================================================================
