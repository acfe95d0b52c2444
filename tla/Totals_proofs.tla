--------------------------- MODULE Totals_proofs ---------------------------
(***************************************************************************)
(* The rules for sums over finite sets.  The sum is a recursive function   *)
(* that takes one member after the other; every rule is proved by taking a *)
(* smallest set for which it fails.                                        *)
(***************************************************************************)
EXTENDS Totals, FiniteSetTheorems, WellFoundedInduction, TLAPS

\* Among some subsets of a finite set there is one without any other inside it.
LEMMA SmallestSet ==
  ASSUME NEW S, IsFiniteSet(S), NEW B, B \subseteq SUBSET S, B # {}
  PROVE  \E T \in B : \A U \in SUBSET T : U # T => U \notin B
<1>1. IsWellFoundedOn(StrictSubsetOrdering(S), SUBSET S)
  BY FS_StrictSubsetOrderingWellFounded, FS_FiniteSubsetsOfFinite
<1>2. PICK T \in B : \A U \in B : <<U, T>> \notin StrictSubsetOrdering(S)
  BY <1>1, WFMin
<1>3. ASSUME NEW U \in SUBSET T, U # T, U \in B
      PROVE  FALSE
  <2>1. <<U, T>> \in StrictSubsetOrdering(S)
    BY <1>3 DEF StrictSubsetOrdering
  <2> QED
    BY <1>2, <1>3, <2>1
<1> QED
  BY <1>3

\* The member that the sum takes next, and the function that is the sum.
First(s) == CHOOSE x \in s : TRUE
Sums(f, w, S) ==
  f = [s \in SUBSET S |-> IF s = {} THEN 0 ELSE w[First(s)] + f[s \ {First(s)}]]

LEMMA TotalIsChosen ==
  ASSUME NEW w, NEW S
  PROVE  Total(w, S) = (CHOOSE f : Sums(f, w, S))[S]
BY DEF Total, MapThenSumSet, MapThenFoldSet, Sums, First

LEMMA FirstIsIn ==
  ASSUME NEW s, s # {}
  PROVE  First(s) \in s
BY DEF First

\* Two such functions agree.
LEMMA SumsAgree ==
  ASSUME NEW S, IsFiniteSet(S), NEW w, NEW f, NEW g, Sums(f, w, S), Sums(g, w, S)
  PROVE  \A s \in SUBSET S : f[s] = g[s]
<1> DEFINE B == {s \in SUBSET S : f[s] # g[s]}
<1>1. SUFFICES ASSUME B # {} PROVE FALSE
  OBVIOUS
<1>2. PICK s \in B : \A u \in SUBSET s : u # s => u \notin B
  <2>1. B \subseteq SUBSET S
    OBVIOUS
  <2> HIDE DEF B
  <2> QED
    BY <1>1, <2>1, SmallestSet
<1>3. s # {}
  BY <1>2 DEF Sums
<1>4. First(s) \in s
  BY <1>3, FirstIsIn
<1>5. s \ {First(s)} \notin B /\ s \ {First(s)} \in SUBSET S
  BY <1>2, <1>4
<1>6. f[s \ {First(s)}] = g[s \ {First(s)}]
  BY <1>5
<1>7. f[s] = w[First(s)] + f[s \ {First(s)}] /\ g[s] = w[First(s)] + g[s \ {First(s)}]
  BY <1>2, <1>3 DEF Sums
<1> QED
  BY <1>2, <1>6, <1>7

\* The sum satisfies the equation of its recursion.
LEMMA TotalUnfolds ==
  ASSUME NEW S, IsFiniteSet(S), NEW w
  PROVE  Total(w, S) = IF S = {} THEN 0 ELSE w[First(S)] + Total(w, S \ {First(S)})
<1> DEFINE Step(s) == IF s = {} THEN 0 ELSE w[First(s)] + Total(w, s \ {First(s)})
           B == {s \in SUBSET S : Total(w, s) # Step(s)}
<1>1. SUFFICES ASSUME B # {} PROVE FALSE
  OBVIOUS
<1>2. PICK T \in B : \A u \in SUBSET T : u # T => u \notin B
  <2>1. B \subseteq SUBSET S
    OBVIOUS
  <2> HIDE DEF B
  <2> QED
    BY <1>1, <2>1, SmallestSet
<1>3. T \in SUBSET S /\ IsFiniteSet(T) /\ Total(w, T) # Step(T)
  BY <1>2, FS_Subset
<1>4. PICK f : f = [s \in SUBSET T |-> Step(s)]
  OBVIOUS
<1>5. ASSUME NEW s \in SUBSET T, s # {}
      PROVE  f[s \ {First(s)}] = Total(w, s \ {First(s)})
  <2>1. First(s) \in s
    BY <1>5, FirstIsIn
  <2>2. s \ {First(s)} \in SUBSET T /\ s \ {First(s)} # T
    BY <2>1
  <2>3. s \ {First(s)} \notin B /\ s \ {First(s)} \in SUBSET S
    BY <1>2, <1>3, <2>2
  <2>4. Total(w, s \ {First(s)}) = Step(s \ {First(s)})
    BY <2>3
  <2> QED
    BY <1>4, <2>2, <2>4
<1>6. Sums(f, w, T)
  <2>1. ASSUME NEW s \in SUBSET T
        PROVE  Step(s) = IF s = {} THEN 0 ELSE w[First(s)] + f[s \ {First(s)}]
    BY <1>5
  <2> HIDE DEF Step
  <2>2. f = [s \in SUBSET T |-> IF s = {} THEN 0 ELSE w[First(s)] + f[s \ {First(s)}]]
    BY <1>4, <2>1
  <2> QED
    BY <2>2 DEF Sums
<1>7. PICK g : g = (CHOOSE h : Sums(h, w, T))
  OBVIOUS
<1>8. Sums(g, w, T)
  BY <1>6, <1>7
<1>9. g[T] = f[T] /\ Total(w, T) = g[T]
  BY <1>3, <1>6, <1>7, <1>8, SumsAgree, TotalIsChosen
<1>10. f[T] = Step(T)
  BY <1>4
<1> QED
  BY <1>3, <1>9, <1>10

-----------------------------------------------------------------------------
LEMMA TotalEmpty ==
  ASSUME NEW w
  PROVE  Total(w, {}) = 0
BY TotalUnfolds, FS_EmptySet

LEMMA TotalZero ==
  ASSUME NEW S, IsFiniteSet(S), NEW w, \A x \in S : w[x] = 0
  PROVE  Total(w, S) = 0
<1> DEFINE B == {s \in SUBSET S : Total(w, s) # 0}
<1>1. SUFFICES ASSUME B # {} PROVE FALSE
  OBVIOUS
<1>2. PICK T \in B : \A u \in SUBSET T : u # T => u \notin B
  <2>1. B \subseteq SUBSET S
    OBVIOUS
  <2> HIDE DEF B
  <2> QED
    BY <1>1, <2>1, SmallestSet
<1>3. T \in SUBSET S /\ IsFiniteSet(T) /\ Total(w, T) # 0
  BY <1>2, FS_Subset
<1>4. T # {}
  BY <1>3, TotalEmpty
<1>5. First(T) \in T
  BY <1>4, FirstIsIn
<1>6. T \ {First(T)} \notin B
  BY <1>2, <1>5
<1>7. Total(w, T \ {First(T)}) = 0 /\ w[First(T)] = 0
  BY <1>3, <1>5, <1>6
<1>8. Total(w, T) = w[First(T)] + Total(w, T \ {First(T)})
  BY <1>3, <1>4, TotalUnfolds
<1> QED
  BY <1>3, <1>7, <1>8

LEMMA TotalInt ==
  ASSUME NEW S, IsFiniteSet(S), NEW w, \A x \in S : w[x] \in Int
  PROVE  Total(w, S) \in Int
<1> DEFINE B == {s \in SUBSET S : Total(w, s) \notin Int}
<1>1. SUFFICES ASSUME B # {} PROVE FALSE
  OBVIOUS
<1>2. PICK T \in B : \A u \in SUBSET T : u # T => u \notin B
  <2>1. B \subseteq SUBSET S
    OBVIOUS
  <2> HIDE DEF B
  <2> QED
    BY <1>1, <2>1, SmallestSet
<1>3. T \in SUBSET S /\ IsFiniteSet(T) /\ Total(w, T) \notin Int
  BY <1>2, FS_Subset
<1>4. T # {}
  BY <1>3, TotalEmpty
<1>5. First(T) \in T
  BY <1>4, FirstIsIn
<1>6. T \ {First(T)} \notin B
  BY <1>2, <1>5
<1>7. Total(w, T \ {First(T)}) \in Int /\ w[First(T)] \in Int
  BY <1>3, <1>5, <1>6
<1>8. Total(w, T) = w[First(T)] + Total(w, T \ {First(T)})
  BY <1>3, <1>4, TotalUnfolds
<1> QED
  BY <1>3, <1>7, <1>8

\* It does not matter which member is taken first.
LEMMA TotalRemove ==
  ASSUME NEW S, IsFiniteSet(S), NEW w, \A x \in S : w[x] \in Int, NEW x \in S
  PROVE  Total(w, S) = w[x] + Total(w, S \ {x})
<1> DEFINE B == {s \in SUBSET S : \E y \in s : Total(w, s) # w[y] + Total(w, s \ {y})}
<1>1. SUFFICES ASSUME B # {} PROVE FALSE
  OBVIOUS
<1>2. PICK T \in B : \A u \in SUBSET T : u # T => u \notin B
  <2>1. B \subseteq SUBSET S
    OBVIOUS
  <2> HIDE DEF B
  <2> QED
    BY <1>1, <2>1, SmallestSet
<1>3. PICK y \in T : Total(w, T) # w[y] + Total(w, T \ {y})
  BY <1>2
<1>4. PICK p : p = First(T)
  OBVIOUS
<1>5. T \in SUBSET S /\ IsFiniteSet(T) /\ p \in T
  BY <1>2, <1>3, <1>4, FS_Subset, FirstIsIn
<1>6. Total(w, T) = w[p] + Total(w, T \ {p})
  BY <1>3, <1>4, <1>5, TotalUnfolds
<1>7. y # p
  BY <1>3, <1>6
<1>8. Total(w, T \ {p}) = w[y] + Total(w, (T \ {p}) \ {y})
  <2>1. T \ {p} \notin B
    BY <1>2, <1>5
  <2> QED
    BY <1>5, <1>7, <2>1
<1>9. Total(w, T \ {y}) = w[p] + Total(w, (T \ {y}) \ {p})
  <2>1. T \ {y} \notin B
    BY <1>2, <1>3
  <2> QED
    BY <1>5, <1>7, <2>1
<1>10. (T \ {p}) \ {y} = (T \ {y}) \ {p}
  OBVIOUS
<1>11. w[p] \in Int /\ w[y] \in Int /\ Total(w, (T \ {p}) \ {y}) \in Int
  <2>1. (T \ {p}) \ {y} \in SUBSET S
    BY <1>5
  <2>2. IsFiniteSet((T \ {p}) \ {y})
    BY <2>1, FS_Subset
  <2> QED
    BY <1>5, <2>1, <2>2, TotalInt
<1>12. w[p] + (w[y] + Total(w, (T \ {p}) \ {y})) = w[y] + (w[p] + Total(w, (T \ {p}) \ {y}))
  BY <1>11
<1> QED
  BY <1>3, <1>6, <1>8, <1>9, <1>10, <1>12

LEMMA TotalAdd ==
  ASSUME NEW S, IsFiniteSet(S), NEW w, NEW x, x \notin S,
         \A y \in S \cup {x} : w[y] \in Int
  PROVE  Total(w, S \cup {x}) = Total(w, S) + w[x]
<1>1. IsFiniteSet(S \cup {x}) /\ (S \cup {x}) \ {x} = S
  BY FS_AddElement
<1>2. Total(w, S \cup {x}) = w[x] + Total(w, (S \cup {x}) \ {x})
  BY <1>1, TotalRemove
<1>3. Total(w, S) \in Int /\ w[x] \in Int
  BY TotalInt
<1>4. w[x] + Total(w, S) = Total(w, S) + w[x]
  BY <1>3
<1> QED
  BY <1>1, <1>2, <1>4

\* Only the values on the set count.
LEMMA TotalSame ==
  ASSUME NEW S, IsFiniteSet(S), NEW w, NEW v, \A x \in S : w[x] = v[x]
  PROVE  Total(w, S) = Total(v, S)
<1> DEFINE B == {s \in SUBSET S : Total(w, s) # Total(v, s)}
<1>1. SUFFICES ASSUME B # {} PROVE FALSE
  OBVIOUS
<1>2. PICK T \in B : \A u \in SUBSET T : u # T => u \notin B
  <2>1. B \subseteq SUBSET S
    OBVIOUS
  <2> HIDE DEF B
  <2> QED
    BY <1>1, <2>1, SmallestSet
<1>3. T \in SUBSET S /\ IsFiniteSet(T) /\ Total(w, T) # Total(v, T)
  BY <1>2, FS_Subset
<1>4. T # {}
  BY <1>3, TotalEmpty
<1>5. First(T) \in T
  BY <1>4, FirstIsIn
<1>6. T \ {First(T)} \notin B
  BY <1>2, <1>5
<1>7. Total(w, T \ {First(T)}) = Total(v, T \ {First(T)}) /\ w[First(T)] = v[First(T)]
  BY <1>3, <1>5, <1>6
<1>8. /\ Total(w, T) = w[First(T)] + Total(w, T \ {First(T)})
      /\ Total(v, T) = v[First(T)] + Total(v, T \ {First(T)})
  BY <1>3, <1>4, TotalUnfolds
<1> QED
  BY <1>3, <1>7, <1>8

\* A bound on every member bounds the sum.
LEMMA TotalBound ==
  ASSUME NEW S, IsFiniteSet(S), NEW w, NEW v, NEW k \in Nat,
         \A x \in S : w[x] \in Int /\ v[x] \in Int /\ w[x] <= k + v[x]
  PROVE  Total(w, S) <= k * Cardinality(S) + Total(v, S)
<1> DEFINE B == {s \in SUBSET S : ~ (Total(w, s) <= k * Cardinality(s) + Total(v, s))}
<1>1. SUFFICES ASSUME B # {} PROVE FALSE
  OBVIOUS
<1>2. PICK T \in B : \A u \in SUBSET T : u # T => u \notin B
  <2>1. B \subseteq SUBSET S
    OBVIOUS
  <2> HIDE DEF B
  <2> QED
    BY <1>1, <2>1, SmallestSet
<1>3. T \in SUBSET S /\ IsFiniteSet(T) /\ ~ (Total(w, T) <= k * Cardinality(T) + Total(v, T))
  BY <1>2, FS_Subset
<1>4. T # {}
  <2>1. ASSUME T = {} PROVE FALSE
    <3>1. Total(w, T) = 0 /\ Total(v, T) = 0 /\ Cardinality(T) = 0
      BY <2>1, TotalEmpty, FS_EmptySet
    <3> QED
      BY <1>3, <3>1
  <2> QED
    BY <2>1
<1>5. PICK x \in T : TRUE
  BY <1>4
<1>6. PICK U : U = T \ {x}
  OBVIOUS
<1>7. U \in SUBSET S /\ IsFiniteSet(U) /\ Cardinality(U) \in Nat /\ Cardinality(T) = Cardinality(U) + 1
  <2>1. U \in SUBSET S /\ T = U \cup {x} /\ x \notin U
    BY <1>3, <1>5, <1>6
  <2>2. IsFiniteSet(U)
    BY <2>1, FS_Subset
  <2>3. Cardinality(U \cup {x}) = Cardinality(U) + 1
    BY <2>1, <2>2, FS_AddElement
  <2> QED
    BY <2>1, <2>2, <2>3, FS_CardinalityType
<1>8. Total(w, U) <= k * Cardinality(U) + Total(v, U)
  BY <1>2, <1>3, <1>5, <1>6
<1>9. Total(w, T) = w[x] + Total(w, U) /\ Total(v, T) = v[x] + Total(v, U)
  BY <1>3, <1>5, <1>6, TotalRemove
<1>10. /\ Total(w, U) \in Int /\ Total(v, U) \in Int
       /\ w[x] \in Int /\ v[x] \in Int /\ w[x] <= k + v[x]
  BY <1>3, <1>5, <1>7, TotalInt
<1>11. k * Cardinality(T) = k * Cardinality(U) + k /\ k * Cardinality(U) \in Int
  BY <1>7
<1> QED
  BY <1>3, <1>8, <1>9, <1>10, <1>11

\* Natural numbers sum to a natural number, which is at least each of them.
LEMMA TotalNat ==
  ASSUME NEW S, IsFiniteSet(S), NEW w, \A x \in S : w[x] \in Nat
  PROVE  Total(w, S) \in Nat /\ \A x \in S : w[x] <= Total(w, S)
<1>1. ASSUME NEW T \in SUBSET S
      PROVE  Total(w, T) \in Nat
  <2> DEFINE B == {s \in SUBSET S : Total(w, s) \notin Nat}
  <2>1. SUFFICES ASSUME B # {} PROVE FALSE
    OBVIOUS
  <2>2. PICK U \in B : \A u \in SUBSET U : u # U => u \notin B
    <3>1. B \subseteq SUBSET S
      OBVIOUS
    <3> HIDE DEF B
    <3> QED
      BY <2>1, <3>1, SmallestSet
  <2>3. U \in SUBSET S /\ IsFiniteSet(U) /\ Total(w, U) \notin Nat
    BY <2>2, FS_Subset
  <2>4. U # {}
    BY <2>3, TotalEmpty
  <2>5. First(U) \in U
    BY <2>4, FirstIsIn
  <2>6. U \ {First(U)} \notin B
    BY <2>2, <2>5
  <2>7. Total(w, U \ {First(U)}) \in Nat /\ w[First(U)] \in Nat
    BY <2>3, <2>5, <2>6
  <2>8. Total(w, U) = w[First(U)] + Total(w, U \ {First(U)})
    BY <2>3, <2>4, TotalUnfolds
  <2> QED
    BY <2>3, <2>7, <2>8
<1>2. ASSUME NEW x \in S
      PROVE  w[x] <= Total(w, S)
  <2>1. Total(w, S) = w[x] + Total(w, S \ {x})
    BY TotalRemove
  <2>2. Total(w, S \ {x}) \in Nat /\ w[x] \in Nat
    BY <1>1
  <2> QED
    BY <2>1, <2>2
<1> QED
  BY <1>1, <1>2

\* The sum over two sets without a common member.
LEMMA TotalUnion ==
  ASSUME NEW S, IsFiniteSet(S), NEW R, IsFiniteSet(R), S \cap R = {}, NEW w,
         \A x \in S \cup R : w[x] \in Int
  PROVE  Total(w, S \cup R) = Total(w, S) + Total(w, R)
<1> DEFINE B == {s \in SUBSET R : Total(w, S \cup s) # Total(w, S) + Total(w, s)}
<1>0. Total(w, S) \in Int
  BY TotalInt
<1>1. SUFFICES ASSUME B # {} PROVE FALSE
  OBVIOUS
<1>2. PICK T \in B : \A u \in SUBSET T : u # T => u \notin B
  <2>1. B \subseteq SUBSET R
    OBVIOUS
  <2> HIDE DEF B
  <2> QED
    BY <1>1, <2>1, SmallestSet
<1>3. T \in SUBSET R /\ IsFiniteSet(T) /\ Total(w, S \cup T) # Total(w, S) + Total(w, T)
  BY <1>2, FS_Subset
<1>4. T # {}
  <2>1. ASSUME T = {} PROVE FALSE
    <3>1. Total(w, T) = 0
      BY <2>1, TotalEmpty
    <3>2. S \cup T = S
      BY <2>1
    <3>3. Total(w, S) + 0 = Total(w, S)
      BY <1>0
    <3> QED
      BY <1>3, <3>1, <3>2, <3>3
  <2> QED
    BY <2>1
<1>5. PICK x \in T : TRUE
  BY <1>4
<1>6. PICK U : U = T \ {x}
  OBVIOUS
<1>7. /\ U \in SUBSET R /\ IsFiniteSet(U) /\ x \notin S \cup U
      /\ T = U \cup {x} /\ S \cup T = (S \cup U) \cup {x}
  BY <1>3, <1>5, <1>6, FS_RemoveElement
<1>8. Total(w, S \cup U) = Total(w, S) + Total(w, U)
  BY <1>2, <1>3, <1>5, <1>6
<1>9. IsFiniteSet(S \cup U)
  BY <1>7, FS_Union
<1>10. Total(w, S \cup T) = Total(w, S \cup U) + w[x]
  <2>1. \A y \in (S \cup U) \cup {x} : w[y] \in Int
    BY <1>3, <1>5, <1>7
  <2> HIDE DEF B
  <2>2. Total(w, (S \cup U) \cup {x}) = Total(w, S \cup U) + w[x]
    BY <1>7, <1>9, <2>1, TotalAdd, ZenonT(30)
  <2> QED
    BY <1>7, <2>2
<1>11. Total(w, T) = Total(w, U) + w[x]
  BY <1>3, <1>7, TotalAdd
<1>12. Total(w, U) \in Int /\ w[x] \in Int
  BY <1>3, <1>5, <1>7, TotalInt
<1> QED
  BY <1>0, <1>3, <1>8, <1>10, <1>11, <1>12

\* The sum over the images of a set's members, which are all different.
Renames(f, S) == \A x, y \in S : f[x] = f[y] => x = y
Carries(f, S, w, v) == \A x \in S : w[x] \in Int /\ v[f[x]] = w[x]

LEMMA TotalImage ==
  ASSUME NEW S, IsFiniteSet(S), NEW f, Renames(f, S), NEW w, NEW v, Carries(f, S, w, v)
  PROVE  Total(v, {f[x] : x \in S}) = Total(w, S)
<1> DEFINE Image(s) == {f[x] : x \in s}
           B == {s \in SUBSET S : ~ (IsFiniteSet(Image(s)) /\ Total(v, Image(s)) = Total(w, s))}
<1>1. SUFFICES ASSUME B # {} PROVE FALSE
  OBVIOUS
<1>2. PICK T \in B : \A u \in SUBSET T : u # T => u \notin B
  <2>1. B \subseteq SUBSET S
    OBVIOUS
  <2> HIDE DEF B
  <2> QED
    BY <1>1, <2>1, SmallestSet
<1>3. /\ T \in SUBSET S /\ IsFiniteSet(T)
      /\ ~ (IsFiniteSet(Image(T)) /\ Total(v, Image(T)) = Total(w, T))
  BY <1>2, FS_Subset
<1>4. T # {}
  <2>1. ASSUME T = {} PROVE FALSE
    <3>1. Image(T) = {}
      BY <2>1
    <3>2. IsFiniteSet(Image(T)) /\ Total(v, Image(T)) = 0 /\ Total(w, T) = 0
      BY <2>1, <3>1, TotalEmpty, FS_EmptySet
    <3> QED
      BY <1>3, <3>2
  <2> QED
    BY <2>1
<1>5. PICK x \in T : TRUE
  BY <1>4
<1>6. PICK U : U = T \ {x}
  OBVIOUS
<1>7. U \in SUBSET S /\ IsFiniteSet(U) /\ x \in S /\ x \notin U /\ T = U \cup {x}
  BY <1>3, <1>5, <1>6, FS_RemoveElement
<1>8. IsFiniteSet(Image(U)) /\ Total(v, Image(U)) = Total(w, U)
  BY <1>2, <1>3, <1>5, <1>6
<1>9. f[x] \notin Image(U)
  BY <1>7 DEF Renames
<1>10. Image(T) = Image(U) \cup {f[x]}
  BY <1>7
<1>11. \A y \in Image(U) \cup {f[x]} : v[y] \in Int
  BY <1>7 DEF Carries
<1>12. IsFiniteSet(Image(T)) /\ Total(v, Image(T)) = Total(v, Image(U)) + v[f[x]]
  <2>1. PICK V : V = Image(U)
    OBVIOUS
  <2>2. PICK z : z = f[x]
    OBVIOUS
  <2>3. IsFiniteSet(V) /\ z \notin V /\ \A y \in V \cup {z} : v[y] \in Int
    BY <1>8, <1>9, <1>11, <2>1, <2>2
  <2>4. Image(T) = V \cup {z}
    BY <1>10, <2>1, <2>2
  <2> HIDE DEF Image, B
  <2>5. IsFiniteSet(V \cup {z})
    BY <2>3, FS_AddElement
  <2>6. Total(v, V \cup {z}) = Total(v, V) + v[z]
    BY <2>3, TotalAdd
  <2> QED
    BY <2>1, <2>2, <2>4, <2>5, <2>6
<1>13. Total(w, T) = Total(w, U) + w[x]
  <2> HIDE DEF Image, B
  <2>1. \A y \in U \cup {x} : w[y] \in Int
    BY <1>7 DEF Carries
  <2>2. Total(w, U \cup {x}) = Total(w, U) + w[x]
    BY <1>7, <2>1, TotalAdd, ZenonT(30)
  <2> QED
    BY <1>7, <2>2
<1>14. Total(w, T) = Total(v, Image(T))
  BY <1>7, <1>8, <1>12, <1>13 DEF Carries
<1> QED
  BY <1>3, <1>12, <1>14
=============================================================================
