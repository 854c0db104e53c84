-------------------------------- MODULE Sums --------------------------------
(***************************************************************************)
(* What the sum of a function over a finite set is, for the proofs: zero   *)
(* over the empty set, and one value more with each element, whichever the *)
(* fold takes first.  The induction is over the finite subsets of a set,   *)
(* by their least counterexample.                                          *)
(***************************************************************************)
EXTENDS Integers, FiniteSets, FiniteSetsExt, FiniteSetTheorems, TLAPS

\* Of some subsets of a finite set one has none of the others inside it.
LEMMA LeastSubset ==
    ASSUME NEW S, IsFiniteSet(S), NEW B, B \subseteq SUBSET S, B # {}
    PROVE  \E T \in B : \A U \in B : U \subseteq T => U = T
<1>1. IsWellFoundedOn(StrictSubsetOrdering(S), SUBSET S)
  BY FS_StrictSubsetOrderingWellFounded, FS_FiniteSubsetsOfFinite
<1>2. PICK T \in B : \A U \in B : ~(<<U, T>> \in StrictSubsetOrdering(S))
  BY <1>1, WFMin
<1>3. \A U \in B : U \subseteq T => U = T
  BY <1>2 DEF StrictSubsetOrdering
<1> QED
  BY <1>3

\* What holds of the empty set, and with a set also of one with an element more,
\* holds of every finite set.  G is what it holds of.
LEMMA BySize ==
    ASSUME NEW S, IsFiniteSet(S), NEW G, {} \in G,
           \A T \in SUBSET S, x \in S : T \in G /\ x \notin T => T \cup {x} \in G
    PROVE  S \in G
<1> DEFINE B == {T \in SUBSET S : T \notin G}
<1> SUFFICES ASSUME B # {} PROVE FALSE
  OBVIOUS
<1>0. B \subseteq SUBSET S
  OBVIOUS
<1>1. PICK T \in B : \A U \in B : U \subseteq T => U = T
  <2> HIDE DEF B
  <2> QED BY <1>0, LeastSubset
<1>2. PICK x \in T : TRUE
  BY <1>1
<1>3. T \ {x} \in SUBSET S /\ T \ {x} \subseteq T /\ T \ {x} # T
  BY <1>1, <1>2
<1>4. T \ {x} \in G
  BY <1>1, <1>3
<1>5. (T \ {x}) \cup {x} = T
  BY <1>2
<1>6. T \in G
  BY <1>1, <1>2, <1>3, <1>4, <1>5
<1> QED
  BY <1>1, <1>6

\* The element that a fold takes out of a set first.
Pick(s) == CHOOSE x \in s : TRUE

\* That g has the sums of f over the subsets of T.
SumsUp(g, f, T) ==
    g = [s \in SUBSET T |-> IF s = {} THEN 0 ELSE f[Pick(s)] + g[s \ {Pick(s)}]]

LEMMA PickIn == ASSUME NEW s, s # {} PROVE Pick(s) \in s
  BY DEF Pick

\* Two functions with the sums of f agree where both are defined.
LEMMA SumsUnique ==
    ASSUME NEW S, IsFiniteSet(S), NEW f, NEW T \in SUBSET S, NEW U \in SUBSET S,
           NEW g, NEW h, SumsUp(g, f, T), SumsUp(h, f, U),
           NEW s, s \subseteq T, s \subseteq U
    PROVE  g[s] = h[s]
<1> DEFINE B == {r \in SUBSET S : r \subseteq T /\ r \subseteq U /\ g[r] # h[r]}
<1> SUFFICES ASSUME B # {} PROVE FALSE
  OBVIOUS
<1>0. B \subseteq SUBSET S
  OBVIOUS
<1>1. PICK r \in B : \A q \in B : q \subseteq r => q = r
  <2> HIDE DEF B
  <2> QED BY <1>0, LeastSubset
<1>2. r # {}
  BY DEF SumsUp
<1>3. PICK x : x = Pick(r) /\ x \in r
  BY <1>2, PickIn
<1>4. g[r] = f[x] + g[r \ {x}] /\ h[r] = f[x] + h[r \ {x}]
  BY <1>2, <1>3 DEF SumsUp
<1>5. g[r \ {x}] = h[r \ {x}]
  <2>1. r \ {x} \subseteq r /\ r \ {x} # r /\ r \ {x} \in SUBSET S
    BY <1>3
  <2>2. r \ {x} \notin B
    BY <1>1, <2>1
  <2> QED
    BY <2>1, <2>2
<1> QED
  BY <1>4, <1>5

\* There is such a function.
LEMMA SumsExist ==
    ASSUME NEW S, IsFiniteSet(S), NEW f
    PROVE  \A T \in SUBSET S : \E g : SumsUp(g, f, T)
<1> DEFINE B == {T \in SUBSET S : ~ \E g : SumsUp(g, f, T)}
<1> SUFFICES ASSUME B # {} PROVE FALSE
  OBVIOUS
<1>0. B \subseteq SUBSET S
  OBVIOUS
<1>1. PICK T \in B : \A q \in B : q \subseteq T => q = T
  <2> HIDE DEF B
  <2> QED BY <1>0, LeastSubset
<1> DEFINE Of(U) == CHOOSE g : SumsUp(g, f, U)
           sum == [s \in SUBSET T |-> IF s = {} THEN 0 ELSE f[Pick(s)] + Of(s \ {Pick(s)})[s \ {Pick(s)}]]
<1>2. ASSUME NEW U, U \subseteq T, U # T PROVE SumsUp(Of(U), f, U)
  <2>1. U \in SUBSET S /\ U \notin B
    BY <1>1, <1>2
  <2>2. PICK g : SumsUp(g, f, U)
    BY <2>1
  <2> QED
    BY <2>2
<1>3. ASSUME NEW s \in SUBSET T, s # T
      PROVE  sum[s] = Of(s)[s]
  <2>1. CASE s = {}
    <3>1. SumsUp(Of(s), f, s)
      BY <1>2, <1>3
    <3> HIDE DEF Of
    <3> QED
      BY <1>3, <2>1, <3>1 DEF SumsUp
  <2>2. CASE s # {}
    <3>1. PICK x : x = Pick(s) /\ x \in s
      BY <2>2, PickIn
    <3>2. SumsUp(Of(s), f, s) /\ SumsUp(Of(s \ {x}), f, s \ {x})
      BY <1>2, <1>3, <3>1
    <3>3. Of(s)[s] = f[x] + Of(s)[s \ {x}]
      <4> HIDE DEF Of
      <4> QED BY <2>2, <3>1, <3>2 DEF SumsUp
    <3>4. Of(s)[s \ {x}] = Of(s \ {x})[s \ {x}]
      <4> HIDE DEF Of
      <4> QED BY <3>1, <3>2, SumsUnique
    <3> HIDE DEF Of
    <3> QED
      BY <2>2, <3>1, <3>3, <3>4
  <2> QED
    BY <2>1, <2>2
<1>4. SumsUp(sum, f, T)
  <2> HIDE DEF Of
  <2>1. ASSUME NEW s \in SUBSET T, s # {}
        PROVE  sum[s] = f[Pick(s)] + sum[s \ {Pick(s)}]
    <3>1. Pick(s) \in s
      BY <2>1, PickIn
    <3>2. s \ {Pick(s)} \in SUBSET T /\ s \ {Pick(s)} # T
      BY <3>1
    <3>3. sum[s \ {Pick(s)}] = Of(s \ {Pick(s)})[s \ {Pick(s)}]
      BY <1>3, <3>2
    <3> QED
      BY <2>1, <3>3
  <2>2. {} \in SUBSET T => sum[{}] = 0
    OBVIOUS
  <2>3. sum = [s \in SUBSET T |-> sum[s]]
    OBVIOUS
  <2> HIDE DEF sum
  <2> QED
    BY <2>1, <2>2, <2>3 DEF SumsUp
<1> QED
  BY <1>1, <1>4

\* The fold is such a function.
LEMMA SumIsFold ==
    ASSUME NEW f, NEW S
    PROVE  SumFunctionOnSet(f, S) = (CHOOSE g : SumsUp(g, f, S))[S]
  BY DEF SumFunctionOnSet, FoldFunctionOnSet, MapThenFoldSet, SumsUp, Pick

\* Whichever function has the sums of f, it has this one.
LEMMA SumChosen ==
    ASSUME NEW S, IsFiniteSet(S), NEW f, NEW h, SumsUp(h, f, S)
    PROVE  h[S] = SumFunctionOnSet(f, S)
<1> DEFINE g == CHOOSE k : SumsUp(k, f, S)
<1>1. SumsUp(g, f, S)
  OBVIOUS
<1>2. SumFunctionOnSet(f, S) = g[S]
  BY SumIsFold
<1> HIDE DEF g
<1> QED
  BY <1>1, <1>2, SumsUnique

\* The fold takes out one element, the one it picks ...
LEMMA SumPicks ==
    ASSUME NEW S, IsFiniteSet(S), NEW f
    PROVE  SumFunctionOnSet(f, S) =
              IF S = {} THEN 0 ELSE f[Pick(S)] + SumFunctionOnSet(f, S \ {Pick(S)})
<1> DEFINE Of(U) == CHOOSE g : SumsUp(g, f, U)
<1>1. \A U \in SUBSET S : SumsUp(Of(U), f, U)
  <2> SUFFICES ASSUME NEW U \in SUBSET S PROVE SumsUp(Of(U), f, U)
    OBVIOUS
  <2>1. PICK g : SumsUp(g, f, U)
    BY SumsExist
  <2> QED
    BY <2>1
<1>2. \A U : SumFunctionOnSet(f, U) = Of(U)[U]
  BY SumIsFold
<1> HIDE DEF Of
<1>3. CASE S = {}
  BY <1>1, <1>2, <1>3 DEF SumsUp
<1>4. CASE S # {}
  <2>1. PICK x : x = Pick(S) /\ x \in S
    BY <1>4, PickIn
  <2>2. Of(S)[S] = f[x] + Of(S)[S \ {x}]
    BY <1>1, <1>4, <2>1 DEF SumsUp
  <2>3. Of(S)[S \ {x}] = Of(S \ {x})[S \ {x}]
    BY <1>1, <2>1, SumsUnique
  <2> QED
    BY <1>2, <1>4, <2>1, <2>2, <2>3
<1> QED
  BY <1>3, <1>4

LEMMA SumEmpty == ASSUME NEW f PROVE SumFunctionOnSet(f, {}) = 0
  BY SumPicks, FS_EmptySet

\* The sum of whole numbers is one.
LEMMA SumInt ==
    ASSUME NEW S, IsFiniteSet(S), NEW f, \A s \in S : f[s] \in Int
    PROVE  SumFunctionOnSet(f, S) \in Int
<1> DEFINE B == {T \in SUBSET S : SumFunctionOnSet(f, T) \notin Int}
<1> SUFFICES ASSUME B # {} PROVE FALSE
  OBVIOUS
<1>0. B \subseteq SUBSET S
  OBVIOUS
<1>1. PICK T \in B : \A U \in B : U \subseteq T => U = T
  <2> HIDE DEF B
  <2> QED BY <1>0, LeastSubset
<1>2. IsFiniteSet(T)
  BY <1>1, FS_Subset
<1>3. T # {}
  <2>1. SumFunctionOnSet(f, {}) \in Int
    BY SumEmpty
  <2> QED
    BY <1>1, <2>1
<1>4. PICK x : x = Pick(T) /\ x \in T
  BY <1>3, PickIn
<1>5. SumFunctionOnSet(f, T \ {x}) \in Int
  <2>1. T \ {x} \in SUBSET S /\ T \ {x} \subseteq T /\ T \ {x} # T
    BY <1>1, <1>4
  <2> QED
    BY <1>1, <2>1
<1>6. SumFunctionOnSet(f, T) = f[x] + SumFunctionOnSet(f, T \ {x})
  BY <1>2, <1>3, <1>4, SumPicks
<1>7. f[x] \in Int
  BY <1>1, <1>4
<1> QED
  BY <1>1, <1>5, <1>6, <1>7

\* ... and any other element may be taken out instead.
LEMMA SumRemove ==
    ASSUME NEW S, IsFiniteSet(S), NEW f, \A s \in S : f[s] \in Int, NEW x \in S
    PROVE  SumFunctionOnSet(f, S) = f[x] + SumFunctionOnSet(f, S \ {x})
<1> DEFINE Total(T) == SumFunctionOnSet(f, T)
           B == {T \in SUBSET S : \E y \in T : Total(T) # f[y] + Total(T \ {y})}
<1> SUFFICES ASSUME B # {} PROVE FALSE
  OBVIOUS
<1>0. B \subseteq SUBSET S
  OBVIOUS
<1>1. PICK T \in B : \A U \in B : U \subseteq T => U = T
  <2> HIDE DEF B
  <2> QED BY <1>0, LeastSubset
<1>2. PICK y \in T : Total(T) # f[y] + Total(T \ {y})
  BY <1>1
<1>3. T \in SUBSET S /\ \A U \in SUBSET T : IsFiniteSet(U) /\ U \in SUBSET S
  BY <1>1, FS_Subset
<1>4. \A U \in SUBSET T : Total(U) \in Int
  BY <1>3, SumInt
<1>5. PICK p : p = Pick(T) /\ p \in T
  BY <1>2, PickIn
<1>6. Total(T) = f[p] + Total(T \ {p})
  BY <1>3, <1>5, SumPicks
<1>7. p # y
  BY <1>2, <1>6
<1>8. Total(T \ {p}) = f[y] + Total((T \ {p}) \ {y})
  <2>1. T \ {p} \in SUBSET S /\ T \ {p} \subseteq T /\ T \ {p} # T /\ y \in T \ {p}
    BY <1>2, <1>3, <1>5, <1>7
  <2>2. T \ {p} \notin B
    BY <1>1, <2>1
  <2> HIDE DEF Total
  <2> QED
    BY <2>1, <2>2
<1>9. Total(T \ {y}) = f[p] + Total((T \ {y}) \ {p})
  <2>1. T \ {y} \in SUBSET S /\ T \ {y} \subseteq T /\ T \ {y} # T /\ p \in T \ {y}
    BY <1>2, <1>3, <1>5, <1>7
  <2>2. T \ {y} \notin B
    BY <1>1, <1>2, <2>1
  <2> HIDE DEF Total
  <2> QED
    BY <2>1, <2>2
<1>10. (T \ {y}) \ {p} = (T \ {p}) \ {y}
  OBVIOUS
<1>11. /\ f[p] \in Int /\ f[y] \in Int
       /\ Total((T \ {p}) \ {y}) \in Int /\ Total(T \ {p}) \in Int /\ Total(T \ {y}) \in Int
  BY <1>2, <1>3, <1>4, <1>5
<1>12. Total(T \ {y}) = f[p] + Total((T \ {p}) \ {y})
  BY <1>9, <1>10
<1>13. ASSUME NEW a \in Int, NEW b \in Int, NEW c \in Int PROVE a + (b + c) = b + (a + c)
  BY <1>13
<1>14. Total(T) = f[y] + Total(T \ {y})
  <2> HIDE DEF Total
  <2> QED BY <1>6, <1>8, <1>11, <1>12, <1>13
<1> QED
  BY <1>2, <1>14

LEMMA SumAdd ==
    ASSUME NEW S, IsFiniteSet(S), NEW f, \A s \in S : f[s] \in Int, NEW x, x \notin S,
           f[x] \in Int
    PROVE  /\ SumFunctionOnSet(f, S \cup {x}) = f[x] + SumFunctionOnSet(f, S)
           /\ SumFunctionOnSet(f, S) \in Int
<1>1. IsFiniteSet(S \cup {x}) /\ x \in S \cup {x} /\ (S \cup {x}) \ {x} = S
  BY FS_AddElement
<1>2. \A s \in S \cup {x} : f[s] \in Int
  OBVIOUS
<1>3. SumFunctionOnSet(f, S \cup {x}) = f[x] + SumFunctionOnSet(f, (S \cup {x}) \ {x})
  BY <1>1, <1>2, SumRemove
<1> QED
  BY <1>1, <1>3, SumInt

\* The sums of two functions that agree.
LEMMA SumSame ==
    ASSUME NEW S, IsFiniteSet(S), NEW f, NEW g, \A s \in S : f[s] = g[s]
    PROVE  SumFunctionOnSet(f, S) = SumFunctionOnSet(g, S)
<1> DEFINE B == {T \in SUBSET S : SumFunctionOnSet(f, T) # SumFunctionOnSet(g, T)}
<1> SUFFICES ASSUME B # {} PROVE FALSE
  OBVIOUS
<1>0. B \subseteq SUBSET S
  OBVIOUS
<1>1. PICK T \in B : \A U \in B : U \subseteq T => U = T
  <2> HIDE DEF B
  <2> QED BY <1>0, LeastSubset
<1>2. IsFiniteSet(T)
  BY <1>1, FS_Subset
<1>3. T # {}
  BY <1>1, SumEmpty
<1>4. PICK x : x = Pick(T) /\ x \in T
  BY <1>3, PickIn
<1>5. SumFunctionOnSet(f, T \ {x}) = SumFunctionOnSet(g, T \ {x})
  <2>1. T \ {x} \in SUBSET S /\ T \ {x} \subseteq T /\ T \ {x} # T
    BY <1>1, <1>4
  <2> QED
    BY <1>1, <2>1
<1>6. /\ SumFunctionOnSet(f, T) = f[x] + SumFunctionOnSet(f, T \ {x})
      /\ SumFunctionOnSet(g, T) = g[x] + SumFunctionOnSet(g, T \ {x})
  BY <1>2, <1>3, <1>4, SumPicks
<1>7. f[x] = g[x]
  BY <1>1, <1>4
<1> QED
  BY <1>1, <1>5, <1>6, <1>7

\* One value changes by d, and so does the sum.
LEMMA SumChange ==
    ASSUME NEW S, IsFiniteSet(S), NEW f \in [S -> Int], NEW x \in S, NEW d \in Int,
           NEW g \in [S -> Int], g[x] = f[x] + d, \A s \in S \ {x} : g[s] = f[s]
    PROVE  SumFunction(g) = SumFunction(f) + d
<1>1. IsFiniteSet(S \ {x})
  BY FS_RemoveElement
<1>2. SumFunctionOnSet(g, S \ {x}) = SumFunctionOnSet(f, S \ {x})
  BY <1>1, SumSame
<1>3. /\ SumFunctionOnSet(f, S) = f[x] + SumFunctionOnSet(f, S \ {x})
      /\ SumFunctionOnSet(g, S) = g[x] + SumFunctionOnSet(g, S \ {x})
  BY SumRemove
<1>4. SumFunctionOnSet(f, S \ {x}) \in Int
  BY <1>1, SumInt
<1> QED
  BY <1>2, <1>3, <1>4 DEF SumFunction

\* The sum of one value everywhere.
LEMMA SumConstant ==
    ASSUME NEW S, IsFiniteSet(S), NEW c \in Int, NEW f, \A s \in S : f[s] = c
    PROVE  SumFunctionOnSet(f, S) = c * Cardinality(S)
<1> DEFINE G == {T \in SUBSET S : SumFunctionOnSet(f, T) = c * Cardinality(T)}
<1>1. {} \in G
  <2>1. SumFunctionOnSet(f, {}) = 0 /\ Cardinality({}) = 0 /\ c * 0 = 0
    BY SumEmpty, FS_EmptySet
  <2> QED
    BY <2>1
<1>2. ASSUME NEW T \in SUBSET S, NEW x \in S, T \in G, x \notin T
      PROVE  T \cup {x} \in G
  <2>1. IsFiniteSet(T) /\ \A s \in T : f[s] \in Int
    BY FS_Subset
  <2>2. SumFunctionOnSet(f, T \cup {x}) = c + SumFunctionOnSet(f, T)
    BY <1>2, <2>1, SumAdd
  <2>3. PICK n \in Int : n = Cardinality(T) /\ Cardinality(T \cup {x}) = n + 1
    BY <1>2, <2>1, FS_AddElement, FS_CardinalityType
  <2>4. c + c * n = c * (n + 1)
    OBVIOUS
  <2> QED
    BY <1>2, <2>2, <2>3, <2>4
<1>3. S \in G
  <2> HIDE DEF G
  <2> QED BY <1>1, <1>2, BySize
<1> QED
  BY <1>3

\* The sum over two sets without a common element.
LEMMA SumUnion ==
    ASSUME NEW S, NEW R, IsFiniteSet(S), IsFiniteSet(R), S \cap R = {}, NEW f,
           \A s \in S \cup R : f[s] \in Int
    PROVE  SumFunctionOnSet(f, R \cup S) = SumFunctionOnSet(f, R) + SumFunctionOnSet(f, S)
<1> DEFINE G == {T \in SUBSET S :
                   SumFunctionOnSet(f, R \cup T) = SumFunctionOnSet(f, R) + SumFunctionOnSet(f, T)}
<1>0. SumFunctionOnSet(f, R) \in Int
  BY SumInt
<1>1. {} \in G
  <2>1. SumFunctionOnSet(f, {}) = 0 /\ R \cup {} = R
    BY SumEmpty
  <2> QED
    BY <1>0, <2>1
<1>2. ASSUME NEW T \in SUBSET S, NEW x \in S, T \in G, x \notin T
      PROVE  T \cup {x} \in G
  <2>1. IsFiniteSet(T) /\ \A s \in T : f[s] \in Int
    BY FS_Subset
  <2>2. IsFiniteSet(R \cup T) /\ (\A s \in R \cup T : f[s] \in Int) /\ x \notin R \cup T
    BY <1>2, <2>1, FS_Union
  <2>3. /\ SumFunctionOnSet(f, T \cup {x}) = f[x] + SumFunctionOnSet(f, T)
        /\ SumFunctionOnSet(f, T) \in Int
    BY <1>2, <2>1, SumAdd
  <2>4. SumFunctionOnSet(f, (R \cup T) \cup {x}) = f[x] + SumFunctionOnSet(f, R \cup T)
    BY <2>2, SumAdd
  <2>5. (R \cup T) \cup {x} = R \cup (T \cup {x})
    OBVIOUS
  <2>6. SumFunctionOnSet(f, R \cup T) = SumFunctionOnSet(f, R) + SumFunctionOnSet(f, T)
    BY <1>2
  <2>7. SumFunctionOnSet(f, R \cup (T \cup {x})) = f[x] + SumFunctionOnSet(f, R \cup T)
    BY <2>4, <2>5
  <2> QED
    BY <1>0, <2>3, <2>6, <2>7
<1>3. S \in G
  <2> HIDE DEF G
  <2> QED BY <1>1, <1>2, BySize
<1> QED
  BY <1>3

\* A bound on the ratio of every two addends is one on the ratio of the sums.
LEMMA SumRatio ==
    ASSUME NEW S, IsFiniteSet(S), NEW f, NEW g, \A s \in S : f[s] \in Int /\ g[s] \in Int,
           NEW c \in Int, NEW d \in Int, \A s \in S : f[s] * c <= d * g[s]
    PROVE  SumFunctionOnSet(f, S) * c <= d * SumFunctionOnSet(g, S)
<1> DEFINE G == {T \in SUBSET S : SumFunctionOnSet(f, T) * c <= d * SumFunctionOnSet(g, T)}
<1>1. {} \in G
  <2>1. SumFunctionOnSet(f, {}) = 0 /\ SumFunctionOnSet(g, {}) = 0 /\ 0 * c = 0 /\ d * 0 = 0
    BY SumEmpty
  <2> QED
    BY <2>1
<1>2. ASSUME NEW T \in SUBSET S, NEW x \in S, T \in G, x \notin T
      PROVE  T \cup {x} \in G
  <2>1. IsFiniteSet(T) /\ \A s \in T : f[s] \in Int /\ g[s] \in Int
    BY FS_Subset
  <2>2. /\ SumFunctionOnSet(f, T \cup {x}) = f[x] + SumFunctionOnSet(f, T)
        /\ SumFunctionOnSet(f, T) \in Int
    BY <1>2, <2>1, SumAdd
  <2>3. /\ SumFunctionOnSet(g, T \cup {x}) = g[x] + SumFunctionOnSet(g, T)
        /\ SumFunctionOnSet(g, T) \in Int
    BY <1>2, <2>1, SumAdd
  <2>4. ASSUME NEW a \in Int, NEW b \in Int, NEW p \in Int, NEW r \in Int,
               a * c <= d * b, p * c <= d * r
        PROVE  (a + p) * c <= d * (b + r)
    <3>1. (a + p) * c = a * c + p * c /\ d * (b + r) = d * b + d * r
      OBVIOUS
    <3>2. a * c \in Int /\ p * c \in Int /\ d * b \in Int /\ d * r \in Int
      OBVIOUS
    <3> QED
      BY <2>4, <3>1, <3>2
  <2>5. f[x] * c <= d * g[x] /\ SumFunctionOnSet(f, T) * c <= d * SumFunctionOnSet(g, T)
    BY <1>2
  <2> QED
    BY <2>2, <2>3, <2>4, <2>5
<1>3. S \in G
  <2> HIDE DEF G
  <2> QED BY <1>1, <1>2, BySize
<1> QED
  BY <1>3

\* The sum lies between as many times the least and the greatest addend allowed.
LEMMA SumBetween ==
    ASSUME NEW S, IsFiniteSet(S), NEW f, NEW a \in Int, NEW b \in Int,
           \A s \in S : f[s] \in Int /\ a <= f[s] /\ f[s] <= b
    PROVE  /\ SumFunctionOnSet(f, S) \in Int
           /\ a * Cardinality(S) <= SumFunctionOnSet(f, S)
           /\ SumFunctionOnSet(f, S) <= b * Cardinality(S)
<1>1. PICK one : one = [s \in S |-> 1]
  OBVIOUS
<1>2. \A s \in S : one[s] = 1 /\ one[s] \in Int
  BY <1>1
<1>3. SumFunctionOnSet(one, S) = Cardinality(S) /\ Cardinality(S) \in Nat
  <2>1. SumFunctionOnSet(one, S) = 1 * Cardinality(S)
    BY <1>2, SumConstant
  <2> QED
    BY <2>1, FS_CardinalityType
<1>4. SumFunctionOnSet(f, S) \in Int
  BY SumInt
<1>5. PICK c \in Int : c = 1
  OBVIOUS
<1>6. /\ SumFunctionOnSet(f, S) * c <= b * SumFunctionOnSet(one, S)
      /\ SumFunctionOnSet(one, S) * a <= c * SumFunctionOnSet(f, S)
  <2>1. \A s \in S : f[s] * c <= b * one[s] /\ one[s] * a <= c * f[s]
    BY <1>2, <1>5
  <2>2. \A s \in S : f[s] \in Int
    OBVIOUS
  <2>3. SumFunctionOnSet(f, S) * c <= b * SumFunctionOnSet(one, S)
    BY <1>2, <2>1, <2>2, SumRatio
  <2>4. SumFunctionOnSet(one, S) * a <= c * SumFunctionOnSet(f, S)
    BY <1>2, <2>1, <2>2, SumRatio
  <2> QED
    BY <2>3, <2>4
<1>7. Cardinality(S) * a = a * Cardinality(S)
  BY <1>3
<1> QED
  BY <1>3, <1>4, <1>5, <1>6, <1>7

\* How many elements of S are at each i.
PartsOf(S, at, I) == [i \in I |-> Cardinality({s \in S : at[s] = i})]

LEMMA PartsAreInts ==
    ASSUME NEW S, IsFiniteSet(S), NEW at, NEW I
    PROVE  PartsOf(S, at, I) \in [I -> Int]
<1> SUFFICES ASSUME NEW i \in I PROVE Cardinality({s \in S : at[s] = i}) \in Int
  BY DEF PartsOf
<1>1. IsFiniteSet({s \in S : at[s] = i})
  BY FS_Subset
<1> QED
  BY <1>1, FS_CardinalityType

\* One part grows with an element more.
LEMMA PartsGrow ==
    ASSUME NEW S, IsFiniteSet(S), NEW at, NEW I, NEW x, x \notin S, NEW k \in I, k = at[x]
    PROVE  /\ PartsOf(S \cup {x}, at, I)[k] = PartsOf(S, at, I)[k] + 1
           /\ \A i \in I \ {k} : PartsOf(S \cup {x}, at, I)[i] = PartsOf(S, at, I)[i]
<1>1. \A i \in I \ {k} : {s \in S \cup {x} : at[s] = i} = {s \in S : at[s] = i}
  OBVIOUS
<1>2. PICK P : P = {s \in S : at[s] = k}
  OBVIOUS
<1>3. {s \in S \cup {x} : at[s] = k} = P \cup {x} /\ x \notin P
  BY <1>2
<1>4. IsFiniteSet(P)
  BY <1>2, FS_Subset
<1>5. Cardinality(P \cup {x}) = Cardinality(P) + 1
  BY <1>3, <1>4, FS_AddElement
<1> QED
  BY <1>1, <1>2, <1>3, <1>5 DEF PartsOf

\* A set that is dealt out into finitely many parts is as large as they are together.
LEMMA SumOfParts ==
    ASSUME NEW S, IsFiniteSet(S), NEW I, IsFiniteSet(I), NEW at, \A s \in S : at[s] \in I
    PROVE  SumFunctionOnSet(PartsOf(S, at, I), I) = Cardinality(S)
<1> DEFINE G == {T \in SUBSET S : SumFunctionOnSet(PartsOf(T, at, I), I) = Cardinality(T)}
<1>1. {} \in G
  <2>1. \A i \in I : PartsOf({}, at, I)[i] = 0
    <3> SUFFICES ASSUME NEW i \in I PROVE Cardinality({s \in {} : at[s] = i}) = 0
      BY DEF PartsOf
    <3>1. {s \in {} : at[s] = i} = {}
      OBVIOUS
    <3> QED
      BY <3>1, FS_EmptySet
  <2>2. SumFunctionOnSet(PartsOf({}, at, I), I) = 0 * Cardinality(I)
    BY <2>1, SumConstant
  <2>3. 0 * Cardinality(I) = 0 /\ Cardinality({}) = 0
    BY FS_EmptySet, FS_CardinalityType
  <2> QED
    BY <2>2, <2>3
<1>2. ASSUME NEW T \in SUBSET S, NEW x \in S, T \in G, x \notin T
      PROVE  T \cup {x} \in G
  <2>1. IsFiniteSet(T) /\ IsFiniteSet(T \cup {x}) /\ Cardinality(T \cup {x}) = Cardinality(T) + 1
    BY <1>2, FS_Subset, FS_AddElement
  <2>2. PICK f \in [I -> Int], g \in [I -> Int] :
          f = PartsOf(T, at, I) /\ g = PartsOf(T \cup {x}, at, I)
    BY <2>1, PartsAreInts
  <2>3. PICK k \in I : k = at[x]
    OBVIOUS
  <2>4. g[k] = f[k] + 1 /\ \A i \in I \ {k} : g[i] = f[i]
    BY <1>2, <2>1, <2>2, <2>3, PartsGrow
  <2>5. SumFunction(g) = SumFunction(f) + 1
    BY <2>4, SumChange
  <2> QED
    BY <1>2, <2>1, <2>2, <2>5 DEF SumFunction
<1>3. S \in G
  <2> HIDE DEF G
  <2> QED BY <1>1, <1>2, BySize
<1> QED
  BY <1>3

\* The sum over each group of the elements of S, grouped by at.
GroupsOf(f, S, at, I) == [i \in I |-> SumFunctionOnSet(f, {s \in S : at[s] = i})]

LEMMA GroupsAreInts ==
    ASSUME NEW S, IsFiniteSet(S), NEW f, \A s \in S : f[s] \in Int, NEW at, NEW I
    PROVE  GroupsOf(f, S, at, I) \in [I -> Int]
<1> SUFFICES ASSUME NEW i \in I PROVE SumFunctionOnSet(f, {s \in S : at[s] = i}) \in Int
  BY DEF GroupsOf
<1>1. IsFiniteSet({s \in S : at[s] = i})
  BY FS_Subset
<1> QED
  BY <1>1, SumInt

\* One group grows with an element more.
LEMMA GroupsGrow ==
    ASSUME NEW S, IsFiniteSet(S), NEW f, \A s \in S : f[s] \in Int, NEW at, NEW I,
           NEW x, x \notin S, f[x] \in Int, NEW k \in I, k = at[x]
    PROVE  /\ GroupsOf(f, S \cup {x}, at, I)[k] = GroupsOf(f, S, at, I)[k] + f[x]
           /\ \A i \in I \ {k} : GroupsOf(f, S \cup {x}, at, I)[i] = GroupsOf(f, S, at, I)[i]
<1>1. \A i \in I \ {k} : {s \in S \cup {x} : at[s] = i} = {s \in S : at[s] = i}
  OBVIOUS
<1>2. PICK P : P = {s \in S : at[s] = k}
  OBVIOUS
<1>3. {s \in S \cup {x} : at[s] = k} = P \cup {x} /\ x \notin P
  BY <1>2
<1>4. IsFiniteSet(P) /\ \A s \in P : f[s] \in Int
  BY <1>2, FS_Subset
<1>5. SumFunctionOnSet(f, P \cup {x}) = f[x] + SumFunctionOnSet(f, P)
      /\ SumFunctionOnSet(f, P) \in Int
  BY <1>3, <1>4, SumAdd
<1>6. SumFunctionOnSet(f, P \cup {x}) = SumFunctionOnSet(f, P) + f[x]
  BY <1>5
<1> QED
  BY <1>1, <1>2, <1>3, <1>6 DEF GroupsOf

\* The sum over a set that is dealt out into groups is the sum of theirs.
LEMMA SumOfGroups ==
    ASSUME NEW S, IsFiniteSet(S), NEW I, IsFiniteSet(I), NEW at, \A s \in S : at[s] \in I,
           NEW f, \A s \in S : f[s] \in Int
    PROVE  SumFunctionOnSet(GroupsOf(f, S, at, I), I) = SumFunctionOnSet(f, S)
<1> DEFINE G == {T \in SUBSET S :
                   SumFunctionOnSet(GroupsOf(f, T, at, I), I) = SumFunctionOnSet(f, T)}
<1>1. {} \in G
  <2>1. \A i \in I : GroupsOf(f, {}, at, I)[i] = 0
    <3> SUFFICES ASSUME NEW i \in I PROVE SumFunctionOnSet(f, {s \in {} : at[s] = i}) = 0
      BY DEF GroupsOf
    <3>1. {s \in {} : at[s] = i} = {}
      OBVIOUS
    <3> QED
      BY <3>1, SumEmpty
  <2>2. SumFunctionOnSet(GroupsOf(f, {}, at, I), I) = 0 * Cardinality(I)
    BY <2>1, SumConstant
  <2>3. 0 * Cardinality(I) = 0 /\ SumFunctionOnSet(f, {}) = 0
    BY SumEmpty, FS_CardinalityType
  <2> QED
    BY <2>2, <2>3
<1>2. ASSUME NEW T \in SUBSET S, NEW x \in S, T \in G, x \notin T
      PROVE  T \cup {x} \in G
  <2>1. IsFiniteSet(T) /\ IsFiniteSet(T \cup {x})
    BY <1>2, FS_Subset, FS_AddElement
  <2>2. PICK g \in [I -> Int], h \in [I -> Int] :
          g = GroupsOf(f, T, at, I) /\ h = GroupsOf(f, T \cup {x}, at, I)
    BY <2>1, GroupsAreInts
  <2>3. PICK k \in I : k = at[x]
    OBVIOUS
  <2>4. PICK d \in Int : d = f[x]
    OBVIOUS
  <2>5. h[k] = g[k] + d /\ \A i \in I \ {k} : h[i] = g[i]
    BY <1>2, <2>1, <2>2, <2>3, <2>4, GroupsGrow
  <2>6. SumFunction(h) = SumFunction(g) + d
    BY <2>5, SumChange
  <2>7. SumFunctionOnSet(f, T \cup {x}) = d + SumFunctionOnSet(f, T)
        /\ SumFunctionOnSet(f, T) \in Int
    BY <1>2, <2>1, <2>4, SumAdd
  <2>8. SumFunctionOnSet(h, I) = SumFunctionOnSet(g, I) + d
    BY <2>2, <2>6 DEF SumFunction
  <2> QED
    BY <1>2, <2>2, <2>7, <2>8
<1>3. S \in G
  <2> HIDE DEF G
  <2> QED BY <1>1, <1>2, BySize
<1> QED
  BY <1>3

\* A sum of multiples and others is the multiple of the sum and the sum of the others.
LEMMA SumLinear ==
    ASSUME NEW S, IsFiniteSet(S), NEW f, NEW g, NEW k, NEW a \in Int,
           \A s \in S : g[s] \in Int /\ k[s] \in Int /\ f[s] = a * g[s] + k[s]
    PROVE  /\ SumFunctionOnSet(f, S) = a * SumFunctionOnSet(g, S) + SumFunctionOnSet(k, S)
           /\ SumFunctionOnSet(g, S) \in Int /\ SumFunctionOnSet(k, S) \in Int
           /\ SumFunctionOnSet(f, S) \in Int
<1> DEFINE G == {T \in SUBSET S :
              SumFunctionOnSet(f, T) = a * SumFunctionOnSet(g, T) + SumFunctionOnSet(k, T)}
<1>1. {} \in G
  <2>1. /\ SumFunctionOnSet(f, {}) = 0 /\ SumFunctionOnSet(g, {}) = 0
        /\ SumFunctionOnSet(k, {}) = 0 /\ a * 0 + 0 = 0
    BY SumEmpty
  <2> QED
    BY <2>1
<1>2. ASSUME NEW T \in SUBSET S, NEW x \in S, T \in G, x \notin T
      PROVE  T \cup {x} \in G
  <2>1. IsFiniteSet(T) /\ (\A s \in T : f[s] \in Int /\ g[s] \in Int /\ k[s] \in Int)
        /\ f[x] \in Int /\ g[x] \in Int /\ k[x] \in Int
    BY FS_Subset
  <2>2. SumFunctionOnSet(f, T \cup {x}) = f[x] + SumFunctionOnSet(f, T)
    BY <1>2, <2>1, SumAdd
  <2>3. /\ SumFunctionOnSet(g, T \cup {x}) = g[x] + SumFunctionOnSet(g, T)
        /\ SumFunctionOnSet(g, T) \in Int
    BY <1>2, <2>1, SumAdd
  <2>4. /\ SumFunctionOnSet(k, T \cup {x}) = k[x] + SumFunctionOnSet(k, T)
        /\ SumFunctionOnSet(k, T) \in Int
    BY <1>2, <2>1, SumAdd
  <2>5. ASSUME NEW b \in Int, NEW c \in Int, NEW d \in Int, NEW e \in Int
        PROVE  (a * b + c) + (a * d + e) = a * (b + d) + (c + e)
    OBVIOUS
  <2>6. f[x] = a * g[x] + k[x]
        /\ SumFunctionOnSet(f, T) = a * SumFunctionOnSet(g, T) + SumFunctionOnSet(k, T)
    BY <1>2
  <2> QED
    BY <2>1, <2>2, <2>3, <2>4, <2>5, <2>6
<1>3. S \in G
  <2> HIDE DEF G
  <2> QED BY <1>1, <1>2, BySize
<1>4. /\ SumFunctionOnSet(g, S) \in Int /\ SumFunctionOnSet(k, S) \in Int
      /\ SumFunctionOnSet(f, S) \in Int
  BY SumInt
<1> QED
  BY <1>3, <1>4

\* A sum that is nothing outside a part is the sum over the part.
LEMMA SumOfPart ==
    ASSUME NEW S, IsFiniteSet(S), NEW R, R \subseteq S, NEW f,
           \A s \in R : f[s] \in Int, \A s \in S \ R : f[s] = 0
    PROVE  SumFunctionOnSet(f, S) = SumFunctionOnSet(f, R)
<1>1. IsFiniteSet(R) /\ IsFiniteSet(S \ R) /\ R \cap (S \ R) = {} /\ R \cup (S \ R) = S
  BY FS_Subset
<1>2. SumFunctionOnSet(f, S \ R) = 0 * Cardinality(S \ R)
  BY <1>1, SumConstant
<1>3. 0 * Cardinality(S \ R) = 0
  BY <1>1, FS_CardinalityType
<1>4. \A s \in R \cup (S \ R) : f[s] \in Int
  OBVIOUS
<1>5. SumFunctionOnSet(f, R \cup (S \ R)) = SumFunctionOnSet(f, R) + SumFunctionOnSet(f, S \ R)
  BY <1>1, <1>4, SumUnion
<1>6. SumFunctionOnSet(f, R) \in Int
  BY <1>1, SumInt
<1>7. SumFunctionOnSet(f, S \ R) = 0
  BY <1>2, <1>3
<1>8. SumFunctionOnSet(f, S) = SumFunctionOnSet(f, R) + SumFunctionOnSet(f, S \ R)
  BY <1>1, <1>5, Zenon
<1> QED
  BY <1>6, <1>7, <1>8

\* As many ones as a set has elements in a part of it.
LEMMA SumOfOnes ==
    ASSUME NEW S, IsFiniteSet(S), NEW R, NEW f,
           \A s \in S : f[s] = IF s \in R THEN 1 ELSE 0
    PROVE  SumFunctionOnSet(f, S) = Cardinality(S \cap R)
<1>1. SumFunctionOnSet(f, S) = SumFunctionOnSet(f, S \cap R)
  BY SumOfPart
<1>2. IsFiniteSet(S \cap R)
  BY FS_Subset
<1>3. SumFunctionOnSet(f, S \cap R) = 1 * Cardinality(S \cap R)
  BY <1>2, SumConstant
<1> QED
  BY <1>1, <1>2, <1>3, FS_CardinalityType

\* A sum is no more than one of greater addends.
LEMMA SumOrder ==
    ASSUME NEW S, IsFiniteSet(S), NEW f, NEW g,
           \A s \in S : f[s] \in Int /\ g[s] \in Int /\ f[s] <= g[s]
    PROVE  SumFunctionOnSet(f, S) <= SumFunctionOnSet(g, S)
<1>1. PICK c \in Int, d \in Int : c = 1 /\ d = 1
  OBVIOUS
<1>2. \A s \in S : f[s] * c <= d * g[s]
  BY <1>1
<1>3. SumFunctionOnSet(f, S) * c <= d * SumFunctionOnSet(g, S)
  BY <1>2, SumRatio
<1>4. SumFunctionOnSet(f, S) \in Int /\ SumFunctionOnSet(g, S) \in Int
  BY SumInt
<1> QED
  BY <1>1, <1>3, <1>4

\* A multiple of a sum.
LEMMA SumMultiple ==
    ASSUME NEW S, IsFiniteSet(S), NEW f, NEW g, NEW a \in Int,
           \A s \in S : g[s] \in Int /\ f[s] = a * g[s]
    PROVE  /\ SumFunctionOnSet(f, S) = a * SumFunctionOnSet(g, S)
           /\ SumFunctionOnSet(f, S) \in Int
<1>1. PICK k : k = [s \in S |-> 0]
  OBVIOUS
<1>2. \A s \in S : g[s] \in Int /\ k[s] = 0 /\ k[s] \in Int /\ f[s] = a * g[s] + k[s]
  BY <1>1
<1>3. SumFunctionOnSet(k, S) = 0 * Cardinality(S)
  BY <1>2, SumConstant
<1>4. SumFunctionOnSet(f, S) = a * SumFunctionOnSet(g, S) + SumFunctionOnSet(k, S)
      /\ SumFunctionOnSet(f, S) \in Int /\ SumFunctionOnSet(g, S) \in Int
  BY <1>2, SumLinear
<1> QED
  BY <1>3, <1>4, FS_CardinalityType

\* The difference of two sums.
LEMMA SumMinus ==
    ASSUME NEW S, IsFiniteSet(S), NEW f, NEW g, NEW k,
           \A s \in S : g[s] \in Int /\ k[s] \in Int /\ f[s] = g[s] - k[s]
    PROVE  /\ SumFunctionOnSet(f, S) = SumFunctionOnSet(g, S) - SumFunctionOnSet(k, S)
           /\ SumFunctionOnSet(f, S) \in Int
<1>1. PICK a \in Int : a = -1
  OBVIOUS
<1>2. \A s \in S : g[s] \in Int /\ k[s] \in Int /\ f[s] = a * k[s] + g[s]
  BY <1>1
<1>3. /\ SumFunctionOnSet(f, S) = a * SumFunctionOnSet(k, S) + SumFunctionOnSet(g, S)
      /\ SumFunctionOnSet(f, S) \in Int
      /\ SumFunctionOnSet(k, S) \in Int /\ SumFunctionOnSet(g, S) \in Int
  BY <1>2, SumLinear
<1> QED
  BY <1>1, <1>3

\* A sum whose addends are no further from nothing than multiples of another's.
LEMMA SumWithin ==
    ASSUME NEW S, IsFiniteSet(S), NEW f, NEW g, NEW a \in Int,
           \A s \in S : f[s] \in Int /\ g[s] \in Int /\ f[s] <= a * g[s] /\ -(a * g[s]) <= f[s]
    PROVE  /\ SumFunctionOnSet(f, S) <= a * SumFunctionOnSet(g, S)
           /\ -(a * SumFunctionOnSet(g, S)) <= SumFunctionOnSet(f, S)
<1>1. PICK b \in Int : b = -a
  OBVIOUS
<1>2. PICK h, k : h = [s \in S |-> a * g[s]] /\ k = [s \in S |-> b * g[s]]
  OBVIOUS
<1>3. \A s \in S : /\ f[s] \in Int /\ g[s] \in Int
                   /\ h[s] = a * g[s] /\ h[s] \in Int /\ k[s] = b * g[s] /\ k[s] \in Int
  BY <1>2
<1>4. \A s \in S : k[s] <= f[s] /\ f[s] <= h[s]
  <2> SUFFICES ASSUME NEW s \in S PROVE k[s] <= f[s] /\ f[s] <= h[s]
    OBVIOUS
  <2>1. PICK y \in Int : y = g[s]
    BY <1>3
  <2>2. b * y = -(a * y)
    BY <1>1
  <2> QED BY <1>3, <2>1, <2>2
<1>5. SumFunctionOnSet(f, S) <= SumFunctionOnSet(h, S)
  BY <1>3, <1>4, SumOrder
<1>6. SumFunctionOnSet(k, S) <= SumFunctionOnSet(f, S)
  BY <1>3, <1>4, SumOrder
<1>7. SumFunctionOnSet(h, S) = a * SumFunctionOnSet(g, S)
  BY <1>3, SumMultiple
<1>8. SumFunctionOnSet(k, S) = b * SumFunctionOnSet(g, S)
  BY <1>3, SumMultiple
<1>9. PICK y \in Int : y = SumFunctionOnSet(g, S)
  BY <1>3, SumInt
<1>10. b * y = -(a * y)
  BY <1>1
<1> QED
  BY <1>5, <1>6, <1>7, <1>8, <1>9, <1>10
=============================================================================
