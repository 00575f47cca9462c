----------------------------- MODULE Rubric_proofs -----------------------------
(***************************************************************************)
(* What the scoring rule gives for any rubric: weights, floors, dimensions *)
(* and criteria.  The sums of the rule are folds of the community modules; *)
(* what they come to is shown here first, by taking a smallest set for     *)
(* which it would not hold.                                                *)
(***************************************************************************)
EXTENDS RubricInputs, FiniteSetTheorems, WellFoundedInduction, TLAPS

-------------------------------------------------------------------------------
(* Smallest sets *)

LEMMA LeastNatural ==
  ASSUME NEW S \in SUBSET Nat, S # {}
  PROVE  \E m \in S : \A k \in S : m <= k
<1> DEFINE R == {ss \in Nat \X Nat : ss[1] < ss[2]}
<1>1. IsWellFoundedOn(R, Nat)
  BY NatLessThanWellFounded DEF OpToRel
<1> HIDE DEF R
<1>2. PICK m \in S : \A k \in S : ~ (<<k, m>> \in R)
  BY <1>1, WFMin
<1>3. \A k \in S : ~ (k < m)
  BY <1>2 DEF R
<1> QED
  BY <1>3

Some(s) == CHOOSE x \in s : TRUE
Rest(s) == s \ {Some(s)}

LEMMA RestSmaller ==
  ASSUME NEW s, IsFiniteSet(s), s # {}
  PROVE  /\ Some(s) \in s /\ Rest(s) \subseteq s /\ Some(s) \notin Rest(s)
         /\ IsFiniteSet(Rest(s)) /\ Cardinality(s) \in Nat /\ Cardinality(Rest(s)) \in Nat
         /\ Cardinality(Rest(s)) < Cardinality(s)
<1>1. Some(s) \in s
  BY DEF Some
<1>2. IsFiniteSet(Rest(s)) /\ Cardinality(Rest(s)) = Cardinality(s) - 1
  BY <1>1, FS_RemoveElement DEF Rest
<1>3. Cardinality(s) \in Nat /\ Cardinality(Rest(s)) \in Nat
  BY <1>2, FS_CardinalityType
<1> QED
  BY <1>1, <1>2, <1>3 DEF Rest

\* What holds of a set when it holds of all smaller ones holds of every finite
\* set: of sets that are not in Good there would be a smallest.
LEMMA SetInductionBySize ==
  ASSUME NEW S, IsFiniteSet(S), NEW Good,
         \A s \in SUBSET S :
           (\A t \in SUBSET S : Cardinality(t) < Cardinality(s) => t \in Good) => s \in Good
  PROVE  S \in Good
<1> DEFINE Sizes == {Cardinality(s) : s \in (SUBSET S) \ Good}
<1> SUFFICES ASSUME S \notin Good
             PROVE  FALSE
  OBVIOUS
<1>1. \A s \in SUBSET S : IsFiniteSet(s) /\ Cardinality(s) \in Nat
  BY FS_Subset, FS_CardinalityType
<1>2. Sizes \in SUBSET Nat /\ Sizes # {}
  BY <1>1
<1>3. PICK n \in Sizes : \A k \in Sizes : n <= k
  BY <1>2, LeastNatural
<1>4. PICK s \in (SUBSET S) \ Good : Cardinality(s) = n
  BY <1>3
<1>5. ASSUME NEW t \in SUBSET S, Cardinality(t) < Cardinality(s), t \notin Good
      PROVE  FALSE
  <2>1. n <= Cardinality(t)
    BY <1>3, <1>5
  <2> QED
    BY <1>1, <1>4, <1>5, <2>1
<1> QED
  BY <1>4, <1>5

LEMMA SetInduction ==
  ASSUME NEW S, IsFiniteSet(S), NEW Good, {} \in Good,
         \A s \in SUBSET S : IsFiniteSet(s) /\ s # {} /\ Rest(s) \in Good => s \in Good
  PROVE  S \in Good
<1>1. ASSUME NEW s \in SUBSET S,
             \A t \in SUBSET S : Cardinality(t) < Cardinality(s) => t \in Good
      PROVE  s \in Good
  <2>1. IsFiniteSet(s)
    BY FS_Subset
  <2>2. CASE s # {}
    <3>1. Rest(s) \in SUBSET S /\ Cardinality(Rest(s)) < Cardinality(s)
      BY <2>1, <2>2, RestSmaller
    <3> QED
      BY <1>1, <2>1, <2>2, <3>1
  <2> QED
    BY <2>2
<1> QED
  BY <1>1, SetInductionBySize

-------------------------------------------------------------------------------
(* Sums *)

Step(f, g, s) == IF s = {} THEN 0 ELSE f[Some(s)] + g[Rest(s)]

\* g is the sum of f over the sets of Sets, each from the set without one element.
IsSum(f, g, Sets) == g = [s \in Sets |-> Step(f, g, s)]
SumFun(f, S) == CHOOSE g : IsSum(f, g, SUBSET S)

LEMMA SumIsSumFun ==
  ASSUME NEW f, NEW S
  PROVE  SumFunctionOnSet(f, S) = SumFun(f, S)[S]
BY Zenon DEF SumFunctionOnSet, FoldFunctionOnSet, MapThenFoldSet, SumFun, IsSum, Step, Some, Rest

UpToSize(S, n) == {s \in SUBSET S : Cardinality(s) <= n}

LEMMA LayerExists ==
  ASSUME NEW S, IsFiniteSet(S), NEW f, NEW n \in Nat
  PROVE  \E g : IsSum(f, g, UpToSize(S, n))
<1> DEFINE Bad == {m \in Nat : ~ \E g : IsSum(f, g, UpToSize(S, m))}
<1> SUFFICES ASSUME Bad # {}
             PROVE  FALSE
  OBVIOUS
<1>0. \A s \in SUBSET S : IsFiniteSet(s) /\ Cardinality(s) \in Nat
  BY FS_Subset, FS_CardinalityType
<1>1. PICK m \in Bad : \A k \in Bad : m <= k
  BY LeastNatural
<1>2. m \in Nat /\ ~ \E g : IsSum(f, g, UpToSize(S, m))
  OBVIOUS
<1>3. CASE m = 0
  <2> DEFINE g == [s \in UpToSize(S, 0) |-> 0]
  <2>1. \A s \in UpToSize(S, 0) : s = {}
    <3> SUFFICES ASSUME NEW s \in UpToSize(S, 0), s # {}
                 PROVE  FALSE
      OBVIOUS
    <3>1. Cardinality(s) <= 0 /\ s \in SUBSET S
      BY DEF UpToSize
    <3> QED
      BY <1>0, <3>1, RestSmaller
  <2>2. \A s \in UpToSize(S, 0) : g[s] = Step(f, g, s)
    BY <2>1 DEF Step
  <2>3. IsSum(f, g, UpToSize(S, 0))
    BY <2>2 DEF IsSum
  <2> QED
    BY <1>2, <1>3, <2>3
<1>4. CASE m # 0
  <2>1. m - 1 \in Nat /\ m - 1 \notin Bad
    BY <1>1, <1>2, <1>4
  <2>2. PICK g : IsSum(f, g, UpToSize(S, m - 1))
    BY <2>1
  <2> DEFINE h == [s \in UpToSize(S, m) |-> Step(f, g, s)]
  <2>3. \A s \in UpToSize(S, m - 1) : s \in UpToSize(S, m) /\ h[s] = g[s]
    <3>1. UpToSize(S, m - 1) \subseteq UpToSize(S, m)
      BY <1>0, <1>2 DEF UpToSize
    <3>2. \A s \in UpToSize(S, m - 1) : g[s] = Step(f, g, s)
      BY <2>2 DEF IsSum
    <3> QED
      BY <3>1, <3>2
  <2>4. \A s \in UpToSize(S, m) : s # {} => Rest(s) \in UpToSize(S, m - 1)
    <3> SUFFICES ASSUME NEW s \in UpToSize(S, m), s # {}
                 PROVE  Rest(s) \in UpToSize(S, m - 1)
      OBVIOUS
    <3>1. s \in SUBSET S /\ Cardinality(s) <= m
      BY DEF UpToSize
    <3>2. /\ Rest(s) \subseteq s /\ Cardinality(s) \in Nat /\ Cardinality(Rest(s)) \in Nat
          /\ Cardinality(Rest(s)) < Cardinality(s)
      BY <1>0, <3>1, RestSmaller
    <3> QED
      BY <1>2, <3>1, <3>2 DEF UpToSize
  <2>5. \A s \in UpToSize(S, m) : h[s] = Step(f, h, s)
    BY <2>3, <2>4 DEF Step
  <2>6. IsSum(f, h, UpToSize(S, m))
    BY <2>5 DEF IsSum
  <2> QED
    BY <1>2, <2>6
<1> QED
  BY <1>3, <1>4

LEMMA SumFunIs ==
  ASSUME NEW S, IsFiniteSet(S), NEW f
  PROVE  IsSum(f, SumFun(f, S), SUBSET S)
<1>1. Cardinality(S) \in Nat
  BY FS_CardinalityType
<1>2. UpToSize(S, Cardinality(S)) = SUBSET S
  BY FS_Subset DEF UpToSize
<1>3. \E g : IsSum(f, g, UpToSize(S, Cardinality(S)))
  BY <1>1, LayerExists
<1>4. \E g : IsSum(f, g, SUBSET S)
  BY <1>2, <1>3
<1> QED
  BY <1>4 DEF SumFun

LEMMA SumFunRestricts ==
  ASSUME NEW S, IsFiniteSet(S), NEW f, NEW T \in SUBSET S
  PROVE  SumFun(f, S)[T] = SumFun(f, T)[T]
<1> DEFINE g == SumFun(f, S)
           h == SumFun(f, T)
           Good == {s \in SUBSET T : g[s] = h[s]}
<1>1. IsFiniteSet(T)
  BY FS_Subset
<1>2. IsSum(f, g, SUBSET S) /\ IsSum(f, h, SUBSET T)
  BY <1>1, SumFunIs
<1> HIDE DEF g, h
<1>3. \A s \in SUBSET T : g[s] = Step(f, g, s) /\ h[s] = Step(f, h, s)
  BY <1>2 DEF IsSum
<1>4. {} \in Good
  BY <1>3 DEF Step
<1>5. ASSUME NEW s \in SUBSET T, s # {}, Rest(s) \in Good
      PROVE  s \in Good
  BY <1>3, <1>5 DEF Step
<1> HIDE DEF Good
<1>6. T \in Good
  BY <1>1, <1>4, <1>5, SetInduction
<1> QED
  BY <1>6 DEF Good, g, h

LEMMA SumOfEmpty ==
  ASSUME NEW f
  PROVE  SumFunctionOnSet(f, {}) = 0
<1>1. IsSum(f, SumFun(f, {}), SUBSET {})
  BY FS_EmptySet, SumFunIs
<1>2. SumFun(f, {})[{}] = 0
  BY <1>1 DEF IsSum, Step
<1> QED
  BY <1>2, SumIsSumFun

LEMMA SumOfRest ==
  ASSUME NEW S, IsFiniteSet(S), S # {}, NEW f
  PROVE  SumFunctionOnSet(f, S) = f[Some(S)] + SumFunctionOnSet(f, Rest(S))
<1>1. SumFun(f, S)[S] = f[Some(S)] + SumFun(f, S)[Rest(S)]
  <2> DEFINE g == SumFun(f, S)
  <2>1. IsSum(f, g, SUBSET S)
    BY SumFunIs
  <2> HIDE DEF g
  <2>2. g[S] = Step(f, g, S)
    BY <2>1 DEF IsSum
  <2> QED
    BY <2>2 DEF Step, g
<1>2. SumFun(f, S)[Rest(S)] = SumFun(f, Rest(S))[Rest(S)]
  BY SumFunRestricts DEF Rest
<1> QED
  BY <1>1, <1>2, SumIsSumFun

LEMMA SumOfNats ==
  ASSUME NEW S, IsFiniteSet(S), NEW f, \A k \in S : f[k] \in Nat
  PROVE  SumFunctionOnSet(f, S) \in Nat
<1> DEFINE Claim(s) == SumFunctionOnSet(f, s) \in Nat
           Good == {s \in SUBSET S : Claim(s)}
<1>1. {} \in Good
  BY SumOfEmpty
<1>2. ASSUME NEW s \in SUBSET S, IsFiniteSet(s), s # {}, Rest(s) \in Good
      PROVE  s \in Good
  <2> DEFINE c == Some(s)
             r == Rest(s)
  <2>1. /\ c \in S /\ r \subseteq S /\ IsFiniteSet(r) /\ Claim(r)
        /\ SumFunctionOnSet(f, s) = f[c] + SumFunctionOnSet(f, r)
    BY <1>2, SumOfRest, RestSmaller
  <2> HIDE DEF c, r
  <2> QED
    BY <2>1
<1> HIDE DEF Good
<1>3. S \in Good
  BY <1>1, <1>2, SetInduction
<1> QED
  BY <1>3 DEF Good

LEMMA SumOfPositives ==
  ASSUME NEW S, IsFiniteSet(S), S # {}, NEW f, \A k \in S : f[k] \in Nat \ {0}
  PROVE  SumFunctionOnSet(f, S) \in Nat \ {0}
<1>1. SumFunctionOnSet(f, S) = f[Some(S)] + SumFunctionOnSet(f, Rest(S))
  BY SumOfRest
<1>2. Some(S) \in S /\ Rest(S) \subseteq S /\ IsFiniteSet(Rest(S))
  BY RestSmaller
<1>3. SumFunctionOnSet(f, Rest(S)) \in Nat
  BY <1>2, SumOfNats
<1>4. f[Some(S)] \in Nat \ {0}
  BY <1>2
<1> QED
  BY <1>1, <1>3, <1>4

LEMMA SumsAgree ==
  ASSUME NEW S, IsFiniteSet(S), NEW f, NEW g, \A k \in S : f[k] = g[k]
  PROVE  SumFunctionOnSet(f, S) = SumFunctionOnSet(g, S)
<1> DEFINE Claim(s) == SumFunctionOnSet(f, s) = SumFunctionOnSet(g, s)
           Good == {s \in SUBSET S : Claim(s)}
<1>1. {} \in Good
  BY SumOfEmpty
<1>2. ASSUME NEW s \in SUBSET S, IsFiniteSet(s), s # {}, Rest(s) \in Good
      PROVE  s \in Good
  <2> DEFINE c == Some(s)
             r == Rest(s)
  <2>1. /\ c \in S /\ r \subseteq S /\ IsFiniteSet(r) /\ Claim(r)
        /\ SumFunctionOnSet(f, s) = f[c] + SumFunctionOnSet(f, r)
        /\ SumFunctionOnSet(g, s) = g[c] + SumFunctionOnSet(g, r)
    BY <1>2, SumOfRest, RestSmaller
  <2> HIDE DEF c, r
  <2> QED
    BY <2>1
<1> HIDE DEF Good
<1>3. S \in Good
  BY <1>1, <1>2, SetInduction
<1> QED
  BY <1>3 DEF Good

LEMMA SumsGrow ==
  ASSUME NEW S, IsFiniteSet(S), NEW f, NEW g,
         \A k \in S : f[k] \in Nat /\ g[k] \in Nat /\ f[k] <= g[k]
  PROVE  SumFunctionOnSet(f, S) <= SumFunctionOnSet(g, S)
<1> DEFINE Claim(s) == SumFunctionOnSet(f, s) <= SumFunctionOnSet(g, s)
           Good == {s \in SUBSET S : Claim(s)}
<1>1. {} \in Good
  BY SumOfEmpty
<1>2. ASSUME NEW s \in SUBSET S, IsFiniteSet(s), s # {}, Rest(s) \in Good
      PROVE  s \in Good
  <2> DEFINE c == Some(s)
             r == Rest(s)
  <2>1. /\ c \in S /\ r \subseteq S /\ IsFiniteSet(r) /\ Claim(r)
        /\ SumFunctionOnSet(f, s) = f[c] + SumFunctionOnSet(f, r)
        /\ SumFunctionOnSet(g, s) = g[c] + SumFunctionOnSet(g, r)
    BY <1>2, SumOfRest, RestSmaller
  <2> HIDE DEF c, r
  <2>2. SumFunctionOnSet(f, r) \in Nat /\ SumFunctionOnSet(g, r) \in Nat
    BY <2>1, SumOfNats
  <2>3. f[c] \in Nat /\ g[c] \in Nat /\ f[c] <= g[c]
    BY <2>1
  <2> QED
    BY <2>1, <2>2, <2>3
<1> HIDE DEF Good
<1>3. S \in Good
  BY <1>1, <1>2, SetInduction
<1> QED
  BY <1>3 DEF Good

\* Sums are linear.
LEMMA SumsCombine ==
  ASSUME NEW S, IsFiniteSet(S), NEW f, NEW g, NEW h, NEW a \in Nat,
         \A k \in S : f[k] \in Nat /\ g[k] \in Nat /\ h[k] = f[k] + a * g[k]
  PROVE  SumFunctionOnSet(h, S) = SumFunctionOnSet(f, S) + a * SumFunctionOnSet(g, S)
<1> DEFINE Claim(s) == SumFunctionOnSet(h, s) = SumFunctionOnSet(f, s) + a * SumFunctionOnSet(g, s)
           Good == {s \in SUBSET S : Claim(s)}
<1>1. {} \in Good
  <2>1. /\ SumFunctionOnSet(f, {}) = 0 /\ SumFunctionOnSet(g, {}) = 0
        /\ SumFunctionOnSet(h, {}) = 0
    BY SumOfEmpty
  <2> QED
    BY <2>1
<1>2. ASSUME NEW s \in SUBSET S, IsFiniteSet(s), s # {}, Rest(s) \in Good
      PROVE  s \in Good
  <2> DEFINE c == Some(s)
             r == Rest(s)
  <2>1. /\ c \in S /\ r \subseteq S /\ IsFiniteSet(r) /\ Claim(r)
        /\ SumFunctionOnSet(f, s) = f[c] + SumFunctionOnSet(f, r)
        /\ SumFunctionOnSet(g, s) = g[c] + SumFunctionOnSet(g, r)
        /\ SumFunctionOnSet(h, s) = h[c] + SumFunctionOnSet(h, r)
    BY <1>2, SumOfRest, RestSmaller
  <2> HIDE DEF c, r
  <2>2. SumFunctionOnSet(f, r) \in Nat /\ SumFunctionOnSet(g, r) \in Nat
    BY <2>1, SumOfNats
  <2>3. f[c] \in Nat /\ g[c] \in Nat /\ h[c] = f[c] + a * g[c]
    BY <2>1
  <2>4. \A i, j \in Nat : a * (i + j) = a * i + a * j
    OBVIOUS
  <2>5. Claim(s)
    BY <2>1, <2>2, <2>3, <2>4
  <2> QED
    BY <2>5
<1> HIDE DEF Good
<1>3. S \in Good
  BY <1>1, <1>2, SetInduction
<1> QED
  BY <1>3 DEF Good

LEMMA SumOfOnes ==
  ASSUME NEW S, IsFiniteSet(S), NEW f, \A k \in S : f[k] = 1
  PROVE  SumFunctionOnSet(f, S) = Cardinality(S)
<1> DEFINE Claim(s) == SumFunctionOnSet(f, s) = Cardinality(s)
           Good == {s \in SUBSET S : Claim(s)}
<1>1. {} \in Good
  BY SumOfEmpty, FS_EmptySet
<1>2. ASSUME NEW s \in SUBSET S, IsFiniteSet(s), s # {}, Rest(s) \in Good
      PROVE  s \in Good
  <2> DEFINE c == Some(s)
             r == Rest(s)
  <2>1. /\ c \in S /\ r \subseteq S /\ IsFiniteSet(r) /\ Claim(r)
        /\ SumFunctionOnSet(f, s) = f[c] + SumFunctionOnSet(f, r)
    BY <1>2, SumOfRest, RestSmaller
  <2> HIDE DEF c, r
  <2>2. Cardinality(r) = Cardinality(s) - 1 /\ Cardinality(s) \in Nat
    BY <1>2, RestSmaller, FS_RemoveElement DEF Rest, r
  <2> QED
    BY <2>1, <2>2
<1> HIDE DEF Good
<1>3. S \in Good
  BY <1>1, <1>2, SetInduction
<1> QED
  BY <1>3 DEF Good

\* Any element may be taken out first.
LEMMA SumWithout ==
  ASSUME NEW S, IsFiniteSet(S), NEW f, \A k \in S : f[k] \in Nat, NEW c \in S
  PROVE  SumFunctionOnSet(f, S) = f[c] + SumFunctionOnSet(f, S \ {c})
<1> DEFINE Claim(s) == \A a \in s : SumFunctionOnSet(f, s) = f[a] + SumFunctionOnSet(f, s \ {a})
           Good == {s \in SUBSET S : Claim(s)}
<1>1. ASSUME NEW s \in SUBSET S,
             \A t \in SUBSET S : Cardinality(t) < Cardinality(s) => t \in Good
      PROVE  s \in Good
  <2> SUFFICES ASSUME NEW a \in s
               PROVE  SumFunctionOnSet(f, s) = f[a] + SumFunctionOnSet(f, s \ {a})
    OBVIOUS
  <2> DEFINE b == Some(s)
  <2>1. IsFiniteSet(s) /\ Cardinality(s) \in Nat
    BY FS_Subset, FS_CardinalityType
  <2>2. SumFunctionOnSet(f, s) = f[b] + SumFunctionOnSet(f, s \ {b}) /\ b \in s
    BY <2>1, SumOfRest, RestSmaller DEF Rest
  <2> HIDE DEF b
  <2>3. CASE a = b
    BY <2>2, <2>3
  <2>4. CASE a # b
    <3>1. /\ Cardinality(s \ {a}) = Cardinality(s) - 1
          /\ Cardinality(s \ {b}) = Cardinality(s) - 1
      BY <2>1, <2>2, FS_RemoveElement
    <3>2. Claim(s \ {a}) /\ Claim(s \ {b})
      BY <1>1, <2>1, <3>1
    <3> DEFINE n == SumFunctionOnSet(f, (s \ {a}) \ {b})
    <3>3. (s \ {a}) \ {b} = (s \ {b}) \ {a}
      OBVIOUS
    <3>4. SumFunctionOnSet(f, s \ {b}) = f[a] + n
      BY <2>4, <3>2, <3>3
    <3>5. SumFunctionOnSet(f, s \ {a}) = f[b] + n
      BY <2>2, <2>4, <3>2
    <3>6. n \in Nat
      <4>1. IsFiniteSet((s \ {a}) \ {b})
        BY <2>1, FS_RemoveElement
      <4> QED
        BY <4>1, SumOfNats
    <3>7. f[a] \in Nat /\ f[b] \in Nat
      BY <2>2
    <3> HIDE DEF n
    <3> QED
      BY <2>2, <3>4, <3>5, <3>6, <3>7
  <2> QED
    BY <2>3, <2>4
<1> HIDE DEF Good
<1>2. S \in Good
  BY <1>1, SetInductionBySize
<1> QED
  BY <1>2 DEF Good

LEMMA SumOfUnion ==
  ASSUME NEW S, NEW B, IsFiniteSet(S), IsFiniteSet(B), S \cap B = {},
         NEW f, \A k \in S \cup B : f[k] \in Nat
  PROVE  SumFunctionOnSet(f, S \cup B) = SumFunctionOnSet(f, S) + SumFunctionOnSet(f, B)
<1> DEFINE Claim(s) == SumFunctionOnSet(f, s \cup B) = SumFunctionOnSet(f, s) + SumFunctionOnSet(f, B)
           Good == {s \in SUBSET S : Claim(s)}
<1>0. SumFunctionOnSet(f, B) \in Nat
  BY SumOfNats
<1>1. {} \in Good
  <2>1. {} \cup B = B /\ SumFunctionOnSet(f, {}) = 0
    BY SumOfEmpty
  <2> QED
    BY <1>0, <2>1
<1>2. ASSUME NEW s \in SUBSET S, IsFiniteSet(s), s # {}, Rest(s) \in Good
      PROVE  s \in Good
  <2> DEFINE c == Some(s)
             r == Rest(s)
  <2>1. /\ c \in S /\ r \subseteq S /\ IsFiniteSet(r) /\ Claim(r)
        /\ SumFunctionOnSet(f, s) = f[c] + SumFunctionOnSet(f, r)
    BY <1>2, SumOfRest, RestSmaller
  <2> HIDE DEF c, r
  <2>2. c \in s /\ r = s \ {c}
    BY <1>2, RestSmaller DEF c, r, Rest
  <2>3. (s \cup B) \ {c} = r \cup B
    BY <2>2
  <2>4. IsFiniteSet(s \cup B) /\ \A k \in s \cup B : f[k] \in Nat
    BY <1>2, FS_Union
  <2>5. SumFunctionOnSet(f, s \cup B) = f[c] + SumFunctionOnSet(f, r \cup B)
    BY <2>2, <2>3, <2>4, SumWithout
  <2>6. SumFunctionOnSet(f, r) \in Nat /\ f[c] \in Nat
    BY <2>1, SumOfNats
  <2> QED
    BY <1>0, <2>1, <2>5, <2>6
<1> HIDE DEF Good
<1>3. S \in Good
  BY <1>1, <1>2, SetInduction
<1> QED
  BY <1>3 DEF Good

-------------------------------------------------------------------------------
(* The parts of the index *)

LEMMA Sets ==
  ASSUME NEW x
  PROVE  /\ Recorded(x) \subseteq Applicable(x) /\ Applicable(x) \subseteq Criteria
         /\ Active(x) \subseteq Dimensions
         /\ IsFiniteSet(Recorded(x)) /\ IsFiniteSet(Applicable(x)) /\ IsFiniteSet(Active(x))
<1>1. /\ Recorded(x) \subseteq Applicable(x) /\ Applicable(x) \subseteq Criteria
      /\ Active(x) \subseteq Dimensions
  BY DEF Recorded, Applicable, Active
<1>2. IsFiniteSet(Criteria) /\ IsFiniteSet(Dimensions)
  BY DimensionAssumption
<1> QED
  BY <1>1, <1>2, FS_Subset

LEMMA WithinIs ==
  ASSUME NEW d \in Dimensions, NEW keys, keys \subseteq Criteria
  PROVE  /\ Within(d, keys) \subseteq keys /\ IsFiniteSet(Within(d, keys))
         /\ Cardinality(Within(d, keys)) \in 0..4
         /\ Within(d, keys) # {} => Cardinality(Within(d, keys)) # 0
<1> DEFINE all == {k \in Criteria : DimensionOf[k] = d}
<1>1. /\ IsFiniteSet(Criteria) /\ Cardinality(all) <= 4
  BY DimensionAssumption
<1>2. Within(d, keys) \subseteq keys /\ Within(d, keys) \subseteq all /\ all \subseteq Criteria
  BY DEF Within
<1>3. IsFiniteSet(all)
  BY <1>1, <1>2, FS_Subset
<1>4. IsFiniteSet(Within(d, keys)) /\ Cardinality(Within(d, keys)) <= Cardinality(all)
  BY <1>2, <1>3, FS_Subset
<1>5. Cardinality(all) \in Nat /\ Cardinality(Within(d, keys)) \in Nat
  BY <1>3, <1>4, FS_CardinalityType
<1>6. Cardinality(Within(d, keys)) = 0 <=> Within(d, keys) = {}
  BY <1>4, FS_EmptySet
<1> HIDE DEF all
<1> QED
  BY <1>1, <1>2, <1>4, <1>5, <1>6

LEMMA WeightsAre ==
  ASSUME NEW x
  PROVE  Weights(x) \in [Dimensions -> Nat \ {0}]
BY ProfilesAssumption DEF Weights

LEMMA TotalIs ==
  ASSUME NEW x
  PROVE  Total(x) \in Nat /\ (Total(x) > 0 <=> Active(x) # {})
<1>1. IsFiniteSet(Active(x)) /\ \A d \in Active(x) : Weights(x)[d] \in Nat \ {0}
  BY Sets, WeightsAre
<1>2. CASE Active(x) = {}
  BY <1>2, SumOfEmpty DEF Total
<1>3. CASE Active(x) # {}
  BY <1>1, <1>3, SumOfPositives DEF Total
<1> QED
  BY <1>2, <1>3

LEMMA ShareIs ==
  ASSUME NEW x, NEW d \in Active(x)
  PROVE  /\ Share(x, d) \in Nat
         /\ Cardinality(Within(d, Applicable(x))) \in 1..4
         /\ Share(x, d) * Cardinality(Within(d, Applicable(x))) = 12 * Weights(x)[d]
<1> DEFINE n == Cardinality(Within(d, Applicable(x)))
           w == Weights(x)[d]
<1>1. n \in 1..4
  <2>1. d \in Dimensions /\ Within(d, Applicable(x)) # {} /\ Applicable(x) \subseteq Criteria
    BY Sets DEF Active
  <2> QED
    BY <2>1, WithinIs
<1>2. w \in Nat
  BY Sets, WeightsAre
<1>3. Share(x, d) = w * (12 \div n)
  BY DEF Share
<1> HIDE DEF n, w
<1>4. (12 \div n) \in Nat /\ (12 \div n) * n = 12
  <2>1. 12 \div 1 = 12 /\ 12 \div 2 = 6 /\ 12 \div 3 = 4 /\ 12 \div 4 = 3
    OBVIOUS
  <2>2. n = 1 \/ n = 2 \/ n = 3 \/ n = 4
    BY <1>1
  <2> QED
    BY <2>1, <2>2
<1>5. \A m \in Nat : m * n = 12 => w * m \in Nat /\ (w * m) * n = 12 * w
  <2> SUFFICES ASSUME NEW m \in Nat, m * n = 12
               PROVE  w * m \in Nat /\ (w * m) * n = 12 * w
    OBVIOUS
  <2>1. (w * m) * n = w * (m * n)
    BY <1>1, <1>2
  <2> QED
    BY <1>2, <2>1
<1> QED
  BY <1>1, <1>3, <1>4, <1>5 DEF n, w

LEMMA PointsAre ==
  ASSUME NEW x, NEW keys, keys \subseteq Recorded(x)
  PROVE  /\ \A k \in keys : /\ Points(x, keys)[k] = 25 * x.items[k].rating
                            /\ Points(x, keys)[k] \in Nat /\ x.items[k].rating \in 0..4
         /\ IsFiniteSet(keys) => SumFunctionOnSet(Points(x, keys), keys) \in Nat
<1>1. \A k \in keys : /\ Points(x, keys)[k] = 25 * x.items[k].rating
                      /\ x.items[k].rating \in 0..4
  BY DEF Recorded, Points, Ratings
<1>2. \A k \in keys : Points(x, keys)[k] \in Nat
  BY <1>1
<1> QED
  BY <1>1, <1>2, SumOfNats

\* The index of a part of the criteria: a sum of sums.
LEMMA WeightedIs ==
  ASSUME NEW x, NEW value, \A k \in Recorded(x) : value[k] \in Nat
  PROVE  /\ Weighted(x, value) \in Nat
         /\ \A d \in Active(x) : SumFunctionOnSet(value, Within(d, Recorded(x))) \in Nat
<1> DEFINE inner(d) == SumFunctionOnSet(value, Within(d, Recorded(x)))
           f == [d \in Active(x) |-> Share(x, d) * inner(d)]
<1>1. ASSUME NEW d \in Active(x)
      PROVE  inner(d) \in Nat
  <2>1. d \in Dimensions /\ Recorded(x) \subseteq Criteria
    BY Sets
  <2>2. IsFiniteSet(Within(d, Recorded(x))) /\ Within(d, Recorded(x)) \subseteq Recorded(x)
    BY <2>1, WithinIs
  <2> QED
    BY <2>2, SumOfNats
<1>2. ASSUME NEW d \in Active(x)
      PROVE  f[d] \in Nat
  <2>1. f[d] = Share(x, d) * inner(d)
    OBVIOUS
  <2>2. \A a, b \in Nat : a * b \in Nat
    OBVIOUS
  <2> QED
    BY <1>1, <2>1, <2>2, ShareIs
<1>3. Weighted(x, value) = SumFunctionOnSet(f, Active(x))
  BY DEF Weighted
<1>4. Weighted(x, value) \in Nat
  BY <1>2, <1>3, Sets, SumOfNats
<1> QED
  BY <1>1, <1>4

LEMMA LowerIs ==
  ASSUME NEW x
  PROVE  Lower(x) \in Nat
<1>1. \A k \in Recorded(x) : Points(x, Recorded(x))[k] \in Nat
  BY PointsAre
<1> QED
  BY <1>1, WeightedIs DEF Lower

-------------------------------------------------------------------------------
(* Readiness *)

BadCounts(x) ==
  \/ x.completed > x.planned \/ x.criticalVerified > x.criticalPlanned
  \/ x.criticalPlanned > x.planned \/ x.criticalVerified > x.completed

Valid(x) ==
  /\ x.profile \in DOMAIN Profiles /\ x.tier \in DOMAIN Tiers /\ x.setup
  /\ DOMAIN x.items \subseteq Criteria
  /\ \A i \in 1..4 : Counts(x)[i] # None => ~ (Counts(x)[i] < 0)
  /\ x.planned # 0
  /\ ~ (CountsKnown(x) /\ BadCounts(x))
  /\ \A k \in Criteria : x.items[k].use # "claimed" /\ x.items[k].use # "odd"
  /\ \A k \in Applicable(x) : x.items[k].rating \in Ratings \cup {None}

LEMMA ValidIs ==
  ASSUME NEW x
  PROVE  Invalid(x) = {} <=> Valid(x)
<1>1. ASSUME Valid(x), NEW r \in Invalid(x)
      PROVE  FALSE
  BY <1>1 DEF Invalid, Valid, BadCounts
<1>2. ASSUME Invalid(x) = {}
      PROVE  Valid(x)
  <2>1. /\ "INVALID_PROFILE" \notin Invalid(x) /\ "INVALID_TIER" \notin Invalid(x)
        /\ "INVALID_SETUP" \notin Invalid(x) /\ "UNKNOWN_CRITERION" \notin Invalid(x)
    BY <1>2
  <2>2. x.profile \in DOMAIN Profiles /\ x.tier \in DOMAIN Tiers /\ x.setup
        /\ DOMAIN x.items \subseteq Criteria
    BY <2>1 DEF Invalid
  <2>3. "INVALID_COUNT" \notin Invalid(x) /\ "INVALID_EXAMINATION_COUNTS" \notin Invalid(x)
    BY <1>2
  <2>4. /\ \A i \in 1..4 : Counts(x)[i] # None => ~ (Counts(x)[i] < 0)
        /\ x.planned # 0 /\ ~ (CountsKnown(x) /\ BadCounts(x))
    BY <2>3 DEF Invalid, BadCounts
  <2>5. /\ "EXCLUSION_NOT_APPROVED" \notin Invalid(x) /\ "INVALID_APPLICABILITY" \notin Invalid(x)
        /\ "INVALID_RATING" \notin Invalid(x)
    BY <1>2
  <2>6. /\ \A k \in Criteria : x.items[k].use # "claimed" /\ x.items[k].use # "odd"
        /\ \A k \in Applicable(x) : x.items[k].rating \in Ratings \cup {None}
    BY <2>5 DEF Invalid
  <2> QED
    BY <2>2, <2>4, <2>6 DEF Valid
<1> QED
  BY <1>1, <1>2

LEMMA HeldIs ==
  ASSUME NEW x
  PROVE  Held(x) = {} <=> /\ \A g \in Gates : EffectiveGate(x, g) # "fail"
                          /\ "critical" \notin x.findings
<1>1. ASSUME Held(x) = {}
      PROVE  (\A g \in Gates : EffectiveGate(x, g) # "fail") /\ "critical" \notin x.findings
  <2>1. "GATE_FAILED" \notin Held(x) /\ "OPEN_CRITICAL_FINDING" \notin Held(x)
    BY <1>1
  <2> QED
    BY <2>1 DEF Held
<1> QED
  BY <1>1 DEF Held

LEMMA UncheckedIs ==
  ASSUME NEW x
  PROVE  Unchecked(x) = {} <=>
           /\ None \notin {x.criticalPlanned, x.criticalVerified}
           /\ x.criticalPlanned = x.criticalVerified
           /\ \A g \in Gates \ {"R7"} : EffectiveGate(x, g) # "unknown"
           /\ x.tier = "High" => x.specialist
<1>1. ASSUME Unchecked(x) = {}
      PROVE  /\ None \notin {x.criticalPlanned, x.criticalVerified}
             /\ x.criticalPlanned = x.criticalVerified
             /\ \A g \in Gates \ {"R7"} : EffectiveGate(x, g) # "unknown"
             /\ x.tier = "High" => x.specialist
  <2>1. /\ "UNVERIFIED_CRITICAL_UNITS" \notin Unchecked(x) /\ "GATE_UNKNOWN" \notin Unchecked(x)
        /\ "SPECIALIST_REVIEW_REQUIRED" \notin Unchecked(x)
    BY <1>1
  <2> QED
    BY <2>1 DEF Unchecked
<1> QED
  BY <1>1 DEF Unchecked

LEMMA MajorsAndWeakAre ==
  ASSUME NEW x
  PROVE  /\ Majors(x) = {} <=> "major" \notin x.findings
         /\ Weak(x) = {} <=> LowCriteria(x) = {}
BY DEF Majors, Weak

LowIndex(x) == HasPoint(x) /\ Lower(x) < Floors(x).index * Scale(x)
LowCoverage(x) == UnitsKnown(x) /\ 100 * x.completed < Floors(x).units * x.planned
DimensionFloor(x, d) ==
  IF d \in Core /\ Floors(x).core > Floors(x).dimension THEN Floors(x).core ELSE Floors(x).dimension
LowDimension(x, d) ==
  LET keys == Within(d, Applicable(x))
  IN  /\ keys \subseteq Recorded(x)
      /\ SumFunctionOnSet(Points(x, keys), keys) < DimensionFloor(x, d) * Cardinality(keys)

LEMMA ThresholdsAre ==
  ASSUME NEW x
  PROVE  Thresholds(x) = {} <=>
           /\ ~ LowIndex(x) /\ ~ LowCoverage(x)
           /\ \A d \in Active(x) : ~ LowDimension(x, d)
<1>1. ASSUME Thresholds(x) = {}
      PROVE  /\ ~ LowIndex(x) /\ ~ LowCoverage(x)
             /\ \A d \in Active(x) : ~ LowDimension(x, d)
  <2>1. /\ "INDEX_BELOW_FLOOR" \notin Thresholds(x)
        /\ "CONTENT_COVERAGE_BELOW_FLOOR" \notin Thresholds(x)
        /\ "DIMENSION_BELOW_FLOOR" \notin Thresholds(x)
    BY <1>1
  <2>2. ~ LowIndex(x) /\ ~ LowCoverage(x)
    BY <2>1 DEF Thresholds, LowIndex, LowCoverage
  <2>3. \A d \in Active(x) : ~ LowDimension(x, d)
    BY <2>1 DEF Thresholds, LowDimension, DimensionFloor
  <2> QED
    BY <2>2, <2>3
<1>2. ASSUME ~ LowIndex(x), ~ LowCoverage(x), \A d \in Active(x) : ~ LowDimension(x, d),
             NEW r \in Thresholds(x)
      PROVE  FALSE
  <2>1. CASE r = "DIMENSION_BELOW_FLOOR"
    BY <1>2, <2>1 DEF Thresholds, LowDimension, DimensionFloor
  <2>2. CASE r # "DIMENSION_BELOW_FLOOR"
    BY <1>2, <2>2 DEF Thresholds, LowIndex, LowCoverage
  <2> QED
    BY <2>1, <2>2
<1> QED
  BY <1>1, <1>2

LEMMA ReadyIs ==
  ASSUME NEW x
  PROVE  Ready(x) <=> /\ Held(x) = {} /\ Invalid(x) = {} /\ ~ Incomplete(x)
                      /\ Unchecked(x) = {} /\ Majors(x) = {} /\ Weak(x) = {}
                      /\ Thresholds(x) = {}
BY DEF Ready, Route

LEMMA InputFields ==
  ASSUME NEW x, IsInput(x)
  PROVE  /\ x.gates \in [Gates -> Judgements \cup {"bare"}]
         /\ x.findings \subseteq {"critical", "major", "minor"}
         /\ {x.planned, x.completed, x.criticalPlanned, x.criticalVerified} \subseteq Int \cup {None}
         /\ {x.inventory, x.setup, x.specialist, x.owner} \subseteq BOOLEAN
         /\ \A k \in Criteria : /\ x.items[k].use \in {"applicable", "excluded", "claimed", "odd"}
                                /\ x.items[k].rating \in Int \cup {None}
                                /\ x.items[k].evidenced \in BOOLEAN
<1>1. x \in InputOf(x.items) /\ Criteria \subseteq DOMAIN x.items
      /\ x.items \in [DOMAIN x.items -> ItemEntry]
  BY DEF IsInput
<1>2. /\ x.gates \in [Gates -> Judgements \cup {"bare"}]
      /\ x.findings \in SUBSET {"critical", "major", "minor"}
      /\ x.planned \in Count /\ x.completed \in Count
      /\ x.criticalPlanned \in Count /\ x.criticalVerified \in Count
      /\ x.inventory \in BOOLEAN /\ x.setup \in BOOLEAN
      /\ x.specialist \in BOOLEAN /\ x.owner \in BOOLEAN
  BY <1>1 DEF InputOf
<1>3. \A k \in Criteria : x.items[k] \in ItemEntry
  BY <1>1
<1> QED
  BY <1>2, <1>3 DEF ItemEntry, Count

CountNames(x) == /\ x.planned # None /\ x.completed # None
                 /\ x.criticalPlanned # None /\ x.criticalVerified # None

LEMMA CountsAre ==
  ASSUME NEW x
  PROVE  /\ CountsKnown(x) <=> CountNames(x)
         /\ (\A i \in 1..4 : Counts(x)[i] # None => ~ (Counts(x)[i] < 0)) <=>
              /\ x.planned # None => ~ (x.planned < 0)
              /\ x.completed # None => ~ (x.completed < 0)
              /\ x.criticalPlanned # None => ~ (x.criticalPlanned < 0)
              /\ x.criticalVerified # None => ~ (x.criticalVerified < 0)
<1>1. /\ Counts(x)[1] = x.planned /\ Counts(x)[2] = x.completed
      /\ Counts(x)[3] = x.criticalPlanned /\ Counts(x)[4] = x.criticalVerified
  BY DEF Counts
<1>2. \A i : i \in 1..4 <=> i = 1 \/ i = 2 \/ i = 3 \/ i = 4
  OBVIOUS
<1>3. CountsKnown(x) <=> CountNames(x)
  BY <1>1, <1>2 DEF CountsKnown, CountNames
<1> QED
  BY <1>1, <1>2, <1>3

LEMMA GatesOpen ==
  ASSUME NEW x, IsInput(x)
  PROVE  (/\ \A g \in Gates : EffectiveGate(x, g) # "fail"
          /\ \A g \in Gates \ {"R7"} : EffectiveGate(x, g) # "unknown")
         <=> /\ x.gates["R1"] = "pass"
             /\ \A g \in Gates \ {"R1", "R7"} : x.gates[g] \in {"pass", "na"}
             /\ x.gates["R7"] = "fail" => x.owner
<1>1. \A g \in Gates : x.gates[g] \in {"pass", "fail", "na", "unknown", "bare"}
  BY InputFields DEF Judgements
<1>2. "R1" \in Gates /\ "R7" \in Gates
  BY GatesAssumption
<1>3. ASSUME NEW g \in Gates \ {"R1", "R7"}
      PROVE  (EffectiveGate(x, g) # "fail" /\ EffectiveGate(x, g) # "unknown")
                <=> x.gates[g] \in {"pass", "na"}
  BY <1>1 DEF EffectiveGate, Judgements
<1>4. (EffectiveGate(x, "R1") # "fail" /\ EffectiveGate(x, "R1") # "unknown")
         <=> x.gates["R1"] = "pass"
  BY <1>1, <1>2 DEF EffectiveGate, Judgements
<1>5. EffectiveGate(x, "R7") # "fail" <=> (x.gates["R7"] = "fail" => x.owner)
  BY <1>1, <1>2 DEF EffectiveGate, Judgements
<1> QED
  BY <1>2, <1>3, <1>4, <1>5

LEMMA FloorsAre ==
  ASSUME NEW x
  PROVE  /\ Floors(x).index \in Nat /\ Floors(x).dimension \in Nat
         /\ Floors(x).core \in Nat /\ Floors(x).units \in Nat
<1>1. Floors(x) \in [index: 0..100, dimension: 0..100, core: 0..100, units: 0..100]
  BY TiersAssumption DEF Floors
<1> QED
  BY <1>1

\* With all ratings known, a dimension is low or meets the floors that apply.
LEMMA DimensionMeets ==
  ASSUME NEW x, Rated(x), NEW d \in Active(x),
         NEW keys, keys = Within(d, Applicable(x)),
         NEW points, points = SumFunctionOnSet(Points(x, keys), keys)
  PROVE  ~ LowDimension(x, d) <=>
           /\ points >= Floors(x).dimension * Cardinality(keys)
           /\ d \in Core => points >= Floors(x).core * Cardinality(keys)
<1> DEFINE n == Cardinality(keys)
           a == Floors(x).dimension
           b == Floors(x).core
<1>1. n \in 1..4
  BY ShareIs
<1>2. keys \subseteq Recorded(x) /\ IsFiniteSet(keys)
  <2>1. keys \subseteq Applicable(x)
    BY DEF Within
  <2>2. IsFiniteSet(keys)
    BY <2>1, Sets, FS_Subset
  <2> QED
    BY <2>1, <2>2 DEF Rated
<1>3. points \in Nat
  BY <1>2, PointsAre
<1>4. a \in Nat /\ b \in Nat
  BY FloorsAre
<1>5. LowDimension(x, d) <=> points < DimensionFloor(x, d) * n
  BY <1>2 DEF LowDimension
<1>6. DimensionFloor(x, d) = IF d \in Core /\ b > a THEN b ELSE a
  BY DEF DimensionFloor
<1> HIDE DEF a, b, n
<1>7. n = 1 \/ n = 2 \/ n = 3 \/ n = 4
  BY <1>1
<1>8. ~ LowDimension(x, d) <=> points >= a * n /\ (d \in Core => points >= b * n)
  <2>1. CASE d \in Core /\ b > a
    BY <1>3, <1>4, <1>5, <1>6, <1>7, <2>1
  <2>2. CASE ~ (d \in Core /\ b > a)
    BY <1>3, <1>4, <1>5, <1>6, <1>7, <2>2
  <2> QED
    BY <2>1, <2>2
<1> QED
  BY <1>8 DEF a, b, n

LEMMA ActiveIs ==
  ASSUME NEW x
  PROVE  Active(x) = {DimensionOf[k] : k \in Applicable(x)}
<1>1. Applicable(x) \subseteq Criteria /\ \A k \in Criteria : DimensionOf[k] \in Dimensions
  BY DimensionAssumption DEF Applicable
<1> QED
  BY <1>1 DEF Active, Within

\* The last conjunct of Requirements.
DimensionsMeet(x) ==
  \A d \in {DimensionOf[k] : k \in Applicable(x)} :
       LET keys == {k \in Applicable(x) : DimensionOf[k] = d}
           points == SumFunctionOnSet([k \in keys |-> 25 * x.items[k].rating], keys)
       IN  /\ points >= Tiers[x.tier].dimension * Cardinality(keys)
           /\ d \in Core => points >= Tiers[x.tier].core * Cardinality(keys)

LEMMA DimensionsMeetIs ==
  ASSUME NEW x, x.tier \in DOMAIN Tiers, Rated(x)
  PROVE  DimensionsMeet(x) <=> \A d \in Active(x) : ~ LowDimension(x, d)
<1>1. Floors(x) = Tiers[x.tier]
  BY DEF Floors
<1> DEFINE keys(d) == Within(d, Applicable(x))
           points(d) == SumFunctionOnSet(Points(x, keys(d)), keys(d))
           Meets(d) == /\ points(d) >= Floors(x).dimension * Cardinality(keys(d))
                       /\ d \in Core => points(d) >= Floors(x).core * Cardinality(keys(d))
<1>2. \A d \in Active(x) : ~ LowDimension(x, d) <=> Meets(d)
  BY DimensionMeets
<1>3. DimensionsMeet(x) <=> \A d \in Active(x) : Meets(d)
  BY <1>1, ActiveIs DEF DimensionsMeet, Within, Points
<1> HIDE DEF Meets
<1> QED
  BY <1>2, <1>3

SomeApplicable(x) == \E k \in Criteria : x.items[k].use = "applicable"
AllRatedWell(x) ==
  \A k \in Criteria : x.items[k].use # "excluded" => x.items[k].rating \in 3..4 /\ x.items[k].evidenced

LEMMA RatingsWell ==
  ASSUME NEW x, IsInput(x)
  PROVE  AllRatedWell(x) <=> Rated(x) /\ LowCriteria(x) = {}
<1>1. ASSUME AllRatedWell(x)
      PROVE  Rated(x) /\ LowCriteria(x) = {}
  BY <1>1 DEF AllRatedWell, Rated, LowCriteria, Recorded, Applicable, Ratings
<1>2. ASSUME Rated(x), LowCriteria(x) = {}, NEW k \in Criteria, x.items[k].use # "excluded"
      PROVE  x.items[k].rating \in 3..4 /\ x.items[k].evidenced
  <2>1. k \in Recorded(x)
    BY <1>2 DEF Rated, Applicable
  <2>2. x.items[k].rating \in 0..4 /\ x.items[k].evidenced
    BY <2>1 DEF Recorded, Ratings
  <2>3. ~ (x.items[k].rating < 3)
    BY <1>2, <2>1 DEF LowCriteria
  <2> QED
    BY <2>2, <2>3
<1> QED
  BY <1>1, <1>2 DEF AllRatedWell

LEMMA HasApplicable ==
  ASSUME NEW x, IsInput(x), Valid(x)
  PROVE  SomeApplicable(x) <=> Total(x) > 0
<1>1. Active(x) # {} <=> Applicable(x) # {}
  BY ActiveIs
<1>2. Applicable(x) # {} <=> SomeApplicable(x)
  BY InputFields DEF Applicable, SomeApplicable, Valid
<1> QED
  BY <1>1, <1>2, TotalIs

\* Readiness is what Requirements says, for every input.
LEMMA ReadyMeansRequirements ==
  ASSUME NEW x, IsInput(x)
  PROVE  Ready(x) <=> Requirements(x)
<1> DEFINE GatesMeet == /\ x.gates["R1"] = "pass"
                        /\ \A g \in Gates \ {"R1", "R7"} : x.gates[g] \in {"pass", "na"}
                        /\ x.gates["R7"] = "fail" => x.owner
           GateStates == /\ \A g \in Gates : EffectiveGate(x, g) # "fail"
                         /\ \A g \in Gates \ {"R7"} : EffectiveGate(x, g) # "unknown"
           CountsMeet == /\ x.inventory /\ CountsKnown(x)
                         /\ 100 * x.completed >= Tiers[x.tier].units * x.planned
                         /\ x.criticalPlanned = x.criticalVerified
           IndexMeets == Lower(x) >= Tiers[x.tier].index * Scale(x)
<1>1. Requirements(x) <=>
        /\ Invalid(x) = {} /\ SomeApplicable(x) /\ AllRatedWell(x)
        /\ CountsMeet /\ GatesMeet
        /\ x.findings \cap {"critical", "major"} = {}
        /\ x.tier = "High" => x.specialist
        /\ IndexMeets /\ DimensionsMeet(x)
  BY DEF Requirements, SomeApplicable, AllRatedWell, DimensionsMeet
<1>2. Ready(x) <=>
        /\ Invalid(x) = {} /\ ~ Incomplete(x) /\ LowCriteria(x) = {}
        /\ None \notin {x.criticalPlanned, x.criticalVerified}
        /\ x.criticalPlanned = x.criticalVerified
        /\ GateStates
        /\ "critical" \notin x.findings /\ "major" \notin x.findings
        /\ x.tier = "High" => x.specialist
        /\ ~ LowIndex(x) /\ ~ LowCoverage(x) /\ \A d \in Active(x) : ~ LowDimension(x, d)
  BY ReadyIs, HeldIs, UncheckedIs, MajorsAndWeakAre, ThresholdsAre
<1>3. GateStates <=> GatesMeet
  BY GatesOpen
<1>4. x.findings \cap {"critical", "major"} = {} <=> "critical" \notin x.findings /\ "major" \notin x.findings
  OBVIOUS
<1>5. CASE Invalid(x) # {}
  BY <1>1, <1>2, <1>5
<1>6. CASE Invalid(x) = {}
  <2>1. Valid(x)
    BY <1>6, ValidIs
  <2>2. x.tier \in DOMAIN Tiers /\ Floors(x) = Tiers[x.tier]
    BY <2>1 DEF Valid, Floors
  <2>3. CASE ~ Rated(x)
    <3>1. ~ AllRatedWell(x)
      BY <2>3, RatingsWell
    <3>2. Incomplete(x)
      BY <2>3 DEF Incomplete, HasPoint
    <3> QED
      BY <1>1, <1>2, <3>1, <3>2
  <2>4. CASE Rated(x)
    <3>1. AllRatedWell(x) <=> LowCriteria(x) = {}
      BY <2>4, RatingsWell
    <3>2. SomeApplicable(x) <=> HasPoint(x)
      BY <1>6, <2>1, <2>4, HasApplicable DEF HasPoint
    <3>3. DimensionsMeet(x) <=> \A d \in Active(x) : ~ LowDimension(x, d)
      BY <2>2, <2>4, DimensionsMeetIs
    <3>4. HasPoint(x) => (IndexMeets <=> ~ LowIndex(x))
      <4>1. Lower(x) \in Nat /\ Scale(x) \in Nat /\ Tiers[x.tier].index \in Nat
        BY <2>2, LowerIs, TotalIs, FloorsAre DEF Scale
      <4>2. \A a, b \in Nat : a * b \in Nat
        OBVIOUS
      <4>3. \A a, b \in Nat : a >= b <=> ~ (a < b)
        OBVIOUS
      <4>4. IndexMeets <=> ~ (Lower(x) < Tiers[x.tier].index * Scale(x))
        BY <4>1, <4>2, <4>3
      <4> QED
        BY <2>2, <4>4 DEF LowIndex
    <3>5. CountsMeet <=> /\ UnitsKnown(x) /\ ~ LowCoverage(x)
                         /\ None \notin {x.criticalPlanned, x.criticalVerified}
                         /\ x.criticalPlanned = x.criticalVerified
      <4>1. CountsKnown(x) <=> CountNames(x)
        BY CountsAre
      <4>2. CASE ~ CountsKnown(x)
        BY <4>2 DEF UnitsKnown
      <4>3. CASE CountsKnown(x)
        <5>1. x.planned \in Int /\ x.completed \in Int
          BY <4>1, <4>3, InputFields DEF CountNames
        <5>2. x.planned > 0
          BY <2>1, <4>1, <4>3, <5>1, CountsAre DEF CountNames, Valid
        <5>3. UnitsKnown(x) <=> x.inventory
          BY <1>6, <4>3, <5>2 DEF UnitsKnown
        <5>4. Tiers[x.tier].units \in Nat
          BY <2>2, FloorsAre
        <5>5. \A a, b, c \in Int : 100 * a >= b * c <=> ~ (100 * a < b * c)
          OBVIOUS
        <5>6. 100 * x.completed >= Tiers[x.tier].units * x.planned
                <=> ~ (100 * x.completed < Tiers[x.tier].units * x.planned)
          BY <5>1, <5>4, <5>5
        <5>7. LowCoverage(x) <=> UnitsKnown(x) /\ 100 * x.completed < Tiers[x.tier].units * x.planned
          BY <2>2 DEF LowCoverage
        <5> QED
          BY <4>1, <4>3, <5>3, <5>6, <5>7 DEF CountNames
      <4> QED
        BY <4>2, <4>3
    <3> HIDE DEF GatesMeet, GateStates, CountsMeet, IndexMeets
    <3>6. Incomplete(x) <=> ~ HasPoint(x) \/ ~ UnitsKnown(x)
      BY DEF Incomplete
    <3>7. LowIndex(x) => HasPoint(x)
      BY DEF LowIndex
    <3> QED
      BY <1>1, <1>2, <1>3, <1>4, <1>6, <3>1, <3>2, <3>3, <3>4, <3>5, <3>6, <3>7
  <2> QED
    BY <2>3, <2>4
<1> QED
  BY <1>5, <1>6

-------------------------------------------------------------------------------
(* The bounds *)

LEMMA Times ==
  ASSUME NEW a \in Nat, NEW b \in Nat, NEW c \in Nat
  PROVE  /\ a * b \in Nat /\ a * (b + c) = a * b + a * c
         /\ b <= c => a * b <= a * c
<1>1. a * b \in Nat /\ a * (b + c) = a * b + a * c
  OBVIOUS
<1>2. ASSUME b <= c
      PROVE  a * b <= a * c
  <2>1. PICK e \in Nat : c = b + e
    <3>1. c - b \in Nat /\ c = b + (c - b)
      BY <1>2
    <3> QED
      BY <3>1
  <2>2. a * c = a * b + a * e /\ a * e \in Nat /\ a * b \in Nat
    BY <2>1
  <2> QED
    BY <2>2
<1> QED
  BY <1>1, <1>2

Missing(x) == Applicable(x) \ Recorded(x)
CompletedBy(x, f) ==
  [x EXCEPT !.items =
     [k \in DOMAIN @ |-> IF k \in Missing(x)
        THEN [use |-> "applicable", rating |-> f[k], evidenced |-> TRUE] ELSE @[k]]]

LEMMA CompletionIs ==
  ASSUME NEW x, IsInput(x), NEW f \in [Missing(x) -> Ratings],
         NEW y, y = CompletedBy(x, f)
  PROVE  /\ Applicable(y) = Applicable(x) /\ Recorded(y) = Applicable(x)
         /\ Weights(y) = Weights(x) /\ Active(y) = Active(x)
         /\ \A k \in Recorded(x) : y.items[k].rating = x.items[k].rating
         /\ \A k \in Missing(x) : y.items[k].rating = f[k]
<1> DEFINE items == [k \in DOMAIN x.items |-> IF k \in Missing(x)
             THEN [use |-> "applicable", rating |-> f[k], evidenced |-> TRUE] ELSE x.items[k]]
<1>1. y = [x EXCEPT !.items = items]
  BY DEF CompletedBy
<1>2. x \in InputOf(x.items) /\ Criteria \subseteq DOMAIN x.items
  BY DEF IsInput
<1>3. /\ \A k \in Criteria \cap Missing(x) : /\ items[k].use = "applicable" /\ items[k].rating = f[k]
                                             /\ items[k].evidenced = TRUE
      /\ \A k \in Criteria \ Missing(x) : items[k] = x.items[k]
  BY <1>2
<1> HIDE DEF items
<1>4. y.items = items /\ y.profile = x.profile
  BY <1>1, <1>2 DEF InputOf
<1>5. Missing(x) \subseteq Criteria /\ Recorded(x) \subseteq Criteria
      /\ Recorded(x) \cap Missing(x) = {} /\ Applicable(x) \subseteq Criteria
  BY Sets DEF Missing
<1>6. Applicable(y) = Applicable(x)
  <2>1. ASSUME NEW k \in Criteria
        PROVE  y.items[k].use # "excluded" <=> x.items[k].use # "excluded"
    <3>1. CASE k \in Missing(x)
      BY <1>3, <1>4, <3>1 DEF Missing, Applicable
    <3>2. CASE k \notin Missing(x)
      BY <1>3, <1>4, <3>2
    <3> QED
      BY <3>1, <3>2
  <2> QED
    BY <2>1 DEF Applicable
<1>7. Recorded(y) = Applicable(x)
  <2>1. ASSUME NEW k \in Applicable(x)
        PROVE  y.items[k].rating \in Ratings /\ y.items[k].evidenced
    <3>1. CASE k \in Missing(x)
      BY <1>3, <1>4, <1>5, <3>1
    <3>2. CASE k \notin Missing(x)
      <4>1. k \in Recorded(x) /\ y.items[k] = x.items[k]
        BY <1>3, <1>4, <1>5, <3>2 DEF Missing
      <4> QED
        BY <4>1 DEF Recorded
    <3> QED
      BY <3>1, <3>2
  <2> QED
    BY <1>6, <2>1 DEF Recorded
<1>8. Weights(y) = Weights(x)
  BY <1>4 DEF Weights
<1>9. Active(y) = Active(x)
  BY <1>6 DEF Active
<1> QED
  BY <1>3, <1>4, <1>5, <1>6, <1>7, <1>8, <1>9

\* What a dimension of the completed assessment has: what was recorded and
\* what the missing ratings bring.
LEMMA CompletedDimension ==
  ASSUME NEW x, IsInput(x), NEW f \in [Missing(x) -> Ratings],
         NEW y, y = CompletedBy(x, f), NEW d \in Active(x)
  PROVE  LET base == SumFunctionOnSet(Points(x, Recorded(x)), Within(d, Recorded(x)))
             added == SumFunctionOnSet([k \in Missing(x) |-> 25 * f[k]], Within(d, Missing(x)))
         IN  /\ SumFunctionOnSet(Points(y, Recorded(y)), Within(d, Recorded(y))) = base + added
             /\ base \in Nat /\ added \in Nat
<1> DEFINE p == Points(y, Recorded(y))
           q == Points(x, Recorded(x))
           r == [k \in Missing(x) |-> 25 * f[k]]
           A == Within(d, Recorded(x))
           B == Within(d, Missing(x))
<1>1. /\ Recorded(y) = Applicable(x)
      /\ \A k \in Recorded(x) : y.items[k].rating = x.items[k].rating
      /\ \A k \in Missing(x) : y.items[k].rating = f[k]
  BY CompletionIs
<1>2. Recorded(x) \subseteq Applicable(x) /\ Applicable(x) = Recorded(x) \cup Missing(x)
      /\ Recorded(x) \cap Missing(x) = {} /\ d \in Dimensions /\ Applicable(x) \subseteq Criteria
  BY Sets DEF Missing
<1>3. Within(d, Recorded(y)) = A \cup B /\ A \cap B = {}
  BY <1>1, <1>2 DEF Within
<1>4. /\ IsFiniteSet(A) /\ IsFiniteSet(B)
      /\ A \subseteq Recorded(x) /\ B \subseteq Missing(x)
  BY <1>2, WithinIs
<1>5. \A k \in A \cup B : p[k] \in Nat
  BY <1>1, <1>2, <1>4, PointsAre
<1>6. \A k \in A : p[k] = q[k]
  BY <1>1, <1>2, <1>4 DEF Points
<1>7. \A k \in B : p[k] = r[k]
  BY <1>1, <1>2, <1>4 DEF Points
<1> HIDE DEF p, q, r, A, B
<1>8. SumFunctionOnSet(p, A \cup B) = SumFunctionOnSet(p, A) + SumFunctionOnSet(p, B)
  BY <1>3, <1>4, <1>5, SumOfUnion
<1>9. SumFunctionOnSet(p, A) = SumFunctionOnSet(q, A) /\ SumFunctionOnSet(p, B) = SumFunctionOnSet(r, B)
  BY <1>4, <1>6, <1>7, SumsAgree
<1>10. SumFunctionOnSet(p, A) \in Nat /\ SumFunctionOnSet(p, B) \in Nat
  BY <1>4, <1>5, SumOfNats
<1> QED
  BY <1>3, <1>8, <1>9, <1>10 DEF p, q, r, A, B

\* The index of any completion, by dimensions.
IndexOf(x, extra) ==
  SumFunctionOnSet(
    [d \in Active(x) |->
       Share(x, d) * (SumFunctionOnSet(Points(x, Recorded(x)), Within(d, Recorded(x))) + extra[d])],
    Active(x))
Added(x, f) ==
  [d \in Active(x) |-> SumFunctionOnSet([k \in Missing(x) |-> 25 * f[k]], Within(d, Missing(x)))]

LEMMA CompletedIndex ==
  ASSUME NEW x, IsInput(x), NEW f \in [Missing(x) -> Ratings]
  PROVE  Lower(CompletedBy(x, f)) = IndexOf(x, Added(x, f))
<1> DEFINE y == CompletedBy(x, f)
           inner(d) == SumFunctionOnSet(Points(y, Recorded(y)), Within(d, Recorded(y)))
           base(d) == SumFunctionOnSet(Points(x, Recorded(x)), Within(d, Recorded(x)))
           g == [d \in Active(x) |-> Share(x, d) * inner(d)]
           h == [d \in Active(x) |-> Share(x, d) * (base(d) + Added(x, f)[d])]
<1>1. /\ Applicable(y) = Applicable(x) /\ Weights(y) = Weights(x) /\ Active(y) = Active(x)
  BY CompletionIs
<1>2. \A d : Share(y, d) = Share(x, d)
  BY <1>1 DEF Share
<1>3. Lower(y) = SumFunctionOnSet(g, Active(x))
  BY <1>1, <1>2 DEF Lower, Weighted
<1>4. \A d \in Active(x) : inner(d) = base(d) + Added(x, f)[d]
  BY CompletedDimension DEF Added
<1> HIDE DEF inner, base
<1>5. \A d \in Active(x) : g[d] = h[d]
  BY <1>4
<1> HIDE DEF g, h
<1>6. SumFunctionOnSet(g, Active(x)) = SumFunctionOnSet(h, Active(x))
  BY <1>5, Sets, SumsAgree
<1> QED
  BY <1>3, <1>6 DEF IndexOf, h, base

-------------------------------------------------------------------------------
(* Improvements keep an input an input *)

\* What Rate records for a criterion.
RatedAt(rating) == [use |-> "applicable", rating |-> rating, evidenced |-> TRUE]

LEMMA RateKeepsInput ==
  ASSUME NEW x, IsInput(x), NEW k \in Criteria, NEW rating \in Ratings,
         NEW y, y = [x EXCEPT !.items[k] = RatedAt(rating)]
  PROVE  IsInput(y) /\ y.items = [x.items EXCEPT ![k] = RatedAt(rating)]
         /\ y = [x EXCEPT !.items = y.items]
<1>1. x \in InputOf(x.items) /\ Criteria \subseteq DOMAIN x.items
      /\ x.items \in [DOMAIN x.items -> ItemEntry]
  BY DEF IsInput
<1> DEFINE items == [x.items EXCEPT ![k] = RatedAt(rating)]
<1>2. RatedAt(rating) \in ItemEntry
  BY DEF RatedAt, ItemEntry, Ratings
<1>3. items \in [DOMAIN x.items -> ItemEntry] /\ DOMAIN items = DOMAIN x.items
  BY <1>1, <1>2
<1>4. y = [x EXCEPT !.items = items]
  OBVIOUS
<1> HIDE DEF items
<1>5. y \in InputOf(items) /\ y.items = items
  BY <1>1, <1>4 DEF InputOf
<1> QED
  BY <1>1, <1>3, <1>4, <1>5 DEF IsInput, items

LEMMA StepKeepsInput ==
  ASSUME IsInput(input), Improve
  PROVE  IsInput(input')
<1> DEFINE x == input
           y == input'
<1>1. x \in InputOf(x.items) /\ Criteria \subseteq DOMAIN x.items
      /\ x.items \in [DOMAIN x.items -> ItemEntry]
  BY DEF IsInput
<1>2. ASSUME NEW k \in Criteria, Rate(k)
      PROVE  IsInput(y)
  <2>1. PICK rating \in Ratings : y = [x EXCEPT !.items[k] = RatedAt(rating)]
    BY <1>2 DEF Rate, RatedAt
  <2> QED
    BY <2>1, RateKeepsInput
<1>3. ASSUME y \in InputOf(x.items), y.items = x.items
      PROVE  IsInput(y)
  BY <1>1, <1>3 DEF IsInput
<1>4. ASSUME NEW g \in Gates, PassGate(g)
      PROVE  IsInput(y)
  <2>1. y = [x EXCEPT !.gates[g] = "pass"]
    BY <1>4 DEF PassGate
  <2>2. [x.gates EXCEPT ![g] = "pass"] \in [Gates -> Judgements \cup {"bare"}]
    BY <1>1 DEF InputOf, Judgements
  <2> HIDE DEF x, y
  <2>3. y \in InputOf(x.items) /\ y.items = x.items
    BY <1>1, <2>1, <2>2 DEF InputOf
  <2> QED
    BY <1>3, <2>3
<1>5. ASSUME NEW f \in {"critical", "major"}, CloseFinding(f)
      PROVE  IsInput(y)
  <2>1. y = [x EXCEPT !.findings = @ \ {f}]
    BY <1>5 DEF CloseFinding
  <2> HIDE DEF x, y
  <2>2. y \in InputOf(x.items) /\ y.items = x.items
    BY <1>1, <2>1 DEF InputOf
  <2> QED
    BY <1>3, <2>2
<1>6. ASSUME Examine
      PROVE  IsInput(y)
  <2>1. y = [x EXCEPT !.completed = @ + 1] /\ x.completed \in Int
    BY <1>6, InputFields, CountsAre DEF Examine, CountNames
  <2> HIDE DEF x, y
  <2>2. y \in InputOf(x.items) /\ y.items = x.items
    BY <1>1, <2>1 DEF InputOf, Count
  <2> QED
    BY <1>3, <2>2
<1>7. ASSUME CheckCritical
      PROVE  IsInput(y)
  <2>1. y = [x EXCEPT !.criticalVerified = @ + 1] /\ x.criticalVerified \in Int
    BY <1>7, InputFields, CountsAre DEF CheckCritical, CountNames
  <2> HIDE DEF x, y
  <2>2. y \in InputOf(x.items) /\ y.items = x.items
    BY <1>1, <2>1 DEF InputOf, Count
  <2> QED
    BY <1>3, <2>2
<1>8. ASSUME NEW flag \in {"inventory", "setup", "specialist", "owner"}, Obtain(flag)
      PROVE  IsInput(y)
  <2>1. y = [x EXCEPT ![flag] = TRUE]
    BY <1>8 DEF Obtain
  <2> HIDE DEF x, y
  <2>2. y \in InputOf(x.items) /\ y.items = x.items
    <3>1. CASE flag = "inventory"
      BY <1>1, <2>1, <3>1 DEF InputOf
    <3>2. CASE flag = "setup"
      BY <1>1, <2>1, <3>2 DEF InputOf
    <3>3. CASE flag = "specialist"
      BY <1>1, <2>1, <3>3 DEF InputOf
    <3>4. CASE flag = "owner"
      BY <1>1, <2>1, <3>4 DEF InputOf
    <3> QED
      BY <3>1, <3>2, <3>3, <3>4
  <2> QED
    BY <1>3, <2>2
<1> QED
  BY <1>2, <1>4, <1>5, <1>6, <1>7, <1>8 DEF Improve

\* What the assessment is started with, and made of it since, is an input.
LEMMA AlwaysInput == Improvements => []IsInput(input)
<1>1. Started => IsInput(input)
  BY InputsAssumption DEF Started
<1>2. IsInput(input) /\ [Improve]_input => IsInput(input)'
  <2>1. CASE Improve
    BY <2>1, StepKeepsInput
  <2>2. CASE UNCHANGED input
    BY <2>2
  <2> QED
    BY <2>1, <2>2
<1> QED
  BY <1>1, <1>2, PTL DEF Improvements

\* Whatever the rubric and the inputs, the order in which calculate() looks
\* for a route (rubric.py 181-206) lets an assessment through to the owner
\* exactly when it meets every requirement of the release gate.
THEOREM ReadyOnlyWhenRequired == Improvements => []ReadyIffRequirements
<1>1. IsInput(input) => ReadyIffRequirements
  BY ReadyMeansRequirements DEF ReadyIffRequirements
<1> QED
  BY <1>1, AlwaysInput, PTL

-------------------------------------------------------------------------------
(* The bounds enclose *)

LEMMA SumOfSame ==
  ASSUME NEW S, IsFiniteSet(S), NEW a \in Nat, NEW f, \A k \in S : f[k] = a
  PROVE  SumFunctionOnSet(f, S) = a * Cardinality(S)
<1> DEFINE zero == [k \in S |-> 0]
           one == [k \in S |-> 1]
<1>1. SumFunctionOnSet(one, S) = Cardinality(S) /\ Cardinality(S) \in Nat
  BY SumOfOnes, FS_CardinalityType
<1>2. SumFunctionOnSet(zero, S) \in Nat
  BY SumOfNats
<1>3. /\ \A k \in S : zero[k] \in Nat /\ one[k] \in Nat
      /\ \A k \in S : zero[k] = zero[k] + 1 * zero[k]
      /\ \A k \in S : f[k] = zero[k] + a * one[k]
  OBVIOUS
<1> HIDE DEF zero, one
<1>4. SumFunctionOnSet(zero, S) = SumFunctionOnSet(zero, S) + 1 * SumFunctionOnSet(zero, S)
  BY <1>3, SumsCombine
<1>5. SumFunctionOnSet(zero, S) = 0
  <2>1. \A z \in Nat : z = z + 1 * z => z = 0
    OBVIOUS
  <2> QED
    BY <1>2, <1>4, <2>1
<1>6. SumFunctionOnSet(f, S) = SumFunctionOnSet(zero, S) + a * SumFunctionOnSet(one, S)
  BY <1>3, SumsCombine
<1>7. a * Cardinality(S) \in Nat
  BY <1>1, Times
<1> QED
  BY <1>1, <1>5, <1>6, <1>7

\* Every missing rating the same.
All(x, n) == [k \in Missing(x) |-> n]

LEMMA MissingWithin ==
  ASSUME NEW x, NEW d \in Active(x)
  PROVE  /\ IsFiniteSet(Within(d, Missing(x))) /\ Within(d, Missing(x)) \subseteq Missing(x)
         /\ Cardinality(Within(d, Missing(x))) \in Nat
         /\ Cardinality(Within(d, Recorded(x))) \in Nat
         /\ Cardinality(Within(d, Applicable(x)))
              = Cardinality(Within(d, Recorded(x))) + Cardinality(Within(d, Missing(x)))
<1> DEFINE R == Within(d, Recorded(x))
           M == Within(d, Missing(x))
<1>1. /\ d \in Dimensions /\ Missing(x) \subseteq Criteria /\ Recorded(x) \subseteq Criteria
      /\ Applicable(x) = Recorded(x) \cup Missing(x) /\ Recorded(x) \cap Missing(x) = {}
  BY Sets DEF Missing
<1>2. /\ IsFiniteSet(R) /\ IsFiniteSet(M) /\ M \subseteq Missing(x)
  BY <1>1, WithinIs
<1>3. Within(d, Applicable(x)) = R \cup M /\ R \cap M = {}
  BY <1>1 DEF Within
<1> HIDE DEF R, M
<1>4. Cardinality(R) \in Nat /\ Cardinality(M) \in Nat /\ Cardinality(R \cap M) = 0
  BY <1>2, <1>3, FS_CardinalityType, FS_EmptySet
<1>5. Cardinality(R \cup M) = Cardinality(R) + Cardinality(M) - Cardinality(R \cap M)
  BY <1>2, FS_Union
<1>6. Cardinality(R \cup M) = Cardinality(R) + Cardinality(M)
  BY <1>4, <1>5
<1> QED
  BY <1>2, <1>3, <1>4, <1>6 DEF R, M

LEMMA AddedIs ==
  ASSUME NEW x, NEW d \in Active(x)
  PROVE  /\ \A f \in [Missing(x) -> Ratings] :
              /\ Added(x, f)[d] \in Nat
              /\ Added(x, f)[d] <= Added(x, All(x, 4))[d]
         /\ Added(x, All(x, 0))[d] = 0
         /\ Added(x, All(x, 4))[d] = 100 * Cardinality(Within(d, Missing(x)))
<1> DEFINE M == Within(d, Missing(x))
           points(f) == [k \in Missing(x) |-> 25 * f[k]]
<1>1. IsFiniteSet(M) /\ M \subseteq Missing(x) /\ Cardinality(M) \in Nat
  BY MissingWithin
<1>2. \A f : Added(x, f)[d] = SumFunctionOnSet(points(f), M)
  BY DEF Added
<1>3. \A k \in M : points(All(x, 0))[k] = 0 /\ points(All(x, 4))[k] = 100
  BY <1>1 DEF All
<1>4. ASSUME NEW f \in [Missing(x) -> Ratings], NEW k \in M
      PROVE  points(f)[k] \in Nat /\ points(f)[k] <= 100
  BY <1>1 DEF Ratings
<1> HIDE DEF M, points
<1>5. SumFunctionOnSet(points(All(x, 0)), M) = 0 * Cardinality(M)
  BY <1>1, <1>3, SumOfSame
<1>6. SumFunctionOnSet(points(All(x, 4)), M) = 100 * Cardinality(M)
  BY <1>1, <1>3, SumOfSame
<1>7. ASSUME NEW f \in [Missing(x) -> Ratings]
      PROVE  /\ SumFunctionOnSet(points(f), M) \in Nat
             /\ SumFunctionOnSet(points(f), M) <= SumFunctionOnSet(points(All(x, 4)), M)
  <2>1. \A k \in M : /\ points(f)[k] \in Nat /\ points(All(x, 4))[k] \in Nat
                     /\ points(f)[k] <= points(All(x, 4))[k]
    BY <1>3, <1>4
  <2> QED
    BY <1>1, <2>1, SumOfNats, SumsGrow
<1>8. 0 * Cardinality(M) = 0
  BY <1>1
<1> QED
  BY <1>2, <1>5, <1>6, <1>7, <1>8 DEF M

\* What was recorded in a dimension, in points.
BasePoints(x, d) == SumFunctionOnSet(Points(x, Recorded(x)), Within(d, Recorded(x)))

LEMMA BaseIs ==
  ASSUME NEW x, NEW d \in Active(x)
  PROVE  BasePoints(x, d) \in Nat
<1>1. \A k \in Recorded(x) : Points(x, Recorded(x))[k] \in Nat
  BY PointsAre
<1> QED
  BY <1>1, WeightedIs DEF BasePoints

LEMMA IndexGrows ==
  ASSUME NEW x, NEW low, NEW high,
         \A d \in Active(x) : low[d] \in Nat /\ high[d] \in Nat /\ low[d] <= high[d]
  PROVE  IndexOf(x, low) <= IndexOf(x, high)
<1> DEFINE f == [d \in Active(x) |-> Share(x, d) * (BasePoints(x, d) + low[d])]
           g == [d \in Active(x) |-> Share(x, d) * (BasePoints(x, d) + high[d])]
<1>1. IndexOf(x, low) = SumFunctionOnSet(f, Active(x)) /\ IndexOf(x, high) = SumFunctionOnSet(g, Active(x))
  BY DEF IndexOf, BasePoints
<1>2. ASSUME NEW d \in Active(x)
      PROVE  f[d] \in Nat /\ g[d] \in Nat /\ f[d] <= g[d]
  <2>1. Share(x, d) \in Nat /\ BasePoints(x, d) \in Nat /\ low[d] \in Nat /\ high[d] \in Nat /\ low[d] <= high[d]
    BY ShareIs, BaseIs
  <2>2. BasePoints(x, d) + low[d] \in Nat /\ BasePoints(x, d) + high[d] \in Nat
        /\ BasePoints(x, d) + low[d] <= BasePoints(x, d) + high[d]
    BY <2>1
  <2>3. f[d] = Share(x, d) * (BasePoints(x, d) + low[d]) /\ g[d] = Share(x, d) * (BasePoints(x, d) + high[d])
    OBVIOUS
  <2> HIDE DEF f, g
  <2> QED
    BY <2>1, <2>2, <2>3, Times
<1> HIDE DEF f, g
<1>3. IsFiniteSet(Active(x))
  BY Sets
<1> QED
  BY <1>1, <1>2, <1>3, SumsGrow

LEMMA LowerIndex ==
  ASSUME NEW x
  PROVE  Lower(x) = IndexOf(x, Added(x, All(x, 0)))
<1> DEFINE f == [d \in Active(x) |-> Share(x, d) * BasePoints(x, d)]
           g == [d \in Active(x) |-> Share(x, d) * (BasePoints(x, d) + Added(x, All(x, 0))[d])]
<1>1. Lower(x) = SumFunctionOnSet(f, Active(x))
  BY DEF Lower, Weighted, BasePoints
<1>2. IndexOf(x, Added(x, All(x, 0))) = SumFunctionOnSet(g, Active(x))
  BY DEF IndexOf, BasePoints
<1>3. \A d \in Active(x) : f[d] = g[d]
  <2>1. \A d \in Active(x) : Added(x, All(x, 0))[d] = 0 /\ BasePoints(x, d) \in Nat
    BY AddedIs, BaseIs
  <2> QED
    BY <2>1
<1> HIDE DEF f, g
<1> QED
  BY <1>1, <1>2, <1>3, Sets, SumsAgree

LEMMA UpperIndex ==
  ASSUME NEW x
  PROVE  Upper(x) = IndexOf(x, Added(x, All(x, 4)))
<1> DEFINE A == Active(x)
           rec(d) == SumFunctionOnSet([k \in Recorded(x) |-> 1], Within(d, Recorded(x)))
           top == Added(x, All(x, 4))
           w == Weights(x)
           lower == [d \in A |-> Share(x, d) * BasePoints(x, d)]
           cover == [d \in A |-> Share(x, d) * rec(d)]
           upper == [d \in A |-> Share(x, d) * (BasePoints(x, d) + top[d])]
           h == [d \in A |-> upper[d] + 100 * cover[d]]
<1>1. /\ Lower(x) = SumFunctionOnSet(lower, A) /\ Coverage(x) = SumFunctionOnSet(cover, A)
      /\ IndexOf(x, top) = SumFunctionOnSet(upper, A) /\ Total(x) = SumFunctionOnSet(w, A)
  BY DEF Lower, Coverage, Weighted, IndexOf, Total, BasePoints
<1>2. IsFiniteSet(A)
  BY Sets
<1>3. ASSUME NEW d \in A
      PROVE  /\ lower[d] \in Nat /\ cover[d] \in Nat /\ upper[d] \in Nat /\ w[d] \in Nat
             /\ h[d] = upper[d] + 100 * cover[d]
             /\ h[d] = lower[d] + 1200 * w[d]
  <2> DEFINE n == Cardinality(Within(d, Applicable(x)))
             r == Cardinality(Within(d, Recorded(x)))
             m == Cardinality(Within(d, Missing(x)))
             s == Share(x, d)
             b == BasePoints(x, d)
  <2>1. s \in Nat /\ n \in Nat /\ s * n = 12 * w[d] /\ w[d] \in Nat
    BY ShareIs, WeightsAre, Sets
  <2>2. r \in Nat /\ m \in Nat /\ n = r + m
    BY MissingWithin
  <2>3. b \in Nat /\ top[d] = 100 * m
    BY BaseIs, AddedIs
  <2>4. rec(d) = r
    <3>1. Within(d, Recorded(x)) \subseteq Recorded(x) /\ IsFiniteSet(Within(d, Recorded(x)))
      BY Sets, WithinIs
    <3> QED
      BY <3>1, SumOfOnes
  <2>5. lower[d] = s * b /\ cover[d] = s * r /\ upper[d] = s * (b + 100 * m)
        /\ h[d] = upper[d] + 100 * cover[d]
    BY <2>3, <2>4
  <2> HIDE DEF n, r, m, s, b, w, lower, cover, upper, h
  <2>6. s * (b + 100 * m) = s * b + 100 * (s * m) /\ s * b \in Nat /\ s * r \in Nat /\ s * m \in Nat
    BY <2>1, <2>2, <2>3
  <2>7. s * r + s * m = 12 * w[d]
    BY <2>1, <2>2
  <2>8. upper[d] \in Nat
    BY <2>5, <2>6
  <2> QED
    BY <2>1, <2>5, <2>6, <2>7, <2>8
<1> HIDE DEF A, lower, cover, upper, h, w, top
<1>4. SumFunctionOnSet(h, A) = SumFunctionOnSet(upper, A) + 100 * SumFunctionOnSet(cover, A)
  BY <1>2, <1>3, SumsCombine
<1>5. SumFunctionOnSet(h, A) = SumFunctionOnSet(lower, A) + 1200 * SumFunctionOnSet(w, A)
  BY <1>2, <1>3, SumsCombine
<1>6. /\ SumFunctionOnSet(upper, A) \in Nat /\ SumFunctionOnSet(cover, A) \in Nat
      /\ SumFunctionOnSet(lower, A) \in Nat /\ SumFunctionOnSet(w, A) \in Nat
  BY <1>2, <1>3, SumOfNats
<1>7. Upper(x) = Lower(x) + 100 * (12 * Total(x) - Coverage(x))
  BY DEF Upper, Scale
<1> QED
  BY <1>1, <1>4, <1>5, <1>6, <1>7 DEF top

LEMMA BoundsEncloseInput ==
  ASSUME NEW x, IsInput(x)
  PROVE  /\ \A f \in [Missing(x) -> Ratings] : /\ Lower(x) <= Lower(CompletedBy(x, f))
                                               /\ Lower(CompletedBy(x, f)) <= Upper(x)
         /\ Lower(x) = Lower(CompletedBy(x, All(x, 0)))
         /\ Upper(x) = Lower(CompletedBy(x, All(x, 4)))
<1>1. All(x, 0) \in [Missing(x) -> Ratings] /\ All(x, 4) \in [Missing(x) -> Ratings]
  BY DEF All, Ratings
<1>2. \A f \in [Missing(x) -> Ratings] : Lower(CompletedBy(x, f)) = IndexOf(x, Added(x, f))
  BY CompletedIndex
<1>3. ASSUME NEW f \in [Missing(x) -> Ratings]
      PROVE  /\ IndexOf(x, Added(x, All(x, 0))) <= IndexOf(x, Added(x, f))
             /\ IndexOf(x, Added(x, f)) <= IndexOf(x, Added(x, All(x, 4)))
  <2>1. \A d \in Active(x) :
          /\ Added(x, All(x, 0))[d] \in Nat /\ Added(x, f)[d] \in Nat /\ Added(x, All(x, 4))[d] \in Nat
          /\ Added(x, All(x, 0))[d] <= Added(x, f)[d] /\ Added(x, f)[d] <= Added(x, All(x, 4))[d]
    BY <1>1, AddedIs
  <2> QED
    BY <2>1, IndexGrows
<1> QED
  BY <1>1, <1>2, <1>3, LowerIndex, UpperIndex

\* For every rubric and every assessment, finished or not: the two bounds that
\* calculate() reports (rubric.py 125-150) are met by completions, and no
\* completion of the missing ratings falls outside them.
THEOREM BoundsAreTight == Improvements => []BoundsEnclose
<1>1. ASSUME IsInput(input)
      PROVE  BoundsEnclose
  <2> DEFINE indices == {Lower(CompletedBy(input, f)) : f \in [Missing(input) -> Ratings]}
  <2>1. All(input, 0) \in [Missing(input) -> Ratings] /\ All(input, 4) \in [Missing(input) -> Ratings]
    BY DEF All, Ratings
  <2>2. /\ \A i \in indices : Lower(input) <= i /\ i <= Upper(input)
        /\ {Lower(input), Upper(input)} \subseteq indices
    BY <1>1, <2>1, BoundsEncloseInput
  <2> QED
    BY <2>2 DEF BoundsEnclose, CompletedBy, Missing
<1> QED
  BY <1>1, AlwaysInput, PTL

-------------------------------------------------------------------------------
(* Improvements never step back *)

\* How far an assessment has come: the tests of the route that are passed with
\* all the tests before them.
NotHeld(x) == Held(x) = {}
Sound(x) == NotHeld(x) /\ Invalid(x) = {}
Whole(x) == Sound(x) /\ ~ Incomplete(x)
Checked(x) == Whole(x) /\ Unchecked(x) = {}
Revised(x) == Checked(x) /\ Majors(x) = {}
Strong(x) == Revised(x) /\ Weak(x) = {}
Done(x) == Strong(x) /\ Thresholds(x) = {}

\* y has passed at least the tests that x has.
NoWorse(x, y) ==
  /\ NotHeld(x) => NotHeld(y)
  /\ Sound(x) => Sound(y)
  /\ Whole(x) => Whole(y)
  /\ Checked(x) => Checked(y)
  /\ Revised(x) => Revised(y)
  /\ Strong(x) => Strong(y)
  /\ Done(x) => Done(y)

LEMMA StageOfRoute ==
  ASSUME NEW x, NEW i \in 1..8, Route(x) = Stages[i]
  PROVE  Stage(x) = i
<1>1. DOMAIN Stages = 1..8
  BY DEF Stages
<1>2. \A j \in 1..8 : Stages[j] = Stages[i] => j = i
  <2> SUFFICES ASSUME NEW j \in 1..8, Stages[j] = Stages[i]
               PROVE  j = i
    OBVIOUS
  <2>1. /\ Stages[1] = "hold_for_correction" /\ Stages[2] = "fix_assessment_inputs"
        /\ Stages[3] = "complete_assessment" /\ Stages[4] = "complete_critical_checks"
        /\ Stages[5] = "revise_major_issues" /\ Stages[6] = "revise_criterion_failures"
        /\ Stages[7] = "revise_or_expand_review" /\ Stages[8] = "awaiting_owner_approval"
    BY DEF Stages
  <2>2. i = 1 \/ i = 2 \/ i = 3 \/ i = 4 \/ i = 5 \/ i = 6 \/ i = 7 \/ i = 8
    OBVIOUS
  <2>3. j = 1 \/ j = 2 \/ j = 3 \/ j = 4 \/ j = 5 \/ j = 6 \/ j = 7 \/ j = 8
    OBVIOUS
  <2> QED
    BY <2>1, <2>2, <2>3
<1> HIDE DEF Stages
<1>3. Stage(x) = CHOOSE j \in 1..8 : Stages[j] = Stages[i]
  BY <1>1 DEF Stage
<1> QED
  BY <1>2, <1>3

LEMMA StageIs ==
  ASSUME NEW x
  PROVE  Stage(x) = IF ~ NotHeld(x) THEN 1 ELSE IF ~ Sound(x) THEN 2 ELSE IF ~ Whole(x) THEN 3
                    ELSE IF ~ Checked(x) THEN 4 ELSE IF ~ Revised(x) THEN 5
                    ELSE IF ~ Strong(x) THEN 6 ELSE IF ~ Done(x) THEN 7 ELSE 8
<1> DEFINE i == IF ~ NotHeld(x) THEN 1 ELSE IF ~ Sound(x) THEN 2 ELSE IF ~ Whole(x) THEN 3
                ELSE IF ~ Checked(x) THEN 4 ELSE IF ~ Revised(x) THEN 5
                ELSE IF ~ Strong(x) THEN 6 ELSE IF ~ Done(x) THEN 7 ELSE 8
<1>1. i \in 1..8
  OBVIOUS
<1>2. Route(x) = Stages[i]
  BY DEF Route, Stages, NotHeld, Sound, Whole, Checked, Revised, Strong, Done
<1> HIDE DEF i
<1>3. Stage(x) = i
  BY <1>1, <1>2, StageOfRoute
<1> QED
  BY <1>3 DEF i

LEMMA NoWorseStage ==
  ASSUME NEW x, NEW y, NoWorse(x, y)
  PROVE  Stage(x) <= Stage(y)
<1>1. /\ Sound(x) => NotHeld(x)
      /\ Whole(x) => Sound(x)
      /\ Checked(x) => Whole(x)
      /\ Revised(x) => Checked(x)
      /\ Strong(x) => Revised(x)
      /\ Done(x) => Strong(x)
  BY DEF Sound, Whole, Checked, Revised, Strong, Done
<1> QED
  BY <1>1, StageIs DEF NoWorse

\* What an improvement may change: a rating goes up, a gate is passed, findings
\* and gaps become fewer, one more examination is counted.
BetterItem(x, y, k) ==
  \/ y.items[k] = x.items[k]
  \/ /\ x.items[k].use = "applicable"
     /\ \E rating \in Ratings : /\ y.items[k] = RatedAt(rating)
                                /\ k \in Recorded(x) => rating > x.items[k].rating
BetterItems(x, y) ==
  /\ y.profile = x.profile /\ y.tier = x.tier /\ DOMAIN y.items = DOMAIN x.items
  /\ \A k \in Criteria : BetterItem(x, y, k)
BetterGates(x, y) ==
  /\ \A g \in Gates : y.gates[g] = x.gates[g] \/ y.gates[g] = "pass"
  /\ y.findings \subseteq x.findings
  /\ x.inventory => y.inventory
  /\ x.setup => y.setup
  /\ x.specialist => y.specialist
  /\ x.owner => y.owner
OneMore(x, y) ==
  \/ /\ y.completed = x.completed + 1 /\ 0 <= x.completed /\ x.completed < x.planned
     /\ y.criticalVerified = x.criticalVerified
  \/ /\ y.criticalVerified = x.criticalVerified + 1 /\ x.criticalVerified < x.criticalPlanned
     /\ x.criticalVerified < x.completed
     /\ y.completed = x.completed
BetterCounts(x, y) ==
  /\ y.planned = x.planned /\ y.criticalPlanned = x.criticalPlanned
  /\ \/ y.completed = x.completed /\ y.criticalVerified = x.criticalVerified
     \/ CountsKnown(x) /\ OneMore(x, y)
Better(x, y) == BetterItems(x, y) /\ BetterGates(x, y) /\ BetterCounts(x, y)

LEMMA ItemsImprove ==
  ASSUME NEW x, NEW y, IsInput(x), BetterItems(x, y)
  PROVE  /\ \A k \in Criteria : y.items[k].use = x.items[k].use
         /\ Applicable(y) = Applicable(x) /\ Recorded(x) \subseteq Recorded(y)
         /\ \A k \in Recorded(x) : x.items[k].rating <= y.items[k].rating
         /\ \A k \in Criteria : x.items[k].rating \in Ratings \cup {None}
                                  => y.items[k].rating \in Ratings \cup {None}
<1>1. ASSUME NEW k \in Criteria
      PROVE  /\ y.items[k].use = x.items[k].use
             /\ x.items[k].rating \in Ratings \cup {None} => y.items[k].rating \in Ratings \cup {None}
             /\ k \in Recorded(x) => /\ x.items[k].rating <= y.items[k].rating
                                     /\ y.items[k].rating \in Ratings /\ y.items[k].evidenced
  <2>1. k \in Recorded(x) => x.items[k].rating \in 0..4 /\ x.items[k].evidenced
    BY DEF Recorded, Ratings
  <2>2. CASE y.items[k] = x.items[k]
    BY <2>1, <2>2 DEF Ratings
  <2>3. CASE y.items[k] # x.items[k]
    <3>1. x.items[k].use = "applicable"
      BY <2>3 DEF BetterItems, BetterItem
    <3>2. PICK rating \in Ratings : /\ y.items[k] = RatedAt(rating)
                                    /\ k \in Recorded(x) => rating > x.items[k].rating
      BY <2>3 DEF BetterItems, BetterItem
    <3>3. y.items[k].use = "applicable" /\ y.items[k].rating = rating /\ y.items[k].evidenced = TRUE
      BY <3>2 DEF RatedAt
    <3>4. rating \in 0..4
      BY DEF Ratings
    <3> QED
      BY <2>1, <3>1, <3>2, <3>3, <3>4
  <2> QED
    BY <2>2, <2>3
<1>2. Applicable(y) = Applicable(x)
  BY <1>1 DEF Applicable
<1>3. Recorded(x) \subseteq Criteria
  BY Sets
<1>4. Recorded(x) \subseteq Recorded(y)
  BY <1>1, <1>2, <1>3 DEF Recorded
<1> QED
  BY <1>1, <1>2, <1>3, <1>4

LEMMA ScalesAgree ==
  ASSUME NEW x, NEW y, IsInput(x), BetterItems(x, y)
  PROVE  /\ Active(y) = Active(x) /\ Weights(y) = Weights(x) /\ Floors(y) = Floors(x)
         /\ Total(y) = Total(x) /\ Scale(y) = Scale(x)
         /\ Rated(x) => Rated(y) /\ Recorded(y) = Recorded(x)
<1>1. Applicable(y) = Applicable(x) /\ Recorded(x) \subseteq Recorded(y)
  BY ItemsImprove
<1>2. Active(y) = Active(x)
  BY <1>1 DEF Active
<1>3. Weights(y) = Weights(x) /\ Floors(y) = Floors(x)
  BY DEF Weights, Floors, BetterItems
<1>4. Total(y) = Total(x) /\ Scale(y) = Scale(x)
  BY <1>2, <1>3 DEF Total, Scale
<1>5. Rated(x) => Rated(y) /\ Recorded(y) = Recorded(x)
  BY <1>1, Sets DEF Rated
<1> QED
  BY <1>2, <1>3, <1>4, <1>5

\* Higher ratings of the same criteria: more points in every set of them.
LEMMA PointsGrow ==
  ASSUME NEW x, NEW y, IsInput(x), BetterItems(x, y), Rated(x), NEW keys, keys \subseteq Recorded(x),
         NEW part \in SUBSET keys
  PROVE  SumFunctionOnSet(Points(x, keys), part) <= SumFunctionOnSet(Points(y, keys), part)
<1> DEFINE f == Points(x, keys)
           g == Points(y, keys)
<1>1. IsFiniteSet(part)
  BY Sets, FS_Subset
<1>2. keys \subseteq Recorded(y)
  BY ScalesAgree
<1>3. ASSUME NEW k \in part
      PROVE  f[k] \in Nat /\ g[k] \in Nat /\ f[k] <= g[k]
  <2>1. k \in keys /\ k \in Recorded(x)
    OBVIOUS
  <2>2. f[k] = 25 * x.items[k].rating /\ f[k] \in Nat /\ x.items[k].rating \in 0..4
    BY <2>1, PointsAre
  <2>3. g[k] = 25 * y.items[k].rating /\ g[k] \in Nat /\ y.items[k].rating \in 0..4
    BY <1>2, <2>1, PointsAre
  <2>4. x.items[k].rating <= y.items[k].rating
    BY <2>1, ItemsImprove
  <2> HIDE DEF f, g
  <2> QED
    BY <2>2, <2>3, <2>4
<1> HIDE DEF f, g
<1>4. SumFunctionOnSet(f, part) <= SumFunctionOnSet(g, part)
  BY <1>1, <1>3, SumsGrow
<1> QED
  BY <1>4 DEF f, g

LEMMA LowerGrows ==
  ASSUME NEW x, NEW y, IsInput(x), BetterItems(x, y), Rated(x)
  PROVE  Lower(x) <= Lower(y)
<1> DEFINE f == [d \in Active(x) |-> Share(x, d) * BasePoints(x, d)]
           g == [d \in Active(y) |-> Share(y, d) * BasePoints(y, d)]
<1>1. Lower(x) = SumFunctionOnSet(f, Active(x)) /\ Lower(y) = SumFunctionOnSet(g, Active(y))
  BY DEF Lower, Weighted, BasePoints
<1>2. Active(y) = Active(x) /\ Weights(y) = Weights(x) /\ Recorded(y) = Recorded(x)
      /\ Applicable(y) = Applicable(x)
  BY ScalesAgree, ItemsImprove
<1>3. ASSUME NEW d \in Active(x)
      PROVE  f[d] \in Nat /\ g[d] \in Nat /\ f[d] <= g[d]
  <2>1. Share(y, d) = Share(x, d) /\ Share(x, d) \in Nat
    BY <1>2, ShareIs DEF Share
  <2>2. BasePoints(x, d) \in Nat /\ BasePoints(y, d) \in Nat
    BY <1>2, BaseIs
  <2>3. BasePoints(x, d) <= BasePoints(y, d)
    <3>1. Within(d, Recorded(x)) \in SUBSET Recorded(x)
      BY DEF Within
    <3> QED
      BY <1>2, <3>1, PointsGrow DEF BasePoints
  <2>4. f[d] = Share(x, d) * BasePoints(x, d) /\ g[d] = Share(y, d) * BasePoints(y, d)
    BY <1>2
  <2> HIDE DEF f, g
  <2> QED
    BY <2>1, <2>2, <2>3, <2>4, Times
<1> HIDE DEF f, g
<1>4. IsFiniteSet(Active(x))
  BY Sets
<1>5. SumFunctionOnSet(f, Active(x)) <= SumFunctionOnSet(g, Active(x))
  BY <1>3, <1>4, SumsGrow
<1> QED
  BY <1>1, <1>2, <1>5

LEMMA DimensionGrows ==
  ASSUME NEW x, NEW y, IsInput(x), BetterItems(x, y), Rated(x),
         NEW d \in Active(x), ~ LowDimension(x, d)
  PROVE  ~ LowDimension(y, d)
<1> DEFINE keys == Within(d, Applicable(x))
           floor == DimensionFloor(x, d)
<1>1. Applicable(y) = Applicable(x) /\ Floors(y) = Floors(x)
  BY ScalesAgree, ItemsImprove
<1>2. DimensionFloor(y, d) = floor
  BY <1>1 DEF DimensionFloor
<1>3. keys \subseteq Recorded(x) /\ keys \subseteq Recorded(y) /\ IsFiniteSet(keys)
  <2>1. keys \subseteq Applicable(x)
    BY DEF Within
  <2>2. IsFiniteSet(keys)
    BY <2>1, Sets, FS_Subset
  <2> QED
    BY <1>1, <2>1, <2>2, ScalesAgree DEF Rated
<1> DEFINE n == Cardinality(keys)
           p == SumFunctionOnSet(Points(x, keys), keys)
           q == SumFunctionOnSet(Points(y, keys), keys)
<1>4. p \in Nat /\ q \in Nat
  BY <1>3, PointsAre
<1>5. p <= q
  <2> HIDE DEF keys
  <2> QED
    BY <1>3, PointsGrow
<1>6. floor * n \in Nat
  <2>1. floor \in Nat
    BY FloorsAre DEF DimensionFloor
  <2>2. n \in Nat
    BY <1>3, FS_CardinalityType
  <2> HIDE DEF floor, n
  <2> QED
    BY <2>1, <2>2, Times
<1>7. LowDimension(x, d) <=> p < floor * n
  BY <1>3 DEF LowDimension
<1>8. LowDimension(y, d) <=> q < floor * n
  BY <1>1, <1>2, <1>3 DEF LowDimension
<1> HIDE DEF p, q, floor, n
<1> QED
  BY <1>4, <1>5, <1>6, <1>7, <1>8

LEMMA GatesImprove ==
  ASSUME NEW x, NEW y, BetterGates(x, y), NEW g \in Gates
  PROVE  /\ EffectiveGate(x, g) # "fail" => EffectiveGate(y, g) # "fail"
         /\ g # "R7" /\ EffectiveGate(x, g) # "unknown" => EffectiveGate(y, g) # "unknown"
<1>1. (y.gates[g] = x.gates[g] \/ y.gates[g] = "pass") /\ (x.owner => y.owner)
  BY DEF BetterGates
<1>2. CASE g # "R7"
  BY <1>1, <1>2 DEF EffectiveGate, Judgements
<1>3. CASE g = "R7"
  BY <1>1, <1>3 DEF EffectiveGate, Judgements
<1> QED
  BY <1>2, <1>3

LEMMA HeldImproves ==
  ASSUME NEW x, NEW y, BetterGates(x, y), NotHeld(x)
  PROVE  NotHeld(y)
<1>1. "critical" \notin y.findings
  BY HeldIs DEF NotHeld, BetterGates
<1> QED
  BY <1>1, HeldIs, GatesImprove DEF NotHeld

\* The counts stay numbers that do not contradict each other.
CountsSound(x) ==
  /\ x.planned # None => ~ (x.planned < 0)
  /\ x.completed # None => ~ (x.completed < 0)
  /\ x.criticalPlanned # None => ~ (x.criticalPlanned < 0)
  /\ x.criticalVerified # None => ~ (x.criticalVerified < 0)
  /\ x.planned # 0
  /\ ~ (CountsKnown(x) /\ BadCounts(x))

LEMMA CountsImprove ==
  ASSUME NEW x, NEW y, IsInput(x), BetterCounts(x, y)
  PROVE  /\ CountsKnown(x) => CountsKnown(y)
         /\ CountsSound(x) => CountsSound(y)
<1>1. /\ CountsKnown(x) <=> CountNames(x)
      /\ CountsKnown(y) <=> CountNames(y)
  BY CountsAre
<1>2. CASE y.completed = x.completed /\ y.criticalVerified = x.criticalVerified
  BY <1>1, <1>2 DEF BetterCounts, CountsSound, CountNames, BadCounts
<1>3. CASE CountsKnown(x) /\ OneMore(x, y)
  <2>1. /\ x.planned \in Int /\ x.completed \in Int
        /\ x.criticalPlanned \in Int /\ x.criticalVerified \in Int
    BY <1>1, <1>3, InputFields DEF CountNames
  <2>2. y.planned = x.planned /\ y.criticalPlanned = x.criticalPlanned
    BY DEF BetterCounts
  <2>3. y.completed \in Int /\ y.criticalVerified \in Int
    BY <1>3, <2>1 DEF OneMore
  <2>4. CountNames(y)
    BY <2>1, <2>2, <2>3, NoneAssumption DEF CountNames
  <2>5. ASSUME CountsSound(x)
        PROVE  CountsSound(y)
    <3>1. CASE y.completed = x.completed + 1
      BY <1>1, <1>3, <2>1, <2>2, <2>3, <2>4, <2>5, <3>1 DEF CountsSound, BadCounts, OneMore, CountNames
    <3>2. CASE y.criticalVerified = x.criticalVerified + 1
      BY <1>1, <1>3, <2>1, <2>2, <2>3, <2>4, <2>5, <3>2 DEF CountsSound, BadCounts, OneMore, CountNames
    <3> QED
      BY <1>3, <3>1, <3>2 DEF OneMore
  <2> QED
    BY <1>1, <2>4, <2>5
<1> QED
  BY <1>2, <1>3 DEF BetterCounts

LEMMA ValidSplit ==
  ASSUME NEW x
  PROVE  Valid(x) <=>
           /\ x.profile \in DOMAIN Profiles /\ x.tier \in DOMAIN Tiers /\ x.setup
           /\ DOMAIN x.items \subseteq Criteria /\ CountsSound(x)
           /\ \A k \in Criteria : x.items[k].use # "claimed" /\ x.items[k].use # "odd"
           /\ \A k \in Applicable(x) : x.items[k].rating \in Ratings \cup {None}
BY CountsAre DEF Valid, CountsSound

LEMMA ValidImproves ==
  ASSUME NEW x, NEW y, IsInput(x), Better(x, y), Invalid(x) = {}
  PROVE  Invalid(y) = {}
<1>1. Valid(x)
  BY ValidIs
<1>2. BetterItems(x, y) /\ BetterGates(x, y) /\ BetterCounts(x, y)
  BY DEF Better
<1>3. CountsSound(y)
  BY <1>1, <1>2, ValidSplit, CountsImprove
<1>4. y.profile \in DOMAIN Profiles /\ y.tier \in DOMAIN Tiers /\ y.setup
      /\ DOMAIN y.items \subseteq Criteria
  BY <1>1, <1>2, ValidSplit DEF BetterItems, BetterGates
<1>5. \A k \in Criteria : y.items[k].use # "claimed" /\ y.items[k].use # "odd"
  BY <1>1, <1>2, ItemsImprove DEF Valid
<1>6. \A k \in Applicable(y) : y.items[k].rating \in Ratings \cup {None}
  BY <1>1, <1>2, ItemsImprove, Sets DEF Valid
<1> QED
  BY <1>3, <1>4, <1>5, <1>6, ValidSplit, ValidIs

LEMMA WholeImproves ==
  ASSUME NEW x, NEW y, IsInput(x), Better(x, y), Whole(x)
  PROVE  Whole(y) /\ HasPoint(y) /\ UnitsKnown(y)
<1>1. /\ NotHeld(x) /\ Invalid(x) = {} /\ HasPoint(x) /\ UnitsKnown(x)
      /\ BetterItems(x, y) /\ BetterGates(x, y) /\ BetterCounts(x, y)
  BY DEF Whole, Sound, Incomplete, Better
<1>2. NotHeld(y) /\ Invalid(y) = {}
  BY <1>1, HeldImproves, ValidImproves
<1>3. HasPoint(y)
  BY <1>1, <1>2, ScalesAgree DEF HasPoint
<1>4. UnitsKnown(y)
  BY <1>1, <1>2, CountsImprove DEF UnitsKnown, BetterCounts, BetterGates
<1> QED
  BY <1>2, <1>3, <1>4 DEF Whole, Sound, Incomplete

LEMMA CheckedImproves ==
  ASSUME NEW x, NEW y, IsInput(x), Better(x, y), Checked(x)
  PROVE  Checked(y)
<1>1. Whole(x) /\ Unchecked(x) = {} /\ BetterItems(x, y) /\ BetterGates(x, y) /\ BetterCounts(x, y)
  BY DEF Checked, Better
<1>2. x.criticalPlanned = x.criticalVerified /\ None \notin {x.criticalPlanned, x.criticalVerified}
  BY <1>1, UncheckedIs
<1>3. x.criticalPlanned \in Int /\ x.criticalVerified \in Int
  BY <1>2, InputFields
<1>4. y.criticalPlanned = x.criticalPlanned /\ y.criticalVerified = x.criticalVerified
  BY <1>1, <1>2, <1>3 DEF BetterCounts, OneMore
<1>5. \A g \in Gates \ {"R7"} : EffectiveGate(y, g) # "unknown"
  BY <1>1, UncheckedIs, GatesImprove
<1>6. y.tier = "High" => y.specialist
  BY <1>1, UncheckedIs DEF BetterItems, BetterGates
<1>7. Unchecked(y) = {}
  BY <1>2, <1>4, <1>5, <1>6, UncheckedIs
<1> QED
  BY <1>1, <1>7, WholeImproves DEF Checked

LEMMA RevisedImproves ==
  ASSUME NEW x, NEW y, IsInput(x), Better(x, y), Revised(x)
  PROVE  Revised(y)
<1>1. Checked(x) /\ "major" \notin x.findings
  BY MajorsAndWeakAre DEF Revised
<1>2. "major" \notin y.findings
  BY <1>1 DEF Better, BetterGates
<1> QED
  BY <1>1, <1>2, CheckedImproves, MajorsAndWeakAre DEF Revised

LEMMA RatedWhenWhole ==
  ASSUME NEW x, Strong(x)
  PROVE  Rated(x) /\ LowCriteria(x) = {} /\ Whole(x) /\ HasPoint(x) /\ UnitsKnown(x)
BY MajorsAndWeakAre DEF Strong, Revised, Checked, Whole, Incomplete, HasPoint

LEMMA StrongImproves ==
  ASSUME NEW x, NEW y, IsInput(x), Better(x, y), Strong(x)
  PROVE  Strong(y)
<1>1. Rated(x) /\ LowCriteria(x) = {} /\ BetterItems(x, y)
  BY RatedWhenWhole DEF Better
<1>2. Recorded(y) = Recorded(x)
  BY <1>1, ScalesAgree
<1>3. ASSUME NEW k \in LowCriteria(y)
      PROVE  FALSE
  <2>1. k \in Recorded(y) /\ k \in Recorded(x) /\ y.items[k].rating < 3
    BY <1>2, <1>3 DEF LowCriteria
  <2>2. x.items[k].rating \in 0..4 /\ y.items[k].rating \in 0..4
    BY <2>1 DEF Recorded, Ratings
  <2>3. x.items[k].rating <= y.items[k].rating
    BY <1>1, <2>1, ItemsImprove
  <2>4. ~ (x.items[k].rating < 3)
    BY <1>1, <2>1 DEF LowCriteria
  <2> QED
    BY <2>1, <2>2, <2>3, <2>4
<1>4. Weak(y) = {}
  BY <1>3, MajorsAndWeakAre
<1> QED
  BY <1>4, RevisedImproves DEF Strong

LEMMA DoneImproves ==
  ASSUME NEW x, NEW y, IsInput(x), Better(x, y), Done(x)
  PROVE  Done(y)
<1>1. /\ Strong(x) /\ ~ LowIndex(x) /\ ~ LowCoverage(x)
      /\ \A d \in Active(x) : ~ LowDimension(x, d)
  BY ThresholdsAre DEF Done
<1>2. Rated(x) /\ Whole(x) /\ HasPoint(x) /\ UnitsKnown(x)
      /\ BetterItems(x, y) /\ BetterCounts(x, y)
  BY <1>1, RatedWhenWhole DEF Better
<1>3. Active(y) = Active(x) /\ Scale(y) = Scale(x) /\ Floors(y) = Floors(x)
  BY <1>2, ScalesAgree
<1>4. ~ LowIndex(y)
  <2>1. Lower(x) \in Nat /\ Lower(y) \in Nat /\ Lower(x) <= Lower(y)
    BY <1>2, LowerIs, LowerGrows
  <2>2. Floors(x).index * Scale(x) \in Nat
    <3>1. Floors(x).index \in Nat /\ Scale(x) \in Nat
      BY FloorsAre, TotalIs DEF Scale
    <3> QED
      BY <3>1, Times
  <2>3. ~ (Lower(x) < Floors(x).index * Scale(x))
    BY <1>1, <1>2 DEF LowIndex
  <2>4. \A i, j, k \in Nat : ~ (i < k) /\ i <= j => ~ (j < k)
    OBVIOUS
  <2>5. ~ (Lower(y) < Floors(x).index * Scale(x))
    BY <2>1, <2>2, <2>3, <2>4
  <2> QED
    BY <1>3, <2>5 DEF LowIndex
<1>5. ~ LowCoverage(y)
  <2>1. x.completed \in Int /\ x.planned \in Nat
    BY <1>2, CountsAre, InputFields DEF UnitsKnown, CountNames
  <2>2. y.planned = x.planned /\ y.completed \in Int /\ x.completed <= y.completed
    BY <1>2, <2>1 DEF BetterCounts, OneMore
  <2>3. Floors(x).units * x.planned \in Nat
    BY <2>1, FloorsAre, Times
  <2>4. ~ (100 * x.completed < Floors(x).units * x.planned)
    BY <1>1, <1>2 DEF LowCoverage
  <2>5. \A i, j, k \in Int : ~ (100 * i < k) /\ i <= j => ~ (100 * j < k)
    OBVIOUS
  <2>6. ~ (100 * y.completed < Floors(x).units * x.planned)
    BY <2>1, <2>2, <2>3, <2>4, <2>5
  <2> QED
    BY <1>3, <2>2, <2>6 DEF LowCoverage
<1>6. \A d \in Active(y) : ~ LowDimension(y, d)
  BY <1>1, <1>2, <1>3, DimensionGrows
<1>7. Thresholds(y) = {}
  BY <1>4, <1>5, <1>6, ThresholdsAre
<1> QED
  BY <1>1, <1>7, StrongImproves DEF Done

LEMMA BetterIsNoWorse ==
  ASSUME NEW x, NEW y, IsInput(x), Better(x, y)
  PROVE  NoWorse(x, y)
<1>1. NotHeld(x) => NotHeld(y)
  BY HeldImproves DEF Better
<1>2. Sound(x) => Sound(y)
  BY HeldImproves, ValidImproves DEF Sound, Better
<1> QED
  BY <1>1, <1>2, WholeImproves, CheckedImproves, RevisedImproves, StrongImproves, DoneImproves
  DEF NoWorse

LEMMA StepIsBetter ==
  ASSUME IsInput(input), Improve
  PROVE  Better(input, input')
<1> DEFINE x == input
           y == input'
<1>1. x \in InputOf(x.items) /\ Criteria \subseteq DOMAIN x.items
      /\ x.items \in [DOMAIN x.items -> ItemEntry]
  BY DEF IsInput
<1>2. ASSUME NEW k \in Criteria, Rate(k)
      PROVE  Better(x, y)
  <2>1. PICK rating \in Ratings : /\ x.items[k].use = "applicable"
                                  /\ k \in Recorded(x) => rating > x.items[k].rating
                                  /\ y = [x EXCEPT !.items[k] = RatedAt(rating)]
    BY <1>2 DEF Rate, RatedAt
  <2>2. y.items = [x.items EXCEPT ![k] = RatedAt(rating)] /\ y = [x EXCEPT !.items = y.items]
    BY <2>1, RateKeepsInput
  <2> HIDE DEF x, y
  <2>3. /\ y.profile = x.profile /\ y.tier = x.tier /\ y.gates = x.gates /\ y.findings = x.findings
        /\ y.planned = x.planned /\ y.completed = x.completed
        /\ y.criticalPlanned = x.criticalPlanned /\ y.criticalVerified = x.criticalVerified
        /\ y.inventory = x.inventory /\ y.setup = x.setup
        /\ y.specialist = x.specialist /\ y.owner = x.owner
    BY <1>1, <2>2 DEF InputOf
  <2>4. \A j \in Criteria : BetterItem(x, y, j)
    BY <1>1, <2>1, <2>2 DEF BetterItem
  <2>5. DOMAIN y.items = DOMAIN x.items
    BY <2>2
  <2> QED
    BY <2>3, <2>4, <2>5 DEF Better, BetterItems, BetterGates, BetterCounts
<1>3. ASSUME y.items = x.items, y.profile = x.profile, y.tier = x.tier
      PROVE  BetterItems(x, y)
  BY <1>3 DEF BetterItems, BetterItem
<1>4. ASSUME y.items = x.items, y.profile = x.profile, y.tier = x.tier, BetterGates(x, y),
             y.planned = x.planned, y.completed = x.completed,
             y.criticalPlanned = x.criticalPlanned, y.criticalVerified = x.criticalVerified
      PROVE  Better(x, y)
  BY <1>3, <1>4 DEF Better, BetterCounts
<1>5. ASSUME NEW g \in Gates, PassGate(g)
      PROVE  Better(x, y)
  <2>1. y = [x EXCEPT !.gates[g] = "pass"]
    BY <1>5 DEF PassGate
  <2> HIDE DEF x, y
  <2>2. y.gates = [x.gates EXCEPT ![g] = "pass"] /\ DOMAIN x.gates = Gates
    BY <1>1, <2>1 DEF InputOf
  <2>3. BetterGates(x, y)
    BY <1>1, <2>1, <2>2 DEF BetterGates, InputOf
  <2> QED
    BY <1>1, <1>4, <2>1, <2>3 DEF InputOf
<1>6. ASSUME NEW f \in {"critical", "major"}, CloseFinding(f)
      PROVE  Better(x, y)
  <2>1. y = [x EXCEPT !.findings = @ \ {f}]
    BY <1>6 DEF CloseFinding
  <2> HIDE DEF x, y
  <2>2. BetterGates(x, y)
    BY <1>1, <2>1 DEF BetterGates, InputOf
  <2> QED
    BY <1>1, <1>4, <2>1, <2>2 DEF InputOf
<1>7. ASSUME NEW flag \in {"inventory", "setup", "specialist", "owner"}, Obtain(flag)
      PROVE  Better(x, y)
  <2>1. y = [x EXCEPT ![flag] = TRUE]
    BY <1>7 DEF Obtain
  <2> HIDE DEF x, y
  <2>2. BetterGates(x, y) /\ y.items = x.items /\ y.profile = x.profile /\ y.tier = x.tier
        /\ y.planned = x.planned /\ y.completed = x.completed
        /\ y.criticalPlanned = x.criticalPlanned /\ y.criticalVerified = x.criticalVerified
    <3>1. CASE flag = "inventory"
      BY <1>1, <2>1, <3>1 DEF InputOf, BetterGates
    <3>2. CASE flag = "setup"
      BY <1>1, <2>1, <3>2 DEF InputOf, BetterGates
    <3>3. CASE flag = "specialist"
      BY <1>1, <2>1, <3>3 DEF InputOf, BetterGates
    <3>4. CASE flag = "owner"
      BY <1>1, <2>1, <3>4 DEF InputOf, BetterGates
    <3> QED
      BY <3>1, <3>2, <3>3, <3>4
  <2> QED
    BY <1>4, <2>2
<1>8. ASSUME y.items = x.items, y.profile = x.profile, y.tier = x.tier, y.gates = x.gates,
             y.findings = x.findings, y.inventory = x.inventory, y.setup = x.setup,
             y.specialist = x.specialist, y.owner = x.owner, BetterCounts(x, y)
      PROVE  Better(x, y)
  BY <1>3, <1>8 DEF Better, BetterGates
<1>9. ASSUME Examine
      PROVE  Better(x, y)
  <2>1. /\ y = [x EXCEPT !.completed = @ + 1]
        /\ CountsKnown(x) /\ 0 <= x.completed /\ x.completed < x.planned
    BY <1>9 DEF Examine
  <2> HIDE DEF x, y
  <2>2. BetterCounts(x, y)
    BY <1>1, <2>1 DEF InputOf, BetterCounts, OneMore
  <2> QED
    BY <1>1, <1>8, <2>1, <2>2 DEF InputOf
<1>10. ASSUME CheckCritical
       PROVE  Better(x, y)
  <2>1. /\ y = [x EXCEPT !.criticalVerified = @ + 1]
        /\ CountsKnown(x) /\ x.criticalVerified < x.criticalPlanned
        /\ x.criticalVerified < x.completed
    BY <1>10 DEF CheckCritical
  <2> HIDE DEF x, y
  <2>2. BetterCounts(x, y)
    BY <1>1, <2>1 DEF InputOf, BetterCounts, OneMore
  <2> QED
    BY <1>1, <1>8, <2>1, <2>2 DEF InputOf
<1> QED
  BY <1>2, <1>5, <1>6, <1>7, <1>9, <1>10 DEF Improve

\* Whatever the rubric: a better judgement, a closed finding, another
\* examination or an approval never moves the route of rubric.py 181-206 back,
\* from any input and however many improvements came before.
THEOREM ImprovementMovesForward == Improvements => ImprovementNeverStepsBack
<1>1. IsInput(input) /\ [Improve]_input => [Stage(input) <= Stage(input')]_input
  <2>1. CASE Improve
    BY <2>1, StepIsBetter, BetterIsNoWorse, NoWorseStage
  <2>2. CASE UNCHANGED input
    BY <2>2
  <2> QED
    BY <2>1, <2>2
<1> QED
  BY <1>1, AlwaysInput, PTL DEF Improvements, ImprovementNeverStepsBack
===============================================================================
