------------------------------ MODULE SumProofs ------------------------------
(***************************************************************************)
(* Induction over the naturals as a set, and what the SumFunction of the   *)
(* community modules returns: the models count bytes and connections with  *)
(* it.  It adds the values in an order chosen for each set; IterAny shows  *)
(* that the order does not matter.                                         *)
(***************************************************************************)
EXTENDS Integers, Functions, FiniteSetTheorems, TLAPS

\* Every non-empty set of naturals has a least element.  With it, induction is
\* an ordinary first-order step.
LEMMA LeastNat ==
  ASSUME NEW T, T \subseteq Nat, T # {}
  PROVE  \E m \in T : \A k \in T : m <= k
<1> DEFINE F == {0..n : n \in T}
           R == StrictSubsetOrdering(Nat)
<1>1. IsWellFoundedOn(R, FiniteSubsetsOf(Nat))
  BY FS_StrictSubsetOrderingWellFounded
<1>2. F \subseteq FiniteSubsetsOf(Nat)
  <2>1. ASSUME NEW n \in T PROVE IsFiniteSet(0..n) /\ 0..n \subseteq Nat
    BY FS_Interval
  <2> QED BY <2>1 DEF FiniteSubsetsOf
<1>3. F # {}
  OBVIOUS
<1> HIDE DEF F, R
<1>4. PICK x \in F : \A y \in F : ~ (<<y, x>> \in R)
  BY <1>1, <1>2, <1>3, WFMin
<1>5. PICK m \in T : x = 0..m
  BY DEF F
<1>6. ASSUME NEW k \in T, k < m PROVE FALSE
  <2>1. 0..k \in F
    BY DEF F
  <2>2. 0..k \in FiniteSubsetsOf(Nat) /\ 0..m \in FiniteSubsetsOf(Nat)
    BY <2>1, <1>2, <1>5
  <2>3. 0..k \subseteq 0..m /\ m \in 0..m /\ m \notin 0..k
    BY <1>6
  <2>4. <<0..k, 0..m>> \in R
    BY <2>2, <2>3 DEF R, StrictSubsetOrdering
  <2> QED BY <2>1, <2>4, <1>4, <1>5
<1> QED BY <1>6

\* Induction over the naturals, stated for a set: the form every lemma about a
\* recursive definition below uses.
LEMMA NatSetInduction ==
  ASSUME NEW S, 0 \in S, \A n \in Nat : n \in S => n + 1 \in S
  PROVE  \A n \in Nat : n \in S
<1> DEFINE T == {n \in Nat : n \notin S}
<1> SUFFICES ASSUME T # {} PROVE FALSE
  OBVIOUS
<1>1. PICK m \in T : \A k \in T : m <= k
  BY LeastNat
<1>2. m # 0
  OBVIOUS
<1>3. m - 1 \in Nat /\ m - 1 \notin T
  BY <1>1, <1>2
<1> QED BY <1>3

-----------------------------------------------------------------------------
\* The recursion that SumFunction unfolds to.
Chosen(s) == CHOOSE x \in s : TRUE

Iter(f) ==
    CHOOSE g : g = [s \in SUBSET (DOMAIN f) |->
                      IF s = {} THEN 0 ELSE f[Chosen(s)] + g[s \ {Chosen(s)}]]

LEMMA SumIsIter ==
  ASSUME NEW f
  PROVE  SumFunction(f) = Iter(f)[DOMAIN f]
  BY DEF SumFunction, SumFunctionOnSet, FoldFunctionOnSet, MapThenFoldSet, Iter, Chosen

\* One element less.
LEMMA Smaller ==
  ASSUME NEW s, IsFiniteSet(s), NEW x \in s
  PROVE  /\ IsFiniteSet(s \ {x})
         /\ Cardinality(s) \in Nat /\ Cardinality(s \ {x}) \in Nat
         /\ Cardinality(s) = Cardinality(s \ {x}) + 1
<1>1. IsFiniteSet(s \ {x}) /\ Cardinality(s \ {x}) = Cardinality(s) - 1
  BY FS_RemoveElement
<1>2. Cardinality(s) \in Nat /\ Cardinality(s \ {x}) \in Nat
  BY <1>1, FS_CardinalityType
<1> QED BY <1>1, <1>2

\* The recursion has a solution when the domain is finite.
LEMMA IterDef ==
  ASSUME NEW f, IsFiniteSet(DOMAIN f)
  PROVE  Iter(f) = [s \in SUBSET (DOMAIN f) |->
                      IF s = {} THEN 0 ELSE f[Chosen(s)] + Iter(f)[s \ {Chosen(s)}]]
<1> DEFINE D == DOMAIN f
           Sub(n) == {s \in SUBSET D : Cardinality(s) <= n}
           Fits(g, n) == g = [s \in Sub(n) |->
                                IF s = {} THEN 0 ELSE f[Chosen(s)] + g[s \ {Chosen(s)}]]
           S == {n \in Nat : \E g : Fits(g, n)}
<1>0. ASSUME NEW s \in SUBSET D
      PROVE  IsFiniteSet(s) /\ Cardinality(s) \in Nat /\ Cardinality(s) <= Cardinality(D)
  BY FS_Subset, FS_CardinalityType
<1>1. ASSUME NEW n \in Nat, NEW s \in Sub(n + 1), s # {}
      PROVE  s \ {Chosen(s)} \in Sub(n)
  <2>1. IsFiniteSet(s) /\ Chosen(s) \in s
    BY <1>0, <1>1 DEF Chosen
  <2>2. Cardinality(s \ {Chosen(s)}) \in Nat /\ Cardinality(s) = Cardinality(s \ {Chosen(s)}) + 1
    BY <2>1, Smaller
  <2> QED BY <2>2
<1>2. 0 \in S
  <2>1. \A s \in Sub(0) : s = {}
    BY <1>0, FS_EmptySet
  <2>2. Fits([s \in Sub(0) |-> 0], 0)
    BY <2>1
  <2> QED BY <2>2
<1>3. ASSUME NEW n \in Nat, n \in S PROVE n + 1 \in S
  <2>1. PICK g : Fits(g, n)
    BY <1>3
  <2> DEFINE h == [s \in Sub(n + 1) |->
                     IF s = {} THEN 0 ELSE f[Chosen(s)] + g[s \ {Chosen(s)}]]
  <2>2. \A s \in Sub(n) : h[s] = g[s]
    <3>1. \A s \in Sub(n) : s \in Sub(n + 1)
      BY <1>0
    <3>2. \A s \in Sub(n) : g[s] = IF s = {} THEN 0 ELSE f[Chosen(s)] + g[s \ {Chosen(s)}]
      BY <2>1
    <3> QED BY <3>1, <3>2
  <2>3. \A s \in Sub(n + 1) : s # {} => h[s \ {Chosen(s)}] = g[s \ {Chosen(s)}]
    BY <2>2, <1>1
  <2>4. Fits(h, n + 1)
    BY <2>3
  <2> HIDE DEF h, Fits
  <2> QED BY <2>4
<1>4. \A n \in Nat : n \in S
  <2> HIDE DEF S
  <2> QED BY <1>2, <1>3, NatSetInduction
<1>5. PICK g : Fits(g, Cardinality(D))
  BY <1>0, <1>4
<1>6. Sub(Cardinality(D)) = SUBSET D
  BY <1>0
<1>7. g = [s \in SUBSET D |-> IF s = {} THEN 0 ELSE f[Chosen(s)] + g[s \ {Chosen(s)}]]
  BY <1>5, <1>6
<1> QED BY <1>7 DEF Iter

LEMMA IterStep ==
  ASSUME NEW f, IsFiniteSet(DOMAIN f)
  PROVE  /\ Iter(f)[{}] = 0
         /\ \A s \in SUBSET (DOMAIN f) : s # {} =>
              Iter(f)[s] = f[Chosen(s)] + Iter(f)[s \ {Chosen(s)}]
  BY IterDef

\* Sums of naturals are naturals.
LEMMA IterType ==
  ASSUME NEW D, IsFiniteSet(D), NEW f \in [D -> Nat]
  PROVE  \A s \in SUBSET D : Iter(f)[s] \in Nat
<1> DEFINE S == {n \in Nat : \A s \in SUBSET D : Cardinality(s) = n => Iter(f)[s] \in Nat}
<1>0. \A s \in SUBSET D : IsFiniteSet(s) /\ Cardinality(s) \in Nat
  BY FS_Subset, FS_CardinalityType
<1>1. 0 \in S
  BY <1>0, FS_EmptySet, IterStep
<1>2. ASSUME NEW n \in Nat, n \in S PROVE n + 1 \in S
  <2> SUFFICES ASSUME NEW s \in SUBSET D, Cardinality(s) = n + 1
               PROVE  Iter(f)[s] \in Nat
    OBVIOUS
  <2>1. s # {}
    BY FS_EmptySet
  <2>2. Chosen(s) \in s
    BY <2>1 DEF Chosen
  <2>3. Cardinality(s \ {Chosen(s)}) = n
    BY <1>0, <2>2, Smaller
  <2>4. Iter(f)[s \ {Chosen(s)}] \in Nat
    BY <1>2, <2>3
  <2>5. Iter(f)[s] = f[Chosen(s)] + Iter(f)[s \ {Chosen(s)}]
    BY <2>1, IterStep
  <2> QED BY <2>2, <2>4, <2>5
<1>3. \A n \in Nat : n \in S
  <2> HIDE DEF S
  <2> QED BY <1>1, <1>2, NatSetInduction
<1> QED BY <1>0, <1>3

\* Any element may be added last.
LEMMA IterAny ==
  ASSUME NEW D, IsFiniteSet(D), NEW f \in [D -> Nat]
  PROVE  \A s \in SUBSET D : \A y \in s : Iter(f)[s] = f[y] + Iter(f)[s \ {y}]
<1> DEFINE S == {n \in Nat : \A s \in SUBSET D : Cardinality(s) = n =>
                               \A y \in s : Iter(f)[s] = f[y] + Iter(f)[s \ {y}]}
<1>0. \A s \in SUBSET D : IsFiniteSet(s) /\ Cardinality(s) \in Nat
  BY FS_Subset, FS_CardinalityType
<1>1. 0 \in S
  BY <1>0, FS_EmptySet
<1>2. ASSUME NEW n \in Nat, n \in S PROVE n + 1 \in S
  <2> SUFFICES ASSUME NEW s \in SUBSET D, Cardinality(s) = n + 1, NEW y \in s
               PROVE  Iter(f)[s] = f[y] + Iter(f)[s \ {y}]
    OBVIOUS
  <2> DEFINE p == Chosen(s)
  <2>1. p \in s /\ Iter(f)[s] = f[p] + Iter(f)[s \ {p}]
    BY IterStep DEF Chosen
  <2> HIDE DEF p
  <2>2. CASE p = y
    BY <2>1, <2>2
  <2>3. CASE p # y
    <3>1. Cardinality(s \ {p}) = n /\ Cardinality(s \ {y}) = n
      BY <1>0, <2>1, Smaller
    <3>2. Iter(f)[s \ {p}] = f[y] + Iter(f)[(s \ {p}) \ {y}]
      BY <1>2, <2>3, <3>1
    <3>3. Iter(f)[s \ {y}] = f[p] + Iter(f)[(s \ {y}) \ {p}]
      BY <1>2, <2>1, <2>3, <3>1
    <3>4. (s \ {p}) \ {y} = (s \ {y}) \ {p}
      OBVIOUS
    <3>5. Iter(f)[(s \ {y}) \ {p}] \in Nat
      BY IterType
    <3>6. f[y] \in Nat /\ f[p] \in Nat
      BY <2>1
    <3> DEFINE rest == Iter(f)[(s \ {y}) \ {p}]
    <3>7. Iter(f)[s \ {p}] = f[y] + rest /\ Iter(f)[s \ {y}] = f[p] + rest /\ rest \in Nat
      BY <3>2, <3>3, <3>4, <3>5
    <3> HIDE DEF rest
    <3> QED BY <2>1, <3>6, <3>7
  <2> QED BY <2>2, <2>3
<1>3. \A n \in Nat : n \in S
  <2> HIDE DEF S
  <2> QED BY <1>1, <1>2, NatSetInduction
<1> QED BY <1>0, <1>3

\* Only the values on the set count.
LEMMA IterAgree ==
  ASSUME NEW D, IsFiniteSet(D), NEW f \in [D -> Nat],
         NEW E, IsFiniteSet(E), NEW g \in [E -> Nat]
  PROVE  \A s \in SUBSET (D \cap E) : (\A x \in s : f[x] = g[x]) => Iter(f)[s] = Iter(g)[s]
<1> DEFINE S == {n \in Nat : \A s \in SUBSET (D \cap E) :
                    Cardinality(s) = n /\ (\A x \in s : f[x] = g[x]) => Iter(f)[s] = Iter(g)[s]}
<1>0. \A s \in SUBSET D : IsFiniteSet(s) /\ Cardinality(s) \in Nat
  BY FS_Subset, FS_CardinalityType
<1>1. 0 \in S
  <2>1. Iter(f)[{}] = 0 /\ Iter(g)[{}] = 0
    BY IterStep
  <2> QED BY <1>0, <2>1, FS_EmptySet
<1>2. ASSUME NEW n \in Nat, n \in S PROVE n + 1 \in S
  <2> SUFFICES ASSUME NEW s \in SUBSET (D \cap E), Cardinality(s) = n + 1,
                      \A x \in s : f[x] = g[x]
               PROVE  Iter(f)[s] = Iter(g)[s]
    OBVIOUS
  <2>1. s # {}
    BY FS_EmptySet
  <2>2. Chosen(s) \in s
    BY <2>1 DEF Chosen
  <2>3. Cardinality(s \ {Chosen(s)}) = n
    <3>1. s \in SUBSET D
      OBVIOUS
    <3>2. IsFiniteSet(s)
      BY <1>0, <3>1
    <3>3. Cardinality(s \ {Chosen(s)}) \in Nat
          /\ Cardinality(s) = Cardinality(s \ {Chosen(s)}) + 1
      BY <2>2, <3>2, Smaller
    <3> QED BY <3>3
  <2>4. Iter(f)[s \ {Chosen(s)}] = Iter(g)[s \ {Chosen(s)}]
    BY <1>2, <2>3
  <2>5. /\ Iter(f)[s] = f[Chosen(s)] + Iter(f)[s \ {Chosen(s)}]
        /\ Iter(g)[s] = g[Chosen(s)] + Iter(g)[s \ {Chosen(s)}]
    BY <2>1, IterStep
  <2> QED BY <2>2, <2>4, <2>5
<1>3. \A n \in Nat : n \in S
  <2> HIDE DEF S
  <2> QED BY <1>1, <1>2, NatSetInduction
<1> QED BY <1>0, <1>3

-----------------------------------------------------------------------------
LEMMA SumType ==
  ASSUME NEW D, IsFiniteSet(D), NEW f \in [D -> Nat]
  PROVE  SumFunction(f) \in Nat
  BY SumIsIter, IterType

LEMMA SumEmpty ==
  ASSUME NEW f, DOMAIN f = {}
  PROVE  SumFunction(f) = 0
  BY SumIsIter, IterStep, FS_EmptySet

LEMMA SumZero ==
  ASSUME NEW D, IsFiniteSet(D)
  PROVE  SumFunction([x \in D |-> 0]) = 0
<1> DEFINE f == [x \in D |-> 0]
           S == {n \in Nat : \A s \in SUBSET D : Cardinality(s) = n => Iter(f)[s] = 0}
<1>0. \A s \in SUBSET D : IsFiniteSet(s) /\ Cardinality(s) \in Nat
  BY FS_Subset, FS_CardinalityType
<1>1. 0 \in S
  <2>1. Iter(f)[{}] = 0
    BY IterStep
  <2> QED BY <1>0, <2>1, FS_EmptySet
<1>2. ASSUME NEW n \in Nat, n \in S PROVE n + 1 \in S
  <2> SUFFICES ASSUME NEW s \in SUBSET D, Cardinality(s) = n + 1 PROVE Iter(f)[s] = 0
    OBVIOUS
  <2>1. s # {}
    BY FS_EmptySet
  <2>2. Chosen(s) \in s
    BY <2>1 DEF Chosen
  <2>3. Cardinality(s \ {Chosen(s)}) = n
    BY <1>0, <2>2, Smaller
  <2>4. Iter(f)[s \ {Chosen(s)}] = 0
    BY <1>2, <2>3
  <2>5. Iter(f)[s] = f[Chosen(s)] + Iter(f)[s \ {Chosen(s)}]
    BY <2>1, IterStep
  <2> QED BY <2>2, <2>4, <2>5
<1>3. \A n \in Nat : n \in S
  <2> HIDE DEF S
  <2> QED BY <1>1, <1>2, NatSetInduction
<1>4. Iter(f)[D] = 0
  BY <1>0, <1>3
<1> QED BY <1>4, SumIsIter

\* The sums of two functions that differ at one place differ by as much.
LEMMA SumExcept ==
  ASSUME NEW D, IsFiniteSet(D), NEW f \in [D -> Nat], NEW g \in [D -> Nat],
         NEW x \in D, \A y \in D \ {x} : g[y] = f[y]
  PROVE  SumFunction(g) + f[x] = SumFunction(f) + g[x]
<1>1. Iter(f)[D \ {x}] = Iter(g)[D \ {x}] /\ Iter(f)[D \ {x}] \in Nat
  BY IterAgree, IterType
<1>2. Iter(f)[D] = f[x] + Iter(f)[D \ {x}] /\ Iter(g)[D] = g[x] + Iter(g)[D \ {x}]
  BY IterAny
<1>3. SumFunction(f) = Iter(f)[D] /\ SumFunction(g) = Iter(g)[D]
  BY SumIsIter
<1> QED BY <1>1, <1>2, <1>3

\* One place more.
LEMMA SumAdd ==
  ASSUME NEW D, IsFiniteSet(D), NEW f \in [D -> Nat], NEW x, x \notin D,
         NEW g \in [D \cup {x} -> Nat], \A y \in D : g[y] = f[y]
  PROVE  SumFunction(g) = SumFunction(f) + g[x]
<1>1. IsFiniteSet(D \cup {x})
  BY FS_AddElement
<1>2. Iter(f)[D] = Iter(g)[D] /\ Iter(f)[D] \in Nat
  BY <1>1, IterAgree, IterType
<1>3. Iter(g)[D \cup {x}] = g[x] + Iter(g)[(D \cup {x}) \ {x}]
  BY <1>1, IterAny
<1>4. (D \cup {x}) \ {x} = D
  OBVIOUS
<1>5. SumFunction(f) = Iter(f)[D] /\ SumFunction(g) = Iter(g)[D \cup {x}]
  BY SumIsIter
<1> QED BY <1>2, <1>3, <1>4, <1>5

\* A sum is the sum of its parts.
LEMMA SumSplit ==
  ASSUME NEW D, IsFiniteSet(D), NEW f \in [D -> Nat], NEW E, E \subseteq D
  PROVE  SumFunction(f) = SumFunction([x \in E |-> f[x]])
                            + SumFunction([x \in D \ E |-> f[x]])
<1> DEFINE S == {n \in Nat : \A s \in SUBSET D : Cardinality(s) = n =>
                               Iter(f)[s] = Iter(f)[s \cap E] + Iter(f)[s \ E]}
<1>0. \A s \in SUBSET D : IsFiniteSet(s) /\ Cardinality(s) \in Nat
  BY FS_Subset, FS_CardinalityType
<1>a. \A s \in SUBSET D : \A y \in s : Iter(f)[s] = f[y] + Iter(f)[s \ {y}]
  <2> SUFFICES ASSUME NEW s \in SUBSET D, NEW y \in s
               PROVE  Iter(f)[s] = f[y] + Iter(f)[s \ {y}]
    OBVIOUS
  <2> HIDE DEF S
  <2> QED BY IterAny
<1>b. \A s \in SUBSET D : Iter(f)[s] \in Nat
  BY ONLY IsFiniteSet(D), f \in [D -> Nat], IterType
<1>1. 0 \in S
  <2>1. Iter(f)[{}] = 0
    BY IterStep
  <2> QED BY <1>0, <2>1, FS_EmptySet
<1>2. ASSUME NEW n \in Nat, n \in S PROVE n + 1 \in S
  <2> SUFFICES ASSUME NEW s \in SUBSET D, Cardinality(s) = n + 1
               PROVE  Iter(f)[s] = Iter(f)[s \cap E] + Iter(f)[s \ E]
    OBVIOUS
  <2>1. s # {}
    BY FS_EmptySet
  <2>2. PICK c : c \in s
    BY <2>1
  <2>3. Cardinality(s \ {c}) = n
    BY <1>0, <2>2, Smaller
  <2>4. Iter(f)[s \ {c}] = Iter(f)[(s \ {c}) \cap E] + Iter(f)[(s \ {c}) \ E]
    BY <1>2, <2>3
  <2>5. Iter(f)[s] = f[c] + Iter(f)[s \ {c}]
    BY <1>a, <2>2
  <2>6. f[c] \in Nat
    BY <2>2
  <2>7. CASE c \in E
    <3>1. (s \ {c}) \cap E = (s \cap E) \ {c} /\ (s \ {c}) \ E = s \ E
      BY <2>7
    <3>2. Iter(f)[s \cap E] = f[c] + Iter(f)[(s \cap E) \ {c}]
      <4>1. s \cap E \in SUBSET D /\ c \in s \cap E
        BY <2>2, <2>7
      <4> QED BY ONLY <1>a, <4>1
    <3>3. /\ Iter(f)[(s \cap E) \ {c}] \in Nat /\ Iter(f)[s \ E] \in Nat
          /\ Iter(f)[s \ {c}] = Iter(f)[(s \cap E) \ {c}] + Iter(f)[s \ E]
      BY <1>b, <2>4, <3>1
    <3> HIDE DEF S
    <3> QED BY <2>5, <2>6, <3>2, <3>3
  <2>8. CASE c \notin E
    <3>1. (s \ {c}) \ E = (s \ E) \ {c} /\ (s \ {c}) \cap E = s \cap E
      BY <2>8
    <3>2. Iter(f)[s \ E] = f[c] + Iter(f)[(s \ E) \ {c}]
      <4>1. s \ E \in SUBSET D /\ c \in s \ E
        BY <2>2, <2>8
      <4> QED BY ONLY <1>a, <4>1
    <3>3. /\ Iter(f)[(s \ E) \ {c}] \in Nat /\ Iter(f)[s \cap E] \in Nat
          /\ Iter(f)[s \ {c}] = Iter(f)[s \cap E] + Iter(f)[(s \ E) \ {c}]
      BY <1>b, <2>4, <3>1
    <3> HIDE DEF S
    <3> QED BY <2>5, <2>6, <3>2, <3>3
  <2> QED BY <2>7, <2>8
<1>3. \A n \in Nat : n \in S
  <2> HIDE DEF S
  <2> QED BY <1>1, <1>2, NatSetInduction
<1>4. Iter(f)[D] = Iter(f)[D \cap E] + Iter(f)[D \ E]
  BY <1>0, <1>3
<1>5. PICK g, h : g = [x \in E |-> f[x]] /\ h = [x \in D \ E |-> f[x]]
  OBVIOUS
<1>6. g \in [E -> Nat] /\ h \in [D \ E -> Nat] /\ IsFiniteSet(E) /\ IsFiniteSet(D \ E)
  BY <1>0, <1>5
<1>7. Iter(f)[E] = Iter(g)[E]
  <2>1. \A x \in E : f[x] = g[x]
    BY <1>5
  <2> QED BY <1>6, <2>1, IterAgree
<1>8. Iter(f)[D \ E] = Iter(h)[D \ E]
  <2>1. \A x \in D \ E : f[x] = h[x]
    BY <1>5
  <2> QED BY <1>6, <2>1, IterAgree
<1>9. D \cap E = E
  OBVIOUS
<1> QED BY <1>4, <1>5, <1>6, <1>7, <1>8, <1>9, SumIsIter

\* Places that count nothing may be left out; others only add.
LEMMA SumPart ==
  ASSUME NEW D, IsFiniteSet(D), NEW f \in [D -> Nat], NEW E, E \subseteq D
  PROVE  /\ SumFunction([x \in E |-> f[x]]) \in Nat
         /\ SumFunction([x \in E |-> f[x]]) <= SumFunction(f)
         /\ (\A x \in D \ E : f[x] = 0) => SumFunction([x \in E |-> f[x]]) = SumFunction(f)
<1>1. PICK g, h : g = [x \in E |-> f[x]] /\ h = [x \in D \ E |-> f[x]]
  OBVIOUS
<1>2. g \in [E -> Nat] /\ h \in [D \ E -> Nat] /\ IsFiniteSet(E) /\ IsFiniteSet(D \ E)
  BY <1>1, FS_Subset
<1>3. SumFunction(g) \in Nat /\ SumFunction(h) \in Nat
  BY <1>2, SumType
<1>4. SumFunction(f) = SumFunction(g) + SumFunction(h)
  BY <1>1, SumSplit
<1>5. ASSUME \A x \in D \ E : f[x] = 0 PROVE SumFunction(h) = 0
  <2>1. h = [x \in D \ E |-> 0]
    BY <1>1, <1>5
  <2> QED BY <1>2, <2>1, SumZero
<1> QED BY <1>1, <1>3, <1>4, <1>5
=============================================================================
