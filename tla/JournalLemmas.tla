---------------------------- MODULE JournalLemmas ----------------------------
(***************************************************************************)
(* What SumFunctionOnSet computes, for every finite set, and what the      *)
(* operators of Journal return: the running balances of a posted journal,  *)
(* what it moves on each account, what buildJournalEntries makes of a      *)
(* payment and what a refund makes of the entries of a payment.            *)
(***************************************************************************)
EXTENDS Journal, FiniteSetTheorems, TLAPS

-----------------------------------------------------------------------------
(* Sums over finite sets: of accounts, of entries, of transactions.        *)
(* Induction is by least counterexample: a nonempty set of naturals has a  *)
(* least element, a fact that needs no operator as a parameter.            *)

LEMMA LeastNumber ==
  ASSUME NEW T \in SUBSET Nat, T # {}
  PROVE  \E n \in T : \A m \in T : n <= m
<1> DEFINE R == {ss \in Nat \X Nat : ss[1] < ss[2]}
<1>1. IsWellFoundedOn(R, Nat)
  BY NatLessThanWellFounded DEF OpToRel
<1>2. \E n \in T : \A m \in T : <<m, n>> \notin R
  <2> HIDE DEF R
  <2> QED
    BY <1>1, WFMin
<1>3. \A m, n \in T : <<m, n>> \notin R => n <= m
  OBVIOUS
<1> QED
  BY <1>2, <1>3

\* A set of naturals that holds 0 and is closed under successor holds them all.
LEMMA Inductive ==
  ASSUME NEW T, 0 \in T, \A n \in Nat : n \in T => n + 1 \in T
  PROVE  Nat \subseteq T
<1> SUFFICES ASSUME Nat \ T # {} PROVE FALSE
  OBVIOUS
<1>1. PICK n \in Nat \ T : \A m \in Nat \ T : n <= m
  BY LeastNumber
<1>2. n # 0 /\ n - 1 \in Nat /\ n - 1 \notin Nat \ T
  BY <1>1
<1> QED
  BY <1>1, <1>2

LEMMA OneLess ==
  ASSUME NEW S, IsFiniteSet(S), NEW k \in Nat, Cardinality(S) = k + 1, NEW x \in S
  PROVE  Cardinality(S \ {x}) = k
BY FS_RemoveElement

\* A family of sets that holds the empty set, and every subset of S all of whose
\* subsets with one element less it holds, holds all subsets of S.
LEMMA SubsetInduction ==
  ASSUME NEW S, IsFiniteSet(S), NEW F, {} \in F,
         \A s \in SUBSET S : s # {} /\ (\A x \in s : s \ {x} \in F) => s \in F
  PROVE  SUBSET S \subseteq F
<1> DEFINE T == {k \in Nat : \A s \in SUBSET S : Cardinality(s) = k => s \in F}
<1>0. \A s \in SUBSET S : IsFiniteSet(s) /\ Cardinality(s) \in Nat
  BY FS_Subset, FS_CardinalityType
<1>1. 0 \in T
  BY <1>0, FS_EmptySet
<1>2. ASSUME NEW k \in Nat, k \in T PROVE k + 1 \in T
  <2> SUFFICES ASSUME NEW s \in SUBSET S, Cardinality(s) = k + 1 PROVE s \in F
    OBVIOUS
  <2>1. s # {}
    <3>1. Cardinality(s) # 0
      OBVIOUS
    <3> QED
      BY <1>0, <3>1, FS_EmptySet
  <2>2. ASSUME NEW x \in s PROVE s \ {x} \in F
    <3>1. Cardinality(s \ {x}) = k
      BY <1>0, OneLess
    <3> QED
      BY <1>2, <3>1
  <2> QED
    BY <2>1, <2>2
<1>3. Nat \subseteq T
  <2> HIDE DEF T
  <2> QED
    BY <1>1, <1>2, Inductive
<1> QED
  BY <1>0, <1>3

\* A nonempty finite set of naturals has a greatest element.
LEMMA GreatestNumber ==
  ASSUME NEW S \in SUBSET Nat, IsFiniteSet(S), S # {}
  PROVE  \E n \in S : \A m \in S : m <= n
<1> DEFINE F == {U \in SUBSET S : U = {} \/ \E n \in U : \A m \in U : m <= n}
<1>1. {} \in F
  OBVIOUS
<1>2. ASSUME NEW U \in SUBSET S, U # {}, \A x \in U : U \ {x} \in F PROVE U \in F
  <2>1. PICK x \in U : TRUE
    BY <1>2
  <2>2. CASE U \ {x} = {}
    BY <2>1, <2>2
  <2>3. CASE \E n \in U \ {x} : \A m \in U \ {x} : m <= n
    <3>1. PICK n \in U \ {x} : \A m \in U \ {x} : m <= n
      BY <2>3
    <3>2. CASE n <= x
      <4>1. \A m \in U : m <= x
        BY <2>1, <3>1, <3>2
      <4> QED
        BY <2>1, <4>1
    <3>3. CASE ~(n <= x)
      <4>1. \A m \in U : m <= n
        BY <2>1, <3>1, <3>3
      <4> QED
        BY <3>1, <4>1
    <3> QED
      BY <3>2, <3>3
  <2> QED
    BY <1>2, <2>2, <2>3
<1>3. SUBSET S \subseteq F
  <2> HIDE DEF F
  <2> QED
    BY <1>1, <1>2, SubsetInduction
<1> QED
  BY <1>3

-----------------------------------------------------------------------------
(* The fold behind SumFunctionOnSet is a recursive function on the subsets *)
(* of S.  It exists, and is the same on a subset whatever S it started at. *)

First(s) == CHOOSE x \in s : TRUE

IsIter(g, f, D) ==
    g = [s \in D |-> IF s = {} THEN 0 ELSE f[First(s)] + g[s \ {First(s)}]]

LEMMA SumIsIter ==
  ASSUME NEW f, NEW S
  PROVE  SumFunctionOnSet(f, S) = (CHOOSE g : IsIter(g, f, SUBSET S))[S]
BY DEF SumFunctionOnSet, FoldFunctionOnSet, MapThenFoldSet, IsIter, First

LEMMA FirstIn == ASSUME NEW s, s # {} PROVE First(s) \in s
BY DEF First

LEMMA IterExists ==
  ASSUME NEW f, NEW S, IsFiniteSet(S)
  PROVE  \E g : IsIter(g, f, SUBSET S)
<1> DEFINE Small(n) == {s \in SUBSET S : Cardinality(s) <= n}
           T == {n \in Nat : \E g : IsIter(g, f, Small(n))}
<1>0. \A s \in SUBSET S : IsFiniteSet(s) /\ Cardinality(s) \in Nat
  BY FS_Subset, FS_CardinalityType
<1>1. 0 \in T
  <2>1. \A s \in Small(0) : s = {}
    BY <1>0, FS_EmptySet
  <2>2. IsIter([s \in Small(0) |-> 0], f, Small(0))
    BY <2>1 DEF IsIter
  <2> QED
    BY <2>2
<1>2. ASSUME NEW n \in Nat, n \in T PROVE n + 1 \in T
  <2>1. PICK g : IsIter(g, f, Small(n))
    BY <1>2
  <2> DEFINE Step(g_, s) == IF s = {} THEN 0 ELSE f[First(s)] + g_[s \ {First(s)}]
             h == [s \in Small(n + 1) |-> Step(g, s)]
  <2>2. ASSUME NEW s \in Small(n + 1) PROVE h[s] = Step(h, s)
    <3>1. CASE s = {}
      BY <3>1
    <3>2. CASE s # {}
      <4>1. First(s) \in s
        BY <3>2, FirstIn
      <4> DEFINE r == s \ {First(s)}
      <4>2. r \in Small(n)
        BY <1>0, <4>1, FS_RemoveElement
      <4>3. r \in Small(n + 1)
        BY <1>0, <4>2
      <4>4. g[r] = Step(g, r)
        BY <2>1, <4>2 DEF IsIter
      <4>5. h[r] = g[r]
        BY <4>3, <4>4
      <4> QED
        BY <3>2, <4>5
    <3> QED
      BY <3>1, <3>2
  <2>3. IsIter(h, f, Small(n + 1))
    BY <2>2 DEF IsIter
  <2>4. \E i : IsIter(i, f, Small(n + 1))
    <3> HIDE DEF h, Small
    <3> QED
      BY <2>3
  <2> HIDE DEF h, Small
  <2> QED
    BY <2>4
<1>3. Nat \subseteq T
  <2> HIDE DEF T
  <2> QED
    BY <1>1, <1>2, Inductive
<1>4. PICK g : IsIter(g, f, Small(Cardinality(S)))
  BY <1>0, <1>3
<1>5. Small(Cardinality(S)) = SUBSET S
  BY FS_Subset
<1> QED
  BY <1>4, <1>5

LEMMA IterUnique ==
  ASSUME NEW f, NEW S, IsFiniteSet(S), NEW R \in SUBSET S,
         NEW g, IsIter(g, f, SUBSET S), NEW h, IsIter(h, f, SUBSET R)
  PROVE  h[R] = g[R]
<1> DEFINE F == {s \in SUBSET R : h[s] = g[s]}
<1>0. IsFiniteSet(R)
  BY FS_Subset
<1>1. {} \in F
  BY DEF IsIter
<1>2. ASSUME NEW s \in SUBSET R, s # {}, \A x \in s : s \ {x} \in F PROVE s \in F
  <2>1. First(s) \in s
    BY <1>2, FirstIn
  <2>2. h[s \ {First(s)}] = g[s \ {First(s)}]
    BY <1>2, <2>1
  <2> QED
    BY <1>2, <2>2 DEF IsIter
<1>3. SUBSET R \subseteq F
  <2> HIDE DEF F
  <2> QED
    BY <1>0, <1>1, <1>2, SubsetInduction
<1> QED
  BY <1>3

LEMMA SumEmpty == \A f : SumFunctionOnSet(f, {}) = 0
<1> SUFFICES ASSUME NEW f PROVE SumFunctionOnSet(f, {}) = 0
  OBVIOUS
<1>1. PICK g : IsIter(g, f, SUBSET {})
  BY IterExists, FS_EmptySet
<1>2. IsIter(CHOOSE h : IsIter(h, f, SUBSET {}), f, SUBSET {})
  BY <1>1
<1> QED
  BY <1>2, SumIsIter DEF IsIter

\* One step of the fold.
LEMMA SumFirst ==
  ASSUME NEW f, NEW S, IsFiniteSet(S), S # {}
  PROVE  SumFunctionOnSet(f, S) = f[First(S)] + SumFunctionOnSet(f, S \ {First(S)})
<1> DEFINE R == S \ {First(S)}
           g == CHOOSE i : IsIter(i, f, SUBSET S)
           h == CHOOSE i : IsIter(i, f, SUBSET R)
<1>1. IsFiniteSet(R) /\ R \in SUBSET S
  BY FS_Subset
<1>2. IsIter(g, f, SUBSET S) /\ IsIter(h, f, SUBSET R)
  BY <1>1, IterExists
<1>3. h[R] = g[R]
  <2> HIDE DEF R, g, h
  <2> QED
    BY <1>1, <1>2, IterUnique
<1>4. g[S] = f[First(S)] + g[R]
  <2> HIDE DEF g
  <2> QED
    BY <1>2 DEF IsIter
<1> QED
  BY <1>3, <1>4, SumIsIter

-----------------------------------------------------------------------------
(* The algebra of sums of integers.                                        *)

LEMMA SumType ==
  ASSUME NEW f, NEW S, IsFiniteSet(S), \A i \in S : f[i] \in Int
  PROVE  SumFunctionOnSet(f, S) \in Int
<1> DEFINE F == {s \in SUBSET S : SumFunctionOnSet(f, s) \in Int}
<1>1. {} \in F
  BY SumEmpty
<1>2. ASSUME NEW s \in SUBSET S, s # {}, \A x \in s : s \ {x} \in F PROVE s \in F
  <2>1. First(s) \in s /\ IsFiniteSet(s)
    BY <1>2, FirstIn, FS_Subset
  <2>2. SumFunctionOnSet(f, s) = f[First(s)] + SumFunctionOnSet(f, s \ {First(s)})
    BY <1>2, <2>1, SumFirst
  <2> QED
    BY <1>2, <2>1, <2>2
<1>3. SUBSET S \subseteq F
  <2> HIDE DEF F
  <2> QED
    BY <1>1, <1>2, SubsetInduction
<1> QED
  BY <1>3

\* The order in which the fold takes the elements does not matter.
LEMMA SumRemove ==
  ASSUME NEW f, NEW S, IsFiniteSet(S), \A i \in S : f[i] \in Int
  PROVE  /\ SumFunctionOnSet(f, S) \in Int
         /\ \A x \in S : SumFunctionOnSet(f, S) = f[x] + SumFunctionOnSet(f, S \ {x})
<1> DEFINE Sum(s) == SumFunctionOnSet(f, s)
           F == {s \in SUBSET S : Sum(s) \in Int /\ \A x \in s : Sum(s) = f[x] + Sum(s \ {x})}
<1>0. \A s \in SUBSET S : IsFiniteSet(s)
  BY FS_Subset
<1>1. {} \in F
  BY SumEmpty
<1>2. ASSUME NEW s \in SUBSET S, s # {}, \A x \in s : s \ {x} \in F PROVE s \in F
  <2> DEFINE y == First(s)
  <2>1. y \in s /\ y \in S
    BY <1>2, FirstIn
  <2>2. Sum(s) = f[y] + Sum(s \ {y})
    BY <1>0, <1>2, SumFirst
  <2> HIDE DEF y, Sum
  <2>3. \A x \in s : Sum(s \ {x}) \in Int /\ f[x] \in Int
    BY <1>2
  <2>4. Sum(s) \in Int
    BY <2>1, <2>2, <2>3
  <2>5. ASSUME NEW x \in s, x # y PROVE Sum(s) = f[x] + Sum(s \ {x})
    <3> DEFINE r == s \ {x, y}
    <3>1. r = (s \ {y}) \ {x} /\ r = (s \ {x}) \ {y}
      OBVIOUS
    <3>2. Sum(s \ {y}) = f[x] + Sum((s \ {y}) \ {x}) /\ Sum(s \ {x}) = f[y] + Sum((s \ {x}) \ {y})
      BY <1>2, <2>1, <2>5
    <3>3. Sum(s \ {y}) = f[x] + Sum(r) /\ Sum(s \ {x}) = f[y] + Sum(r)
      <4> HIDE DEF r
      <4> QED
        BY <3>1, <3>2
    <3>4. Sum(r) \in Int
      <4>1. r \in SUBSET S
        OBVIOUS
      <4>2. IsFiniteSet(r) /\ \A i \in r : f[i] \in Int
        BY <1>0, <4>1
      <4> HIDE DEF r
      <4> QED
        BY <4>2, SumType DEF Sum
    <3> QED
      BY <2>1, <2>2, <2>3, <3>3, <3>4
  <2> QED
    BY <2>1, <2>2, <2>4, <2>5
<1>3. SUBSET S \subseteq F
  <2> HIDE DEF F
  <2> QED
    BY <1>1, <1>2, SubsetInduction
<1> QED
  BY <1>3

LEMMA SumCong ==
  ASSUME NEW f, NEW g, NEW S, IsFiniteSet(S), \A i \in S : f[i] = g[i]
  PROVE  SumFunctionOnSet(f, S) = SumFunctionOnSet(g, S)
<1> DEFINE F == {s \in SUBSET S : SumFunctionOnSet(f, s) = SumFunctionOnSet(g, s)}
<1>1. {} \in F
  BY SumEmpty
<1>2. ASSUME NEW s \in SUBSET S, s # {}, \A x \in s : s \ {x} \in F PROVE s \in F
  <2>1. First(s) \in s /\ IsFiniteSet(s)
    BY <1>2, FirstIn, FS_Subset
  <2>2. /\ SumFunctionOnSet(f, s) = f[First(s)] + SumFunctionOnSet(f, s \ {First(s)})
        /\ SumFunctionOnSet(g, s) = g[First(s)] + SumFunctionOnSet(g, s \ {First(s)})
    BY <1>2, <2>1, SumFirst
  <2> QED
    BY <1>2, <2>1, <2>2
<1>3. SUBSET S \subseteq F
  <2> HIDE DEF F
  <2> QED
    BY <1>1, <1>2, SubsetInduction
<1> QED
  BY <1>3

\* One more element.
LEMMA SumAdd ==
  ASSUME NEW f, NEW S, IsFiniteSet(S), NEW x, x \notin S, f[x] \in Int,
         \A i \in S : f[i] \in Int
  PROVE  SumFunctionOnSet(f, S \cup {x}) = f[x] + SumFunctionOnSet(f, S)
<1> DEFINE R == S \cup {x}
<1>1. IsFiniteSet(R)
  BY FS_AddElement
<1>2. R \ {x} = S
  OBVIOUS
<1>3. x \in R /\ \A i \in R : f[i] \in Int
  OBVIOUS
<1> HIDE DEF R
<1>4. SumFunctionOnSet(f, R) = f[x] + SumFunctionOnSet(f, R \ {x})
  BY <1>1, <1>3, SumRemove
<1> QED
  BY <1>2, <1>4 DEF R

LEMMA SumSingle ==
  ASSUME NEW f, NEW x, f[x] \in Int
  PROVE  SumFunctionOnSet(f, {x}) = f[x]
<1>1. SumFunctionOnSet(f, {} \cup {x}) = f[x] + SumFunctionOnSet(f, {})
  BY FS_EmptySet, SumAdd
<1>2. {} \cup {x} = {x}
  OBVIOUS
<1> QED
  BY <1>1, <1>2, SumEmpty

\* Two functions that differ at one element.
LEMMA SumUpdate ==
  ASSUME NEW f, NEW g, NEW S, IsFiniteSet(S), NEW x \in S, g[x] \in Int,
         \A i \in S : f[i] \in Int, \A i \in S \ {x} : g[i] = f[i]
  PROVE  SumFunctionOnSet(g, S) = SumFunctionOnSet(f, S) + g[x] - f[x]
<1>1. SumFunctionOnSet(f, S \ {x}) = SumFunctionOnSet(g, S \ {x})
  <2>1. IsFiniteSet(S \ {x})
    BY FS_Subset
  <2> QED
    BY <2>1, SumCong
<1>2. SumFunctionOnSet(f, S) = f[x] + SumFunctionOnSet(f, S \ {x})
  BY SumRemove
<1>3. SumFunctionOnSet(g, S) = g[x] + SumFunctionOnSet(g, S \ {x})
  <2>1. \A i \in S : g[i] \in Int
    OBVIOUS
  <2> QED
    BY <2>1, SumRemove
<1>4. SumFunctionOnSet(f, S \ {x}) \in Int
  <2>1. IsFiniteSet(S \ {x})
    BY FS_Subset
  <2> QED
    BY <2>1, SumRemove
<1> QED
  BY <1>1, <1>2, <1>3, <1>4

\* Pointwise sums.
LEMMA SumPlus ==
  ASSUME NEW f, NEW g, NEW h, NEW S, IsFiniteSet(S),
         \A i \in S : f[i] \in Int /\ g[i] \in Int /\ h[i] = f[i] + g[i]
  PROVE  SumFunctionOnSet(h, S) = SumFunctionOnSet(f, S) + SumFunctionOnSet(g, S)
<1> DEFINE F == {s \in SUBSET S :
                   SumFunctionOnSet(h, s) = SumFunctionOnSet(f, s) + SumFunctionOnSet(g, s)}
<1>1. {} \in F
  BY SumEmpty
<1>2. ASSUME NEW s \in SUBSET S, s # {}, \A x \in s : s \ {x} \in F PROVE s \in F
  <2> DEFINE y == First(s)
             r == s \ {y}
  <2>1. y \in s /\ IsFiniteSet(s) /\ IsFiniteSet(r)
    BY <1>2, FirstIn, FS_Subset
  <2>2. /\ SumFunctionOnSet(f, s) = f[y] + SumFunctionOnSet(f, r)
        /\ SumFunctionOnSet(g, s) = g[y] + SumFunctionOnSet(g, r)
        /\ SumFunctionOnSet(h, s) = h[y] + SumFunctionOnSet(h, r)
    BY <1>2, <2>1, SumFirst
  <2>3. SumFunctionOnSet(h, r) = SumFunctionOnSet(f, r) + SumFunctionOnSet(g, r)
    BY <1>2, <2>1
  <2>4. SumFunctionOnSet(f, r) \in Int /\ SumFunctionOnSet(g, r) \in Int
    <3>1. \A i \in r : f[i] \in Int /\ g[i] \in Int
      OBVIOUS
    <3> HIDE DEF r
    <3> QED
      BY <2>1, <3>1, SumRemove
  <2>5. h[y] = f[y] + g[y] /\ f[y] \in Int /\ g[y] \in Int
    BY <2>1
  <2> HIDE DEF y, r
  <2> QED
    BY <2>2, <2>3, <2>4, <2>5
<1>3. SUBSET S \subseteq F
  <2> HIDE DEF F
  <2> QED
    BY <1>1, <1>2, SubsetInduction
<1> QED
  BY <1>3

LEMMA SumZero ==
  ASSUME NEW f, NEW S, IsFiniteSet(S), \A i \in S : f[i] = 0
  PROVE  SumFunctionOnSet(f, S) = 0
<1>1. \A i \in S : f[i] \in Int /\ f[i] = f[i] + f[i]
  OBVIOUS
<1>2. SumFunctionOnSet(f, S) \in Int
  BY <1>1, SumRemove
<1>3. SumFunctionOnSet(f, S) = SumFunctionOnSet(f, S) + SumFunctionOnSet(f, S)
  BY <1>1, SumPlus
<1> QED
  BY <1>2, <1>3

LEMMA SumNeg ==
  ASSUME NEW f, NEW g, NEW S, IsFiniteSet(S), \A i \in S : f[i] \in Int /\ g[i] = - f[i]
  PROVE  SumFunctionOnSet(g, S) = - SumFunctionOnSet(f, S)
<1> DEFINE z == [i \in S |-> 0]
<1>1. \A i \in S : f[i] \in Int /\ g[i] \in Int /\ z[i] = f[i] + g[i]
  OBVIOUS
<1>2. SumFunctionOnSet(z, S) = 0
  BY SumZero
<1> HIDE DEF z
<1>3. SumFunctionOnSet(z, S) = SumFunctionOnSet(f, S) + SumFunctionOnSet(g, S)
  BY <1>1, SumPlus
<1>4. SumFunctionOnSet(f, S) \in Int /\ SumFunctionOnSet(g, S) \in Int
  BY <1>1, SumRemove
<1> QED
  BY <1>2, <1>3, <1>4

\* A sum over a set is the sum over a part and the sum over the rest.
LEMMA SumSplit ==
  ASSUME NEW f, NEW S, IsFiniteSet(S), \A i \in S : f[i] \in Int, NEW A \in SUBSET S
  PROVE  SumFunctionOnSet(f, S) = SumFunctionOnSet(f, A) + SumFunctionOnSet(f, S \ A)
<1> DEFINE F == {B \in SUBSET A :
              SumFunctionOnSet(f, S) = SumFunctionOnSet(f, B) + SumFunctionOnSet(f, S \ B)}
<1>0. \A B \in SUBSET S : IsFiniteSet(B) /\ SumFunctionOnSet(f, B) \in Int
  <2> SUFFICES ASSUME NEW B \in SUBSET S
               PROVE  IsFiniteSet(B) /\ SumFunctionOnSet(f, B) \in Int
    OBVIOUS
  <2>1. IsFiniteSet(B)
    BY FS_Subset
  <2>2. \A i \in B : f[i] \in Int
    OBVIOUS
  <2> QED
    BY <2>1, <2>2, SumRemove
<1>1. {} \in F
  <2>1. S \ {} = S
    OBVIOUS
  <2> QED
    BY <1>0, <2>1, SumEmpty
<1>2. ASSUME NEW B \in SUBSET A, B # {}, \A x \in B : B \ {x} \in F PROVE B \in F
  <2>1. PICK x \in B : TRUE
    BY <1>2
  <2> DEFINE C == B \ {x}
  <2>2. SumFunctionOnSet(f, S) = SumFunctionOnSet(f, C) + SumFunctionOnSet(f, S \ C)
    BY <1>2, <2>1
  <2>3. SumFunctionOnSet(f, B) = f[x] + SumFunctionOnSet(f, C)
    <3>1. IsFiniteSet(B) /\ \A i \in B : f[i] \in Int
      BY <1>0
    <3> QED
      BY <2>1, <3>1, SumRemove
  <2>4. SumFunctionOnSet(f, S \ C) = f[x] + SumFunctionOnSet(f, S \ B)
    <3> DEFINE D == S \ C
    <3>1. IsFiniteSet(D) /\ (\A i \in D : f[i] \in Int) /\ x \in D
      BY <1>0, <2>1
    <3>2. D \ {x} = S \ B
      BY <2>1
    <3> HIDE DEF D
    <3>3. SumFunctionOnSet(f, D) = f[x] + SumFunctionOnSet(f, D \ {x})
      BY <3>1, SumRemove
    <3> QED
      BY <3>2, <3>3 DEF D
  <2>5. /\ SumFunctionOnSet(f, C) \in Int /\ SumFunctionOnSet(f, S \ B) \in Int
        /\ f[x] \in Int
    BY <1>0, <2>1
  <2> HIDE DEF C
  <2> QED
    BY <2>2, <2>3, <2>4, <2>5
<1>3. SUBSET A \subseteq F
  <2>1. IsFiniteSet(A)
    BY <1>0
  <2> HIDE DEF F
  <2> QED
    BY <1>1, <1>2, <2>1, SubsetInduction
<1> QED
  BY <1>3

\* Summing class by class: every i in S belongs to the class k[i].
ClassOf(k, S, c) == {i \in S : k[i] = c}

LEMMA SumPartition ==
  ASSUME NEW f, NEW S, IsFiniteSet(S), \A i \in S : f[i] \in Int,
         NEW K, IsFiniteSet(K), NEW k, \A i \in S : k[i] \in K,
         NEW g, \A c \in K : g[c] = SumFunctionOnSet(f, ClassOf(k, S, c))
  PROVE  SumFunctionOnSet(g, K) = SumFunctionOnSet(f, S)
<1> DEFINE Class(s, c) == ClassOf(k, s, c)
           ByClass(s) == [c \in K |-> SumFunctionOnSet(f, Class(s, c))]
           F == {s \in SUBSET S : SumFunctionOnSet(ByClass(s), K) = SumFunctionOnSet(f, s)}
<1>0. \A s \in SUBSET S : IsFiniteSet(s) /\ SumFunctionOnSet(f, s) \in Int
  <2> SUFFICES ASSUME NEW s \in SUBSET S
               PROVE  IsFiniteSet(s) /\ SumFunctionOnSet(f, s) \in Int
    OBVIOUS
  <2>1. IsFiniteSet(s)
    BY FS_Subset
  <2>2. \A i \in s : f[i] \in Int
    OBVIOUS
  <2> QED
    BY <2>1, <2>2, SumRemove
<1>1. {} \in F
  <2>1. ASSUME NEW c \in K PROVE ByClass({})[c] = 0
    <3>1. Class({}, c) = {}
      BY DEF ClassOf
    <3> QED
      BY <3>1, SumEmpty
  <2>2. SumFunctionOnSet(ByClass({}), K) = 0
    <3> HIDE DEF ByClass
    <3> QED
      BY <2>1, SumZero
  <2> QED
    BY <2>2, SumEmpty
<1>2. ASSUME NEW s \in SUBSET S, s # {}, \A x \in s : s \ {x} \in F PROVE s \in F
  <2>1. PICK x \in s : TRUE
    BY <1>2
  <2> DEFINE r == s \ {x}
  <2>2. SumFunctionOnSet(ByClass(r), K) = SumFunctionOnSet(f, r)
    BY <1>2, <2>1
  <2>3. SumFunctionOnSet(f, s) = f[x] + SumFunctionOnSet(f, r)
    <3>1. IsFiniteSet(s) /\ \A i \in s : f[i] \in Int
      BY <1>0
    <3> QED
      BY <2>1, <3>1, SumRemove
  <2>4. \A c \in K : ByClass(r)[c] \in Int
    <3>1. \A c \in K : Class(r, c) \in SUBSET S
      BY DEF ClassOf
    <3> HIDE DEF Class
    <3> QED
      BY <1>0, <3>1
  <2>5. ASSUME NEW c \in K \ {k[x]} PROVE ByClass(s)[c] = ByClass(r)[c]
    <3>1. Class(s, c) = Class(r, c)
      BY DEF ClassOf
    <3> HIDE DEF Class
    <3> QED
      BY <3>1
  <2>6. ByClass(s)[k[x]] = f[x] + ByClass(r)[k[x]]
    <3> DEFINE D == Class(s, k[x])
    <3>1. D \ {x} = Class(r, k[x]) /\ x \in D /\ D \in SUBSET S
      BY <2>1 DEF ClassOf
    <3>2. IsFiniteSet(D) /\ \A i \in D : f[i] \in Int
      BY <1>0, <3>1
    <3> HIDE DEF D
    <3>3. SumFunctionOnSet(f, D) = f[x] + SumFunctionOnSet(f, D \ {x})
      BY <3>1, <3>2, SumRemove
    <3>4. k[x] \in K
      BY <2>1
    <3>5. ByClass(s)[k[x]] = SumFunctionOnSet(f, D)
      BY <3>4 DEF D
    <3>6. ByClass(r)[k[x]] = SumFunctionOnSet(f, D \ {x})
      <4> HIDE DEF Class
      <4> QED
        BY <3>1, <3>4
    <3> QED
      BY <3>3, <3>5, <3>6
  <2>7. k[x] \in K /\ f[x] \in Int
    BY <2>1
  <2>8. SumFunctionOnSet(f, r) \in Int
    BY <1>0
  <2> HIDE DEF ByClass, r
  <2>9. ByClass(s)[k[x]] \in Int
    BY <2>4, <2>6, <2>7
  <2>10. SumFunctionOnSet(ByClass(s), K)
            = SumFunctionOnSet(ByClass(r), K) + ByClass(s)[k[x]] - ByClass(r)[k[x]]
    BY <2>4, <2>5, <2>7, <2>9, SumUpdate
  <2> QED
    BY <2>2, <2>3, <2>4, <2>6, <2>7, <2>8, <2>10
<1>3. SUBSET S \subseteq F
  <2> HIDE DEF F
  <2> QED
    BY <1>1, <1>2, SubsetInduction
<1>4. SumFunctionOnSet(ByClass(S), K) = SumFunctionOnSet(f, S)
  BY <1>3
<1>5. \A c \in K : ByClass(S)[c] = g[c]
  OBVIOUS
<1>6. SumFunctionOnSet(ByClass(S), K) = SumFunctionOnSet(g, K)
  <2> HIDE DEF ByClass
  <2> QED
    BY <1>5, SumCong
<1> QED
  BY <1>4, <1>6

-----------------------------------------------------------------------------
(* Journals.                                                               *)


\* What the lemmas need of a journal: of its entries before they are stamped, and
\* of the rows that were written.
IsJournal(es) ==
    /\ Len(es) \in Nat
    /\ DOMAIN es = 1..Len(es)
    /\ \A i \in DOMAIN es : /\ es[i].account \in Accounts
                            /\ es[i].type \in EntryType
                            /\ es[i].amount \in Int

LEMMA EntriesAreJournals ==
  ASSUME NEW es \in Seq(Entry)
  PROVE  IsJournal(es)
<1>1. Len(es) \in Nat /\ DOMAIN es = 1..Len(es)
  OBVIOUS
<1>2. \A i \in DOMAIN es : es[i] \in Entry
  OBVIOUS
<1> QED
  BY <1>1, <1>2 DEF IsJournal, Entry

LEMMA SomePositions ==
  ASSUME NEW n \in Nat, NEW I \in SUBSET (1..n)
  PROVE  IsFiniteSet(I)
<1>1. IsFiniteSet(1..n)
  BY FS_Interval
<1> QED
  BY <1>1, FS_Subset

-----------------------------------------------------------------------------
(* What a journal moves.                                                   *)

LEMMA SignedInt ==
  ASSUME NEW es, IsJournal(es), NEW i \in DOMAIN es
  PROVE  Signed(es[i]) \in Int
BY DEF IsJournal, Signed

LEMMA NetZero == \A es, a : Net(es, a, 0) = 0
<1> SUFFICES ASSUME NEW es, NEW a PROVE Net(es, a, 0) = 0
  OBVIOUS
<1>1. {i \in 1..0 : es[i].account = a} = {}
  OBVIOUS
<1> QED
  BY <1>1, SumEmpty DEF Net

LEMMA NetStep ==
  ASSUME NEW es, IsJournal(es), NEW a, NEW n \in 1..Len(es)
  PROVE  /\ Net(es, a, n) \in Int
         /\ Net(es, a, n - 1) \in Int
         /\ Net(es, a, n) = Net(es, a, n - 1)
                              + (IF es[n].account = a THEN Signed(es[n]) ELSE 0)
<1> DEFINE f == [i \in DOMAIN es |-> Signed(es[i])]
           I(m) == {i \in 1..m : es[i].account = a}
<1>1. n \in Nat /\ n - 1 \in Nat /\ n \in DOMAIN es /\ 1..n \subseteq DOMAIN es
  BY DEF IsJournal
<1>2. \A i \in DOMAIN es : f[i] \in Int
  BY SignedInt
<1>3. IsFiniteSet(I(n)) /\ IsFiniteSet(I(n - 1))
  BY <1>1, SomePositions
<1>4. (\A i \in I(n) : f[i] \in Int) /\ (\A i \in I(n - 1) : f[i] \in Int)
  BY <1>1, <1>2
<1>5. Net(es, a, n) = SumFunctionOnSet(f, I(n)) /\ Net(es, a, n - 1) = SumFunctionOnSet(f, I(n - 1))
  BY DEF Net
<1>6. f[n] = Signed(es[n])
  BY <1>1
<1>7. CASE es[n].account = a
  <2>1. I(n) = I(n - 1) \cup {n} /\ n \notin I(n - 1)
    BY <1>1, <1>7
  <2> HIDE DEF f, I
  <2>2. SumFunctionOnSet(f, I(n - 1) \cup {n}) = f[n] + SumFunctionOnSet(f, I(n - 1))
    BY <1>1, <1>2, <1>3, <1>4, <2>1, SumAdd
  <2>3. SumFunctionOnSet(f, I(n - 1)) \in Int /\ f[n] \in Int
    BY <1>1, <1>2, <1>3, <1>4, SumType
  <2> QED
    BY <1>5, <1>6, <1>7, <2>1, <2>2, <2>3
<1>8. CASE es[n].account # a
  <2>1. I(n) = I(n - 1)
    BY <1>1, <1>8
  <2> HIDE DEF f, I
  <2>2. SumFunctionOnSet(f, I(n)) \in Int
    BY <1>3, <1>4, SumType
  <2> QED
    BY <1>5, <1>8, <2>1, <2>2
<1> QED
  BY <1>7, <1>8

LEMMA NetType ==
  ASSUME NEW es, IsJournal(es), NEW a, NEW n \in 0..Len(es)
  PROVE  Net(es, a, n) \in Int
<1>1. CASE n = 0
  BY <1>1, NetZero
<1>2. CASE n # 0
  <2>1. n \in 1..Len(es)
    BY <1>2 DEF IsJournal
  <2> QED
    BY <2>1, NetStep
<1> QED
  BY <1>1, <1>2

\* A journal moves nothing on an account it does not name.
LEMMA NetElsewhere ==
  ASSUME NEW es, IsJournal(es), NEW a, a \notin AccountsOf(es)
  PROVE  Net(es, a, Len(es)) = 0
<1>1. {i \in 1..Len(es) : es[i].account = a} = {}
  BY DEF IsJournal, AccountsOf
<1> QED
  BY <1>1, SumEmpty DEF Net

\* Two journals that agree on their first n entries move the same with them; the
\* stamps of the entries do not count.
LEMMA NetSame ==
  ASSUME NEW es, IsJournal(es), NEW fs, IsJournal(fs),
         NEW n \in 0..Len(es), n <= Len(fs),
         \A i \in 1..n : /\ fs[i].account = es[i].account
                         /\ fs[i].type = es[i].type
                         /\ fs[i].amount = es[i].amount,
         NEW a
  PROVE  Net(fs, a, n) = Net(es, a, n)
<1> DEFINE I(s) == {i \in 1..n : s[i].account = a}
           f(s) == [i \in DOMAIN s |-> Signed(s[i])]
<1>0. n \in Nat /\ 1..n \subseteq DOMAIN es /\ 1..n \subseteq DOMAIN fs
  BY DEF IsJournal
<1>1. I(fs) = I(es)
  OBVIOUS
<1>2. \A i \in I(es) : f(fs)[i] = f(es)[i]
  BY <1>0 DEF Signed
<1>3. IsFiniteSet(I(es))
  BY <1>0, SomePositions
<1>4. Net(fs, a, n) = SumFunctionOnSet(f(fs), I(fs)) /\ Net(es, a, n) = SumFunctionOnSet(f(es), I(es))
  BY DEF Net
<1> HIDE DEF I, f
<1>5. SumFunctionOnSet(f(fs), I(es)) = SumFunctionOnSet(f(es), I(es))
  BY <1>2, <1>3, SumCong
<1> QED
  BY <1>1, <1>4, <1>5

\* A journal whose debits and credits add up to the same moves money and makes
\* none: over all accounts it moves nothing.
LEMMA NetBalances ==
  ASSUME NEW es, IsJournal(es), IsFiniteSet(Accounts),
         TotalOf(es, Debits(es)) = TotalOf(es, Credits(es))
  PROVE  SumFunctionOnSet([a \in Accounts |-> Net(es, a, Len(es))], Accounts) = 0
<1> DEFINE f == [i \in DOMAIN es |-> Signed(es[i])]
           amt == [i \in DOMAIN es |-> es[i].amount]
           k == [i \in DOMAIN es |-> es[i].account]
           S == DOMAIN es
<1>1. IsFiniteSet(S) /\ S = 1..Len(es) /\ IsFiniteSet(Debits(es)) /\ IsFiniteSet(Credits(es))
  BY SomePositions DEF IsJournal, Debits, Credits
<1>2. \A i \in S : f[i] \in Int /\ amt[i] \in Int /\ k[i] \in Accounts
  BY SignedInt DEF IsJournal
<1>3. Debits(es) \in SUBSET S /\ S \ Debits(es) = Credits(es)
  BY DEF IsJournal, Debits, Credits, EntryType
<1>4. \A i \in Debits(es) : amt[i] \in Int /\ f[i] = - amt[i]
  BY <1>2 DEF Debits, Signed
<1>5. \A i \in Credits(es) : amt[i] \in Int /\ f[i] = amt[i]
  BY <1>2 DEF Credits, Signed
<1>6. TotalOf(es, Debits(es)) = SumFunctionOnSet(amt, Debits(es)) /\ TotalOf(es, Credits(es)) = SumFunctionOnSet(amt, Credits(es))
  BY DEF TotalOf
<1> DEFINE net == [a \in Accounts |-> Net(es, a, Len(es))]
<1>7. ASSUME NEW a \in Accounts PROVE net[a] = SumFunctionOnSet(f, ClassOf(k, S, a))
  <2>1. ClassOf(k, S, a) = {i \in 1..Len(es) : es[i].account = a}
    BY <1>1 DEF ClassOf
  <2> QED
    BY <2>1 DEF Net
<1> HIDE DEF f, amt, k, S, net
<1>9. SumFunctionOnSet(f, S) = SumFunctionOnSet(f, Debits(es)) + SumFunctionOnSet(f, Credits(es))
  <2>1. SumFunctionOnSet(f, S) = SumFunctionOnSet(f, Debits(es)) + SumFunctionOnSet(f, S \ Debits(es))
    BY <1>1, <1>2, <1>3, SumSplit
  <2> QED
    BY <1>3, <2>1
<1>10. SumFunctionOnSet(f, Debits(es)) = - SumFunctionOnSet(amt, Debits(es))
  BY <1>1, <1>4, SumNeg
<1>11. SumFunctionOnSet(f, Credits(es)) = SumFunctionOnSet(amt, Credits(es))
  BY <1>1, <1>5, SumCong
<1>12. SumFunctionOnSet(amt, Debits(es)) \in Int
  BY <1>1, <1>4, SumType
<1>13. SumFunctionOnSet(net, Accounts) = SumFunctionOnSet(f, S)
  <2>1. (\A i \in S : f[i] \in Int) /\ (\A i \in S : k[i] \in Accounts) /\ IsFiniteSet(S)
    BY <1>1, <1>2
  <2>2. \A a \in Accounts : net[a] = SumFunctionOnSet(f, ClassOf(k, S, a))
    BY <1>7
  <2> QED
    BY <2>1, <2>2, SumPartition
<1>14. SumFunctionOnSet(amt, Debits(es)) = SumFunctionOnSet(amt, Credits(es))
  BY <1>6
<1>15. SumFunctionOnSet(net, Accounts) = 0
  BY <1>14, <1>9, <1>10, <1>11, <1>12, <1>13
<1> QED
  BY <1>15 DEF net

-----------------------------------------------------------------------------
(* The loop of prepareLedgerEntries.                                       *)

IsRun(g, es, balance, n) ==
    g = [i \in 0..n |-> IF i = 0 THEN balance
                        ELSE [g[i - 1] EXCEPT ![es[i].account] = @ + Signed(es[i])]]

LEMMA RunExists ==
  ASSUME NEW es, NEW balance
  PROVE  \A n \in Nat : \E g : IsRun(g, es, balance, n)
<1> DEFINE T == {n \in Nat : \E g : IsRun(g, es, balance, n)}
<1>1. 0 \in T
  <2>1. IsRun([i \in 0..0 |-> balance], es, balance, 0)
    BY DEF IsRun
  <2> QED
    BY <2>1
<1>2. ASSUME NEW n \in Nat, n \in T PROVE n + 1 \in T
  <2>1. PICK g : IsRun(g, es, balance, n)
    BY <1>2
  <2> DEFINE Step(r, i) == IF i = 0 THEN balance
                           ELSE [r[i - 1] EXCEPT ![es[i].account] = @ + Signed(es[i])]
             h == [i \in 0..(n + 1) |-> Step(g, i)]
  <2>2. ASSUME NEW i \in 0..(n + 1) PROVE h[i] = Step(h, i)
    <3>1. CASE i = 0
      BY <3>1
    <3>2. CASE i # 0
      <4>1. i - 1 \in 0..n /\ i - 1 \in 0..(n + 1)
        BY <3>2
      <4>2. g[i - 1] = Step(g, i - 1)
        BY <2>1, <4>1 DEF IsRun
      <4>3. h[i - 1] = Step(g, i - 1)
        BY <4>1
      <4>4. h[i - 1] = g[i - 1]
        BY <4>2, <4>3
      <4> HIDE DEF h
      <4>5. Step(h, i) = Step(g, i)
        BY <3>2, <4>4
      <4> QED
        BY <4>5 DEF h
    <3> QED
      BY <3>1, <3>2
  <2>3. IsRun(h, es, balance, n + 1)
    BY <2>2 DEF IsRun
  <2> HIDE DEF h
  <2>4. \E r : IsRun(r, es, balance, n + 1)
    BY <2>3
  <2> QED
    BY <2>4
<1>3. Nat \subseteq T
  <2> HIDE DEF T
  <2> QED
    BY <1>1, <1>2, Inductive
<1> QED
  BY <1>3

\* One round of the loop.
LEMMA BalancesStep ==
  ASSUME NEW es, IsJournal(es), NEW balance
  PROVE  /\ BalancesAfter(es, balance)[0] = balance
         /\ \A i \in 1..Len(es) :
              BalancesAfter(es, balance)[i]
                = [BalancesAfter(es, balance)[i - 1] EXCEPT ![es[i].account] = @ + Signed(es[i])]
<1> DEFINE n == Len(es)
           g == CHOOSE r : IsRun(r, es, balance, n)
<1>1. BalancesAfter(es, balance) = g
  BY DEF BalancesAfter, IsRun
<1>2. n \in Nat
  BY DEF IsJournal
<1>3. IsRun(g, es, balance, n)
  BY <1>2, RunExists
<1> HIDE DEF g
<1>4. g[0] = balance
  BY <1>2, <1>3 DEF IsRun
<1>5. ASSUME NEW i \in 1..n
      PROVE  g[i] = [g[i - 1] EXCEPT ![es[i].account] = @ + Signed(es[i])]
  <2>1. i \in 0..n /\ i # 0
    BY <1>2
  <2> QED
    BY <1>3, <2>1 DEF IsRun
<1> QED
  BY <1>1, <1>4, <1>5

\* The balances in memory are the balances before the journal and what the entries
\* so far have moved.
RunsFrom(es, D, balance) ==
    \A i \in 0..Len(es) :
        /\ BalancesAfter(es, balance)[i] \in [D -> Int]
        /\ \A a \in D : BalancesAfter(es, balance)[i][a] = balance[a] + Net(es, a, i)

LEMMA BalancesAreNet ==
  ASSUME NEW es, IsJournal(es), NEW D, AccountsOf(es) \subseteq D,
         NEW balance \in [D -> Int]
  PROVE  RunsFrom(es, D, balance)
<1> DEFINE b(i) == BalancesAfter(es, balance)[i]
           Good(i) == b(i) \in [D -> Int] /\ \A a \in D : b(i)[a] = balance[a] + Net(es, a, i)
           T == {i \in Nat : i <= Len(es) => Good(i)}
<1>0. Len(es) \in Nat
  BY DEF IsJournal
<1>1. 0 \in T
  <2>1. b(0) = balance
    BY BalancesStep
  <2>2. \A a \in D : Net(es, a, 0) = 0
    BY NetZero
  <2> HIDE DEF b
  <2> QED
    BY <2>1, <2>2
<1>2. ASSUME NEW i \in Nat, i \in T PROVE i + 1 \in T
  <2> SUFFICES ASSUME i + 1 <= Len(es) PROVE Good(i + 1)
    OBVIOUS
  <2>1. i + 1 \in 1..Len(es) /\ (i + 1) - 1 = i /\ i <= Len(es) /\ i + 1 \in DOMAIN es
    BY <1>0 DEF IsJournal
  <2>2. Good(i)
    BY <1>2, <2>1
  <2> DEFINE e == es[i + 1]
  <2>3. b(i + 1) = [b(i) EXCEPT ![e.account] = @ + Signed(e)]
    <3>1. \A j \in 1..Len(es) : b(j) = [b(j - 1) EXCEPT ![es[j].account] = @ + Signed(es[j])]
      BY BalancesStep
    <3> HIDE DEF b
    <3> QED
      BY <2>1, <3>1
  <2>4. e.account \in D /\ Signed(e) \in Int
    BY <2>1, SignedInt DEF AccountsOf
  <2>5. ASSUME NEW a \in D
        PROVE  Net(es, a, i + 1) = Net(es, a, i) + (IF e.account = a THEN Signed(e) ELSE 0)
               /\ Net(es, a, i) \in Int
    <3>1. Net(es, a, i + 1) = Net(es, a, (i + 1) - 1)
                                 + (IF es[i + 1].account = a THEN Signed(es[i + 1]) ELSE 0)
          /\ Net(es, a, (i + 1) - 1) \in Int
      BY <2>1, NetStep
    <3> QED
      BY <2>1, <3>1
  <2> HIDE DEF b, e
  <2>6. b(i + 1) \in [D -> Int]
    <3>1. b(i) \in [D -> Int]
      BY <2>2
    <3>2. b(i)[e.account] + Signed(e) \in Int
      BY <2>4, <3>1
    <3> HIDE DEF Good, T
    <3> QED
      BY <2>3, <3>1, <3>2
  <2>7. ASSUME NEW a \in D PROVE b(i + 1)[a] = balance[a] + Net(es, a, i + 1)
    <3>1. b(i)[a] = balance[a] + Net(es, a, i) /\ balance[a] \in Int
      BY <2>2
    <3>2. b(i + 1)[a] = IF e.account = a THEN b(i)[a] + Signed(e) ELSE b(i)[a]
      BY <2>2, <2>3
    <3>3. Net(es, a, i + 1) = Net(es, a, i) + (IF e.account = a THEN Signed(e) ELSE 0)
          /\ Net(es, a, i) \in Int
      BY <2>5
    <3> QED
      BY <2>4, <3>1, <3>2, <3>3
  <2> QED
    BY <2>6, <2>7
<1>3. Nat \subseteq T
  <2> HIDE DEF T
  <2> QED
    BY <1>1, <1>2, Inductive
<1> QED
  BY <1>0, <1>3 DEF RunsFrom

\* A journal with one debit, which the balance covers, never takes a wallet below
\* zero, whatever the order of its entries.
LEMMA NoWalletBelowZero ==
  ASSUME NEW es, IsJournal(es), NEW D, AccountsOf(es) \subseteq D,
         NEW balance \in [D -> Int], \A w \in Wallets \cap D : balance[w] >= 0,
         \A i \in DOMAIN es : es[i].amount > 0,
         \A i, j \in Debits(es) : i = j,
         SufficientBalances(es, balance)
  PROVE  \A i \in 0..Len(es) : \A w \in Wallets \cap D : BalancesAfter(es, balance)[i][w] >= 0
<1> DEFINE b(i) == BalancesAfter(es, balance)[i]
           Good(i) == /\ \A w \in Wallets \cap D : b(i)[w] >= 0
                      /\ \A j \in Debits(es) :
                           j > i /\ es[j].account \in Wallets
                             => b(i)[es[j].account] >= es[j].amount
           T == {i \in Nat : i <= Len(es) => Good(i)}
<1>0. Len(es) \in Nat /\ DOMAIN es = 1..Len(es)
  BY DEF IsJournal
<1>1. 0 \in T
  <2>1. b(0) = balance
    BY BalancesStep
  <2> HIDE DEF b
  <2> QED
    BY <2>1 DEF SufficientBalances, Debits
<1>2. ASSUME NEW i \in Nat, i \in T PROVE i + 1 \in T
  <2> SUFFICES ASSUME i + 1 <= Len(es) PROVE Good(i + 1)
    OBVIOUS
  <2>1. i + 1 \in 1..Len(es) /\ (i + 1) - 1 = i /\ i <= Len(es) /\ i + 1 \in DOMAIN es
    BY <1>0
  <2>2. Good(i)
    BY <1>2, <2>1
  <2> DEFINE e == es[i + 1]
  <2>3. b(i + 1) = [b(i) EXCEPT ![e.account] = @ + Signed(e)]
    <3>1. \A j \in 1..Len(es) : b(j) = [b(j - 1) EXCEPT ![es[j].account] = @ + Signed(es[j])]
      BY BalancesStep
    <3> HIDE DEF b
    <3> QED
      BY <2>1, <3>1
  <2>4. b(i) \in [D -> Int]
    <3>1. i \in 0..Len(es)
      BY <1>0, <2>1
    <3>2. \A j \in 0..Len(es) : BalancesAfter(es, balance)[j] \in [D -> Int]
      BY BalancesAreNet DEF RunsFrom
    <3> QED
      BY <3>1, <3>2
  <2>5. e.account \in D /\ e.amount \in Int /\ e.amount > 0 /\ e.type \in {"DEBIT", "CREDIT"}
    BY <2>1 DEF AccountsOf, IsJournal, EntryType
  <2>6. \A a \in D : b(i + 1)[a] = IF a = e.account THEN b(i)[a] + Signed(e) ELSE b(i)[a]
    <3> HIDE DEF b, e
    <3> QED
      BY <2>3, <2>4
  <2>7. \A j \in Debits(es) : es[j].account \in D /\ es[j].amount \in Int /\ j \in 1..Len(es)
    BY <1>0 DEF Debits, AccountsOf, IsJournal
  <2>8. CASE e.type = "DEBIT"
    <3>1. i + 1 \in Debits(es) /\ Signed(e) = - e.amount
      BY <2>1, <2>8 DEF Debits, Signed
    <3>2. e.account \in Wallets => b(i)[e.account] >= e.amount
      BY <2>2, <3>1
    <3>3. ASSUME NEW w \in Wallets \cap D PROVE b(i + 1)[w] >= 0
      <4>1. b(i)[w] \in Int /\ b(i)[w] >= 0
        BY <2>2, <2>4
      <4>2. b(i + 1)[w] = IF w = e.account THEN b(i)[w] + Signed(e) ELSE b(i)[w]
        BY <2>6
      <4> HIDE DEF b, e
      <4> QED
        BY <2>5, <3>1, <3>2, <4>1, <4>2
    <3>4. \A j \in Debits(es) : ~(j > i + 1)
      BY <3>1
    <3> QED
      BY <3>3, <3>4
  <2>9. CASE e.type = "CREDIT"
    <3>1. Signed(e) = e.amount
      BY <2>9 DEF Signed
    <3>2. \A a \in D : b(i + 1)[a] >= b(i)[a] /\ b(i + 1)[a] \in Int /\ b(i)[a] \in Int
      <4> HIDE DEF b, e
      <4> QED
        BY <2>4, <2>5, <2>6, <3>1
    <3>3. ASSUME NEW w \in Wallets \cap D PROVE b(i + 1)[w] >= 0
      <4>1. b(i)[w] >= 0 /\ b(i + 1)[w] >= b(i)[w] /\ b(i + 1)[w] \in Int /\ b(i)[w] \in Int
        BY <2>2, <3>2
      <4> HIDE DEF b
      <4> QED
        BY <4>1
    <3>4. ASSUME NEW j \in Debits(es), j > i + 1, es[j].account \in Wallets
          PROVE  b(i + 1)[es[j].account] >= es[j].amount
      <4>1. j > i
        BY <2>7, <3>4
      <4>2. b(i)[es[j].account] >= es[j].amount
        BY <2>2, <3>4, <4>1
      <4>3. es[j].account \in D /\ es[j].amount \in Int
        BY <2>7
      <4>4. /\ b(i + 1)[es[j].account] >= b(i)[es[j].account]
            /\ b(i + 1)[es[j].account] \in Int /\ b(i)[es[j].account] \in Int
        BY <3>2, <4>3
      <4> HIDE DEF b
      <4> QED
        BY <4>2, <4>3, <4>4
    <3> QED
      BY <3>3, <3>4
  <2> QED
    BY <2>5, <2>8, <2>9
<1>3. Nat \subseteq T
  <2> HIDE DEF T
  <2> QED
    BY <1>1, <1>2, Inductive
<1> QED
  BY <1>0, <1>3

-----------------------------------------------------------------------------
(* Building the journal of a payment.                                      *)

\* es, with one entry more if the amount is positive.
Extended(fs, es, a, type, amount) ==
    /\ fs \in Seq(Entry)
    /\ amount <= 0 => fs = es
    /\ amount > 0 => /\ Len(fs) = Len(es) + 1
                     /\ \A i \in 1..Len(es) : fs[i] = es[i]
                     /\ fs[Len(es) + 1] = [account |-> a, type |-> type, amount |-> amount]

LEMMA AddEntryFacts ==
  ASSUME NEW es \in Seq(Entry), NEW a \in Accounts, NEW type \in EntryType, NEW amount \in Int
  PROVE  Extended(AddEntry(es, a, type, amount), es, a, type, amount)
<1> DEFINE e == [account |-> a, type |-> type, amount |-> amount]
<1>1. e \in Entry
  BY DEF Entry
<1> HIDE DEF e
<1>2. /\ Append(es, e) \in Seq(Entry)
      /\ Len(Append(es, e)) = Len(es) + 1
      /\ \A i \in 1..Len(es) : Append(es, e)[i] = es[i]
      /\ Append(es, e)[Len(es) + 1] = e
  BY <1>1
<1>3. AddEntry(es, a, type, amount) = IF amount <= 0 THEN es ELSE Append(es, e)
  BY DEF AddEntry, e
<1>4. CASE amount <= 0
  <2>1. AddEntry(es, a, type, amount) = es /\ ~(amount > 0)
    BY <1>3, <1>4
  <2> QED
    BY <2>1 DEF Extended
<1>5. CASE amount > 0
  <2>1. AddEntry(es, a, type, amount) = Append(es, e) /\ ~(amount <= 0)
    BY <1>3, <1>5
  <2> QED
    BY <1>2, <2>1 DEF Extended, e
<1> QED
  BY <1>4, <1>5

LEMMA TotalInt ==
  ASSUME NEW es, IsJournal(es), NEW I \in SUBSET DOMAIN es
  PROVE  TotalOf(es, I) \in Int
<1> DEFINE f == [i \in DOMAIN es |-> es[i].amount]
<1>1. IsFiniteSet(I)
  BY SomePositions DEF IsJournal
<1>2. \A i \in I : f[i] \in Int
  BY DEF IsJournal
<1> HIDE DEF f
<1>3. SumFunctionOnSet(f, I) \in Int
  BY <1>1, <1>2, SumType
<1> QED
  BY <1>3 DEF TotalOf, f

\* The total of a selection, when one entry is appended.
LEMMA TotalExtend ==
  ASSUME NEW es, IsJournal(es), NEW fs, IsJournal(fs), Len(fs) = Len(es) + 1,
         \A i \in 1..Len(es) : fs[i] = es[i], NEW I \in SUBSET (1..Len(es))
  PROVE  /\ TotalOf(fs, I) = TotalOf(es, I)
         /\ TotalOf(fs, I \cup {Len(fs)}) = TotalOf(es, I) + fs[Len(fs)].amount
<1> DEFINE f == [i \in DOMAIN es |-> es[i].amount]
           g == [i \in DOMAIN fs |-> fs[i].amount]
           n == Len(fs)
<1>1. n \in 1..n /\ n \notin I /\ DOMAIN es = 1..Len(es) /\ DOMAIN fs = 1..n
      /\ Len(es) \in Nat /\ I \subseteq DOMAIN es /\ I \subseteq DOMAIN fs
  BY DEF IsJournal
<1>2. IsFiniteSet(I)
  BY <1>1, SomePositions
<1>3. /\ \A i \in I : f[i] = g[i] /\ f[i] \in Int /\ g[i] \in Int
      /\ g[n] = fs[n].amount /\ g[n] \in Int
  BY <1>1 DEF IsJournal
<1>4. /\ TotalOf(es, I) = SumFunctionOnSet(f, I)
      /\ TotalOf(fs, I) = SumFunctionOnSet(g, I)
      /\ TotalOf(fs, I \cup {n}) = SumFunctionOnSet(g, I \cup {n})
  BY DEF TotalOf
<1> HIDE DEF f, g, n
<1>5. SumFunctionOnSet(f, I) = SumFunctionOnSet(g, I)
  BY <1>2, <1>3, SumCong
<1>6. SumFunctionOnSet(g, I \cup {n}) = g[n] + SumFunctionOnSet(g, I)
  BY <1>1, <1>2, <1>3, SumAdd
<1>7. SumFunctionOnSet(g, I) \in Int
  BY <1>2, <1>3, SumType
<1>8. TotalOf(fs, I \cup {n}) = TotalOf(es, I) + fs[n].amount
  BY <1>3, <1>4, <1>5, <1>6, <1>7
<1> QED
  BY <1>4, <1>5, <1>8 DEF n

AtLeastZero(n) == IF n > 0 THEN n ELSE 0

\* What one more entry does to the totals of a journal and to what it moves.
LEMMA AddEntryTotals ==
  ASSUME NEW es \in Seq(Entry), NEW a \in Accounts, NEW type \in EntryType, NEW amount \in Int,
         NEW fs, fs = AddEntry(es, a, type, amount)
  PROVE  /\ TotalOf(fs, Debits(fs)) = TotalOf(es, Debits(es))
                                        + (IF type = "DEBIT" THEN AtLeastZero(amount) ELSE 0)
         /\ TotalOf(fs, Credits(fs)) = TotalOf(es, Credits(es))
                                         + (IF type = "CREDIT" THEN AtLeastZero(amount) ELSE 0)
         /\ \A b : Net(fs, b, Len(fs)) = Net(es, b, Len(es)) +
              (IF b # a THEN 0
               ELSE IF type = "DEBIT" THEN - AtLeastZero(amount) ELSE AtLeastZero(amount))
<1>0. Extended(fs, es, a, type, amount)
  BY AddEntryFacts
<1>1. IsJournal(es) /\ IsJournal(fs)
  BY <1>0, EntriesAreJournals DEF Extended
<1>2. /\ TotalOf(es, Debits(es)) \in Int /\ TotalOf(es, Credits(es)) \in Int
      /\ \A b : Net(es, b, Len(es)) \in Int
  <2>1. Debits(es) \in SUBSET DOMAIN es /\ Credits(es) \in SUBSET DOMAIN es
    BY DEF Debits, Credits
  <2>2. Len(es) \in 0..Len(es)
    OBVIOUS
  <2> QED
    BY <1>1, <2>1, <2>2, TotalInt, NetType
<1>3. CASE amount <= 0
  <2>1. fs = es
    BY <1>0, <1>3 DEF Extended
  <2>2. AtLeastZero(amount) = 0
    BY <1>3 DEF AtLeastZero
  <2> QED
    BY <1>2, <2>1, <2>2
<1>4. CASE amount > 0
  <2> DEFINE n == Len(es)
             e == [account |-> a, type |-> type, amount |-> amount]
  <2>1. /\ Len(fs) = n + 1 /\ DOMAIN fs = 1..(n + 1) /\ fs[n + 1] = e
        /\ \A i \in 1..n : fs[i] = es[i]
    BY <1>0, <1>1, <1>4 DEF Extended, IsJournal
  <2>2. n \in Nat /\ DOMAIN es = 1..n /\ n + 1 \notin 1..n /\ n + 1 \in 1..(n + 1)
    BY DEF IsJournal
  <2>3. AtLeastZero(amount) = amount
    BY <1>4 DEF AtLeastZero
  <2>4. Debits(es) \in SUBSET (1..n) /\ Credits(es) \in SUBSET (1..n)
    BY <2>2 DEF Debits, Credits
  <2>5. /\ TotalOf(fs, Debits(es)) = TotalOf(es, Debits(es))
        /\ TotalOf(fs, Debits(es) \cup {n + 1}) = TotalOf(es, Debits(es)) + amount
        /\ TotalOf(fs, Credits(es)) = TotalOf(es, Credits(es))
        /\ TotalOf(fs, Credits(es) \cup {n + 1}) = TotalOf(es, Credits(es)) + amount
    <3>1. fs[Len(fs)].amount = amount /\ Len(fs) = n + 1
      BY <2>1
    <3>2. ASSUME NEW I \in SUBSET (1..n)
          PROVE  /\ TotalOf(fs, I) = TotalOf(es, I)
                 /\ TotalOf(fs, I \cup {n + 1}) = TotalOf(es, I) + amount
      <4>1. /\ TotalOf(fs, I) = TotalOf(es, I)
            /\ TotalOf(fs, I \cup {Len(fs)}) = TotalOf(es, I) + fs[Len(fs)].amount
        <5>1. Len(fs) = Len(es) + 1 /\ \A i \in 1..Len(es) : fs[i] = es[i]
          BY <2>1
        <5>2. I \in SUBSET (1..Len(es))
          OBVIOUS
        <5> QED
          BY <1>1, <5>1, <5>2, TotalExtend
      <4> QED
        BY <3>1, <4>1
    <3> QED
      BY <2>4, <3>2
  <2>6. \A b : Net(fs, b, n + 1) = Net(es, b, n) + (IF a = b THEN Signed(e) ELSE 0)
    <3> SUFFICES ASSUME NEW b
                 PROVE  Net(fs, b, n + 1) = Net(es, b, n) + (IF a = b THEN Signed(e) ELSE 0)
      OBVIOUS
    <3>1. n + 1 \in 1..Len(fs) /\ (n + 1) - 1 = n /\ n \in 0..Len(es) /\ n <= Len(fs)
      BY <2>1, <2>2
    <3>2. Net(fs, b, n + 1) = Net(fs, b, (n + 1) - 1)
                                + (IF fs[n + 1].account = b THEN Signed(fs[n + 1]) ELSE 0)
      BY <1>1, <3>1, NetStep
    <3>3. Net(fs, b, n) = Net(es, b, n)
      BY <1>1, <2>1, <3>1, NetSame
    <3> QED
      BY <2>1, <3>1, <3>2, <3>3
  <2>7. Signed(e) = IF type = "DEBIT" THEN - amount ELSE amount
    BY DEF Signed
  <2>8. \A b : Net(fs, b, Len(fs)) = Net(es, b, Len(es)) +
              (IF b # a THEN 0
               ELSE IF type = "DEBIT" THEN - AtLeastZero(amount) ELSE AtLeastZero(amount))
    BY <2>1, <2>3, <2>6, <2>7
  <2>9. CASE type = "DEBIT"
    <3>1. Debits(fs) = Debits(es) \cup {n + 1} /\ Credits(fs) = Credits(es)
      BY <2>1, <2>2, <2>9 DEF Debits, Credits
    <3>2. TotalOf(fs, Debits(fs)) = TotalOf(es, Debits(es)) + AtLeastZero(amount)
      BY <2>3, <2>5, <3>1
    <3>3. TotalOf(fs, Credits(fs)) = TotalOf(es, Credits(es)) + 0
      BY <1>2, <2>5, <3>1
    <3> QED
      BY <2>8, <2>9, <3>2, <3>3
  <2>10. CASE type = "CREDIT"
    <3>1. Credits(fs) = Credits(es) \cup {n + 1} /\ Debits(fs) = Debits(es)
      BY <2>1, <2>2, <2>10 DEF Debits, Credits
    <3>2. TotalOf(fs, Credits(fs)) = TotalOf(es, Credits(es)) + AtLeastZero(amount)
      BY <2>3, <2>5, <3>1
    <3>3. TotalOf(fs, Debits(fs)) = TotalOf(es, Debits(es)) + 0
      BY <1>2, <2>5, <3>1
    <3> QED
      BY <2>8, <2>10, <3>2, <3>3
  <2> QED
    BY <2>9, <2>10 DEF EntryType
<1> QED
  BY <1>3, <1>4

\* The debits of fs are d and the credits c more than those of es, on account a.
Effect(fs, es, a, d, c) ==
    /\ fs \in Seq(Entry)
    /\ TotalOf(fs, Debits(fs)) = TotalOf(es, Debits(es)) + d
    /\ TotalOf(fs, Credits(fs)) = TotalOf(es, Credits(es)) + c
    /\ \A b : Net(fs, b, Len(fs)) = Net(es, b, Len(es)) + (IF b # a THEN 0 ELSE c - d)

LEMMA AddEntryEffect ==
  ASSUME NEW es \in Seq(Entry), NEW a \in Accounts, NEW amount \in Int
  PROVE  /\ Effect(AddEntry(es, a, "DEBIT", amount), es, a, AtLeastZero(amount), 0)
         /\ Effect(AddEntry(es, a, "CREDIT", amount), es, a, 0, AtLeastZero(amount))
<1> DEFINE ds == AddEntry(es, a, "DEBIT", amount)
           cs == AddEntry(es, a, "CREDIT", amount)
<1>1. "DEBIT" \in EntryType /\ "CREDIT" \in EntryType
  BY DEF EntryType
<1>2. ds \in Seq(Entry) /\ cs \in Seq(Entry)
  BY <1>1, AddEntryFacts DEF Extended
<1>3. AtLeastZero(amount) \in Int
  BY DEF AtLeastZero
<1>4. ds = AddEntry(es, a, "DEBIT", amount) /\ cs = AddEntry(es, a, "CREDIT", amount)
  OBVIOUS
<1> HIDE DEF ds, cs
<1>5. /\ TotalOf(ds, Debits(ds)) = TotalOf(es, Debits(es)) + AtLeastZero(amount)
      /\ TotalOf(ds, Credits(ds)) = TotalOf(es, Credits(es)) + 0
      /\ \A b : Net(ds, b, Len(ds)) = Net(es, b, Len(es))
                                        + (IF b # a THEN 0 ELSE - AtLeastZero(amount))
  BY <1>1, <1>4, AddEntryTotals
<1>6. /\ TotalOf(cs, Debits(cs)) = TotalOf(es, Debits(es)) + 0
      /\ TotalOf(cs, Credits(cs)) = TotalOf(es, Credits(es)) + AtLeastZero(amount)
      /\ \A b : Net(cs, b, Len(cs)) = Net(es, b, Len(es))
                                        + (IF b # a THEN 0 ELSE AtLeastZero(amount))
  BY <1>1, <1>4, AddEntryTotals
<1>7. - AtLeastZero(amount) = 0 - AtLeastZero(amount) /\ AtLeastZero(amount) = AtLeastZero(amount) - 0
  BY <1>3
<1>8. Effect(ds, es, a, AtLeastZero(amount), 0)
  BY <1>2, <1>5, <1>7 DEF Effect
<1>9. Effect(cs, es, a, 0, AtLeastZero(amount))
  BY <1>2, <1>6, <1>7 DEF Effect
<1> QED
  BY <1>4, <1>8, <1>9

\* The totals of the journal of a payment, and what it moves on every account.
LEMMA PaymentTotals ==
  ASSUME NEW from \in Accounts, NEW to \in Accounts, NEW amount \in Int, amount > 0,
         NEW fee \in Int, NEW tax \in Int,
         NEW es, es = BuildJournalEntries(from, to, amount, fee, tax)
  PROVE  /\ es \in Seq(Entry)
         /\ TotalOf(es, Debits(es)) = AtLeastZero(amount + fee + tax)
         /\ TotalOf(es, Credits(es)) = amount + AtLeastZero(fee) + AtLeastZero(tax)
         /\ \A b : Net(es, b, Len(es)) = (IF b = from THEN - AtLeastZero(amount + fee + tax) ELSE 0)
                                         + (IF b = to THEN amount ELSE 0)
                                         + (IF b = FeeRevenue THEN AtLeastZero(fee) ELSE 0)
                                         + (IF b = Treasury THEN AtLeastZero(tax) ELSE 0)
<1> DEFINE total == amount + fee + tax
           e0 == <<>>
           e1 == AddEntry(e0, from, "DEBIT", total)
           e2 == AddEntry(e1, to, "CREDIT", amount)
           e3 == AddEntry(e2, FeeRevenue, "CREDIT", fee)
           e4 == AddEntry(e3, Treasury, "CREDIT", tax)
           D(s) == TotalOf(s, Debits(s))
           C(s) == TotalOf(s, Credits(s))
           N(s, b) == Net(s, b, Len(s))
<1>1. es = e4
  BY DEF BuildJournalEntries
<1>2. FeeRevenue \in Accounts /\ Treasury \in Accounts /\ total \in Int
  BY AccountTypes DEF Accounts
<1>3. e0 \in Seq(Entry) /\ D(e0) = 0 /\ C(e0) = 0 /\ \A b : N(e0, b) = 0
  <2>1. Debits(e0) = {} /\ Credits(e0) = {} /\ Len(e0) = 0
    BY DEF Debits, Credits
  <2>2. \A b : Net(e0, b, 0) = 0
    BY NetZero
  <2>3. TotalOf(e0, {}) = 0
    BY SumEmpty DEF TotalOf
  <2> QED
    BY <2>1, <2>2, <2>3
<1>4. AtLeastZero(amount) = amount /\ AtLeastZero(fee) \in Int /\ AtLeastZero(tax) \in Int
      /\ AtLeastZero(total) \in Int
  BY DEF AtLeastZero
<1> HIDE DEF total, e0, e1, e2, e3
<1>5. Effect(e1, e0, from, AtLeastZero(total), 0) /\ e1 \in Seq(Entry)
  BY <1>2, <1>3, AddEntryEffect DEF e1, Effect
<1>6. Effect(e2, e1, to, 0, AtLeastZero(amount)) /\ e2 \in Seq(Entry)
  BY <1>5, AddEntryEffect DEF e2, Effect
<1>7. Effect(e3, e2, FeeRevenue, 0, AtLeastZero(fee)) /\ e3 \in Seq(Entry)
  BY <1>2, <1>6, AddEntryEffect DEF e3, Effect
<1>8. Effect(e4, e3, Treasury, 0, AtLeastZero(tax)) /\ e4 \in Seq(Entry)
  BY <1>2, <1>7, AddEntryEffect DEF e4, Effect
<1> HIDE DEF e4
<1>9. /\ D(e1) = D(e0) + AtLeastZero(total) /\ C(e1) = C(e0) + 0
      /\ D(e2) = D(e1) + 0 /\ C(e2) = C(e1) + AtLeastZero(amount)
      /\ D(e3) = D(e2) + 0 /\ C(e3) = C(e2) + AtLeastZero(fee)
      /\ D(e4) = D(e3) + 0 /\ C(e4) = C(e3) + AtLeastZero(tax)
  BY <1>5, <1>6, <1>7, <1>8 DEF Effect
<1>10. ASSUME NEW b
       PROVE  /\ N(e1, b) = N(e0, b) + (IF b # from THEN 0 ELSE 0 - AtLeastZero(total))
              /\ N(e2, b) = N(e1, b) + (IF b # to THEN 0 ELSE AtLeastZero(amount) - 0)
              /\ N(e3, b) = N(e2, b) + (IF b # FeeRevenue THEN 0 ELSE AtLeastZero(fee) - 0)
              /\ N(e4, b) = N(e3, b) + (IF b # Treasury THEN 0 ELSE AtLeastZero(tax) - 0)
  BY <1>5, <1>6, <1>7, <1>8 DEF Effect
<1> HIDE DEF D, C, N
<1>11. D(e4) = AtLeastZero(total) /\ C(e4) = amount + AtLeastZero(fee) + AtLeastZero(tax)
  BY <1>3, <1>4, <1>9
<1>12. ASSUME NEW b
       PROVE  N(e4, b) = (IF b = from THEN - AtLeastZero(total) ELSE 0)
                          + (IF b = to THEN amount ELSE 0)
                          + (IF b = FeeRevenue THEN AtLeastZero(fee) ELSE 0)
                          + (IF b = Treasury THEN AtLeastZero(tax) ELSE 0)
  BY <1>3, <1>4, <1>10
<1> QED
  BY <1>1, <1>8, <1>11, <1>12 DEF D, C, N, total

\* The debit of the payer, the credit of the recipient, and credits of the accounts
\* that collect fee and tax.
IsPayment(es, from, to, amount, total) ==
    LET paid == IF total > 0 THEN 1 ELSE 0 IN
    /\ es \in Seq(Entry)
    /\ Len(es) >= paid + 1
    /\ total > 0 => es[1] = [account |-> from, type |-> "DEBIT", amount |-> total]
    /\ es[paid + 1] = [account |-> to, type |-> "CREDIT", amount |-> amount]
    /\ \A i \in 1..Len(es) : i > paid + 1 => /\ es[i].account \in SystemAccounts
                                             /\ es[i].type = "CREDIT"
                                             /\ es[i].amount > 0

LEMMA ChargeKeepsShape ==
  ASSUME NEW es, NEW from, NEW to, NEW amount, NEW total \in Int,
         IsPayment(es, from, to, amount, total),
         NEW s \in SystemAccounts, NEW charge \in Int
  PROVE  IsPayment(AddEntry(es, s, "CREDIT", charge), from, to, amount, total)
<1> DEFINE fs == AddEntry(es, s, "CREDIT", charge)
           paid == IF total > 0 THEN 1 ELSE 0
<1>1. es \in Seq(Entry) /\ s \in Accounts /\ "CREDIT" \in EntryType /\ Len(es) \in Nat
  BY DEF IsPayment, Accounts, EntryType
<1>4. Extended(fs, es, s, "CREDIT", charge)
  BY <1>1, AddEntryFacts
<1>2. CASE charge <= 0
  <2>1. fs = es
    BY <1>2, <1>4 DEF Extended
  <2> QED
    BY <2>1
<1>3. CASE charge > 0
  <2>1. /\ fs \in Seq(Entry) /\ Len(fs) = Len(es) + 1
        /\ \A i \in 1..Len(es) : fs[i] = es[i]
        /\ fs[Len(es) + 1] = [account |-> s, type |-> "CREDIT", amount |-> charge]
    BY <1>3, <1>4 DEF Extended
  <2>2. /\ Len(es) >= paid + 1 /\ paid \in {0, 1}
        /\ total > 0 => es[1] = [account |-> from, type |-> "DEBIT", amount |-> total]
        /\ es[paid + 1] = [account |-> to, type |-> "CREDIT", amount |-> amount]
        /\ \A i \in 1..Len(es) : i > paid + 1 => /\ es[i].account \in SystemAccounts
                                                 /\ es[i].type = "CREDIT"
                                                 /\ es[i].amount > 0
    BY DEF IsPayment
  <2> HIDE DEF fs
  <2>3. fs[1] = es[1] /\ fs[paid + 1] = es[paid + 1] /\ Len(fs) >= paid + 1
    BY <1>1, <2>1, <2>2
  <2>4. ASSUME NEW i \in 1..Len(fs), i > paid + 1
        PROVE  /\ fs[i].account \in SystemAccounts
               /\ fs[i].type = "CREDIT"
               /\ fs[i].amount > 0
    <3>1. CASE i = Len(es) + 1
      BY <1>3, <2>1, <3>1
    <3>2. CASE i # Len(es) + 1
      <4>1. i \in 1..Len(es)
        BY <1>1, <2>1, <3>2
      <4> QED
        BY <2>1, <2>2, <2>4, <4>1
    <3> QED
      BY <3>1, <3>2
  <2> QED
    BY <2>1, <2>2, <2>3, <2>4 DEF IsPayment, fs
<1> QED
  BY <1>2, <1>3

LEMMA PaymentShape ==
  ASSUME NEW from \in Accounts, NEW to \in Accounts, NEW amount \in Int, amount > 0,
         NEW fee \in Int, NEW tax \in Int
  PROVE  IsPayment(BuildJournalEntries(from, to, amount, fee, tax),
                   from, to, amount, amount + fee + tax)
<1> DEFINE total == amount + fee + tax
           e0 == <<>>
           e1 == AddEntry(e0, from, "DEBIT", total)
           e2 == AddEntry(e1, to, "CREDIT", amount)
           paid == IF total > 0 THEN 1 ELSE 0
<1>1. total \in Int /\ e0 \in Seq(Entry) /\ Len(e0) = 0 /\ "DEBIT" \in EntryType /\ "CREDIT" \in EntryType
  BY DEF EntryType
<1> HIDE DEF total, e0
<1>2. /\ e1 \in Seq(Entry) /\ Len(e1) = paid
      /\ total > 0 => e1[1] = [account |-> from, type |-> "DEBIT", amount |-> total]
  <2>1. Extended(e1, e0, from, "DEBIT", total)
    BY <1>1, AddEntryFacts
  <2> HIDE DEF e1
  <2>2. CASE total > 0
    BY <1>1, <2>1, <2>2 DEF Extended
  <2>3. CASE total <= 0
    BY <1>1, <2>1, <2>3 DEF Extended
  <2> QED
    BY <1>1, <2>2, <2>3
<1> HIDE DEF e1
<1>3. /\ e2 \in Seq(Entry) /\ Len(e2) = paid + 1
      /\ \A i \in 1..paid : e2[i] = e1[i]
      /\ e2[paid + 1] = [account |-> to, type |-> "CREDIT", amount |-> amount]
  <2>1. Extended(e2, e1, to, "CREDIT", amount)
    BY <1>1, <1>2, AddEntryFacts
  <2> HIDE DEF e2
  <2> QED
    BY <1>2, <2>1 DEF Extended
<1> HIDE DEF e2
<1>4. IsPayment(e2, from, to, amount, total)
  <2>1. total > 0 => e2[1] = e1[1]
    BY <1>3
  <2>2. \A i \in 1..Len(e2) : ~(i > paid + 1)
    BY <1>3
  <2> QED
    BY <1>2, <1>3, <2>1, <2>2 DEF IsPayment
<1>5. FeeRevenue \in SystemAccounts /\ Treasury \in SystemAccounts
  BY AccountTypes
<1>6. IsPayment(AddEntry(e2, FeeRevenue, "CREDIT", fee), from, to, amount, total)
  BY <1>1, <1>4, <1>5, ChargeKeepsShape
<1>7. IsPayment(AddEntry(AddEntry(e2, FeeRevenue, "CREDIT", fee), Treasury, "CREDIT", tax),
                from, to, amount, total)
  BY <1>1, <1>5, <1>6, ChargeKeepsShape
<1> QED
  BY <1>7 DEF BuildJournalEntries, total, e0, e1, e2

\* Who pays and who receives, among the entries of a payment.
LEMMA PaymentSides ==
  ASSUME NEW es, NEW from, NEW to, NEW amount \in Int, amount > 0, NEW total \in Int,
         IsPayment(es, from, to, amount, total), NEW paid, paid = IF total > 0 THEN 1 ELSE 0
  PROVE  /\ Debits(es) = IF total > 0 THEN {1} ELSE {}
         /\ paid + 1 \in Credits(es)
         /\ PaidBy(es) = IF total > 0 /\ from \in Wallets THEN {1} ELSE {}
         /\ ReceivedBy(es) = IF to \in Wallets THEN {paid + 1} ELSE {}
         /\ OnWallets(es) = PaidBy(es) \cup ReceivedBy(es)
         /\ \A i \in DOMAIN es : es[i].amount > 0
<1>1. /\ es \in Seq(Entry) /\ Len(es) >= paid + 1 /\ paid \in {0, 1} /\ (paid = 1 <=> total > 0)
      /\ total > 0 => /\ es[1].account = from /\ es[1].type = "DEBIT" /\ es[1].amount = total
      /\ es[paid + 1].account = to /\ es[paid + 1].type = "CREDIT" /\ es[paid + 1].amount = amount
      /\ \A i \in 1..Len(es) : i > paid + 1 => /\ es[i].account \in SystemAccounts
                                               /\ es[i].type = "CREDIT"
                                               /\ es[i].amount > 0
  BY DEF IsPayment
<1>2. DOMAIN es = 1..Len(es) /\ Len(es) \in Nat
  BY <1>1
<1>3. \A i \in SystemAccounts : i \notin Wallets
  BY AccountTypes
<1>4. \A i \in DOMAIN es : \/ i = 1 /\ total > 0 /\ paid = 1
                          \/ i = paid + 1
                          \/ i > paid + 1
  BY <1>1, <1>2
<1>5. (total > 0 => 1 \in DOMAIN es) /\ paid + 1 \in DOMAIN es /\ paid + 1 # 0
  BY <1>1, <1>2
<1>6. \A i \in DOMAIN es : es[i].amount > 0
  BY <1>1, <1>2, <1>4
<1>7. Debits(es) = IF total > 0 THEN {1} ELSE {}
  <2>1. \A i \in DOMAIN es : es[i].type = "DEBIT" <=> total > 0 /\ i = 1
    BY <1>1, <1>2, <1>4
  <2> QED
    BY <1>5, <2>1 DEF Debits
<1>8. \A i \in DOMAIN es : es[i].type = "CREDIT" <=> ~(total > 0 /\ i = 1)
  BY <1>1, <1>2, <1>4
<1>9. OnWallets(es) = (IF total > 0 /\ from \in Wallets THEN {1} ELSE {})
                        \cup (IF to \in Wallets THEN {paid + 1} ELSE {})
  <2>1. \A i \in DOMAIN es : es[i].account \in Wallets
              <=> ((total > 0 /\ i = 1 /\ from \in Wallets) \/ (i = paid + 1 /\ to \in Wallets))
    BY <1>1, <1>2, <1>3, <1>4
  <2> QED
    BY <1>5, <2>1 DEF OnWallets
<1>10. PaidBy(es) = IF total > 0 /\ from \in Wallets THEN {1} ELSE {}
  BY <1>1, <1>7, <1>9 DEF PaidBy
<1>11. paid + 1 \in Credits(es)
  BY <1>1, <1>5, <1>8 DEF Credits
<1>12. ReceivedBy(es) = IF to \in Wallets THEN {paid + 1} ELSE {}
  <2>1. total > 0 => 1 \notin Credits(es)
    BY <1>1 DEF Credits
  <2> QED
    BY <1>1, <1>9, <1>11, <2>1 DEF ReceivedBy
<1> QED
  BY <1>6, <1>7, <1>9, <1>10, <1>11, <1>12

-----------------------------------------------------------------------------
(* Refunds.                                                                *)

LEMMA InOrderSingle ==
  ASSUME NEW j
  PROVE  InOrder({j}) = [n \in 1..1 |-> j]
<1> DEFINE s == InOrder({j})
           P(t) == \A i, k \in DOMAIN t : i < k => t[i] < t[k]
<1>1. Cardinality({j}) = 1
  BY FS_Singleton
<1>2. [n \in 1..1 |-> j] \in [1..1 -> {j}] /\ P([n \in 1..1 |-> j])
  OBVIOUS
<1>3. s = CHOOSE t \in [1..1 -> {j}] : P(t)
  BY <1>1 DEF InOrder
<1> HIDE DEF s, P
<1>4. s \in [1..1 -> {j}]
  BY <1>2, <1>3
<1> QED
  BY <1>4 DEF s

\* One recipient gives back what it received, and a payer gets it.
LEMMA RefundShape ==
  ASSUME NEW es, IsJournal(es), NEW j, ReceivedBy(es) = {j}, PaidBy(es) # {}
  PROVE  \E p \in PaidBy(es) :
           RefundEntries(es)
             = <<[account |-> es[j].account, type |-> "DEBIT", amount |-> es[j].amount],
                 [account |-> es[p].account, type |-> "CREDIT", amount |-> es[j].amount]>>
<1> DEFINE p == CHOOSE i \in PaidBy(es) : \A k \in PaidBy(es) : i <= k
           d == [account |-> es[j].account, type |-> "DEBIT", amount |-> es[j].amount]
           c == [account |-> es[p].account, type |-> "CREDIT", amount |-> es[j].amount]
           one == [n \in 1..1 |-> j]
<1>1. PaidBy(es) \subseteq Nat
  BY DEF PaidBy, Debits, IsJournal
<1>2. \E i \in PaidBy(es) : \A k \in PaidBy(es) : i <= k
  BY <1>1, LeastNumber
<1>3. p \in PaidBy(es)
  BY <1>2
<1>4. TotalOf(es, {j}) = es[j].amount
  <2> DEFINE f == [i \in DOMAIN es |-> es[i].amount]
  <2>1. j \in DOMAIN es /\ f[j] = es[j].amount /\ f[j] \in Int
    BY DEF ReceivedBy, Credits, IsJournal
  <2> HIDE DEF f
  <2>2. SumFunctionOnSet(f, {j}) = f[j]
    BY <2>1, SumSingle
  <2> QED
    BY <2>1, <2>2 DEF TotalOf, f
<1>5. InOrder(ReceivedBy(es)) = one
  BY InOrderSingle
<1>6. RefundEntries(es)
        = Append([n \in DOMAIN one |-> [account |-> es[one[n]].account, type |-> "DEBIT",
                                        amount |-> es[one[n]].amount]], c)
  BY <1>4, <1>5 DEF RefundEntries
<1>7. [n \in DOMAIN one |-> [account |-> es[one[n]].account, type |-> "DEBIT",
                             amount |-> es[one[n]].amount]] = <<d>>
  OBVIOUS
<1> HIDE DEF d, c, p, one
<1>8. RefundEntries(es) = Append(<<d>>, c)
  BY <1>6, <1>7
<1>9. Append(<<d>>, c) = <<d, c>>
  <2>1. <<d>> \in Seq({d, c}) /\ Len(<<d>>) = 1 /\ <<d>>[1] = d /\ c \in {d, c}
    OBVIOUS
  <2>2. Append(<<d>>, c) \in Seq({d, c}) /\ Len(Append(<<d>>, c)) = 2
        /\ Append(<<d>>, c)[1] = d /\ Append(<<d>>, c)[2] = c
    BY <2>1
  <2>3. <<d, c>> \in Seq({d, c}) /\ Len(<<d, c>>) = 2 /\ <<d, c>>[1] = d /\ <<d, c>>[2] = c
    OBVIOUS
  <2>4. \A s, t \in Seq({d, c}) :
          Len(s) = 2 /\ Len(t) = 2 /\ s[1] = t[1] /\ s[2] = t[2] => s = t
    OBVIOUS
  <2> QED
    BY <2>2, <2>3, <2>4
<1>10. RefundEntries(es) = <<d, c>>
  BY <1>8, <1>9
<1> QED
  BY <1>3, <1>10 DEF d, c
=============================================================================
