------------------------------ MODULE DataLemmas ------------------------------
(***************************************************************************)
(* Induction over numbers and over finite sets, and what the library's     *)
(* operators on sets of numbers return: extremes and sums.  A predicate is *)
(* given as the set of what satisfies it, so that the lemmas can be cited  *)
(* for any predicate.                                                      *)
(***************************************************************************)
EXTENDS Integers, FiniteSets, FiniteSetsExt, Functions, FiniteSetTheorems, FunctionTheorems,
        WellFoundedInduction, TLAPS

\* A set of naturals that is not empty has a least one.
LEMMA Least ==
  ASSUME NEW T \in SUBSET Nat, T # {}
  PROVE  \E n \in T : \A m \in T : n <= m
<1> DEFINE R == {ss \in Nat \X Nat : ss[1] < ss[2]}
<1>1. R = OpToRel(<, Nat)  BY Zenon DEF OpToRel
<1>2. IsWellFoundedOn(R, Nat)  BY <1>1, NatLessThanWellFounded, Zenon
<1>3. \E n \in T : \A m \in T : ~(<<m, n>> \in R)
  <2> HIDE DEF R
  <2> QED BY <1>2, WFMin, Zenon
<1>4. PICK n \in T : \A m \in T : ~(<<m, n>> \in R)  BY <1>3
<1>5. \A m \in T : ~(m < n)
  <2> TAKE m \in T
  <2>1. <<m, n>> \in Nat \X Nat  OBVIOUS
  <2> QED  BY <1>4, <2>1
<1> QED  BY <1>5

\* What holds of 0 and goes from each number to the next holds of all.
LEMMA Induct ==
  ASSUME NEW T, 0 \in T, \A n \in Nat : n \in T => n + 1 \in T
  PROVE  \A n \in Nat : n \in T
<1> DEFINE B == Nat \ T
<1> SUFFICES ASSUME B # {} PROVE FALSE  OBVIOUS
<1>1. PICK n \in B : \A m \in B : n <= m  BY Least
<1>2. n # 0 /\ n \in Nat /\ n \notin T  OBVIOUS
<1>3. n - 1 \in Nat /\ ~(n <= n - 1)  BY <1>2
<1>4. n - 1 \in T  BY <1>1, <1>3
<1> QED  BY <1>2, <1>3, <1>4

\* A finite set of numbers that is not empty has a least and a greatest one.
LEMMA Extremes ==
  ASSUME NEW S \in SUBSET Int, IsFiniteSet(S), S # {}
  PROVE  /\ \E x \in S : \A y \in S : x >= y
         /\ \E x \in S : \A y \in S : x <= y
<1> DEFINE Has(A) == /\ \E x \in A : \A y \in A : x >= y
                     /\ \E x \in A : \A y \in A : x <= y
           T == {n \in Nat : \A A \in SUBSET Int :
                    IsFiniteSet(A) /\ Cardinality(A) = n /\ A # {} => Has(A)}
<1>1. 0 \in T  BY FS_EmptySet
<1>2. ASSUME NEW n \in Nat, n \in T PROVE n + 1 \in T
  <2> SUFFICES ASSUME NEW A \in SUBSET Int, IsFiniteSet(A), Cardinality(A) = n + 1, A # {}
               PROVE  Has(A)
    OBVIOUS
  <2>1. PICK a \in A : TRUE  OBVIOUS
  <2> DEFINE B == A \ {a}
  <2>2. IsFiniteSet(B) /\ Cardinality(B) = n
    <3>1. IsFiniteSet(B) /\ Cardinality(B) = Cardinality(A) - 1
      BY <2>1, FS_RemoveElement, Zenon
    <3> QED  BY <3>1
  <2>3. CASE B = {}
    <3>1. A = {a}  BY <2>3
    <3> QED  BY <3>1
  <2>4. CASE B # {}
    <3>1. Has(B)  BY <1>2, <2>2, <2>4
    <3>2. PICK x \in B : \A y \in B : x >= y  BY <3>1
    <3>3. PICK z \in B : \A y \in B : z <= y  BY <3>1
    <3>4. A = B \cup {a}  OBVIOUS
    <3>5. \E u \in A : \A y \in A : u >= y  BY <3>2, <3>4
    <3>6. \E u \in A : \A y \in A : u <= y  BY <3>3, <3>4
    <3> QED  BY <3>5, <3>6
  <2> QED  BY <2>3, <2>4
<1> HIDE DEF T
<1>3. \A n \in Nat : n \in T  BY <1>1, <1>2, Induct
<1>4. Cardinality(S) \in T  BY <1>3, FS_CardinalityType
<1> QED  BY <1>4 DEF T

\* They are what Max and Min choose.
LEMMA MaxOf ==
  ASSUME NEW S \in SUBSET Int, IsFiniteSet(S), S # {}
  PROVE  Max(S) \in S /\ \A y \in S : y <= Max(S)
BY Extremes DEF Max

\* The least one.
LEMMA MinOf ==
  ASSUME NEW S \in SUBSET Int, IsFiniteSet(S), S # {}
  PROVE  Min(S) \in S /\ \A y \in S : Min(S) <= y
BY Extremes DEF Min

\* Of two numbers, and of one.
LEMMA MaxMinOfTwo ==
  ASSUME NEW a \in Int, NEW b \in Int
  PROVE  /\ Max({a, b}) = IF a >= b THEN a ELSE b
         /\ Min({a, b}) = IF a <= b THEN a ELSE b
<1>1. IsFiniteSet({a, b})
  <2>1. {a, b} = {a} \cup {b}  OBVIOUS
  <2>2. IsFiniteSet({a})  BY FS_Singleton
  <2> QED  BY <2>1, <2>2, FS_AddElement, Zenon
<1>2. {a, b} \in SUBSET Int /\ {a, b} # {}  OBVIOUS
<1>3. Max({a, b}) \in {a, b} /\ a <= Max({a, b}) /\ b <= Max({a, b})  BY <1>1, <1>2, MaxOf
<1>4. Min({a, b}) \in {a, b} /\ a >= Min({a, b}) /\ b >= Min({a, b})  BY <1>1, <1>2, MinOf
<1> QED  BY <1>3, <1>4

\* The greatest of one number.
LEMMA MaxOfOne == ASSUME NEW a \in Int PROVE Max({a}) = a
<1>1. {a, a} = {a}  OBVIOUS
<1>2. Max({a, a}) = a  BY MaxMinOfTwo
<1> QED  BY <1>1, <1>2

\* A finite set's image under a function is finite.
LEMMA ImageIsFinite ==
  ASSUME NEW S, IsFiniteSet(S), NEW f, DOMAIN f = S
  PROVE  IsFiniteSet({f[x] : x \in S})
<1> DEFINE T == {f[x] : x \in S}
           g == [x \in S |-> f[x]]
<1>1. g \in [S -> T]  OBVIOUS
<1>2. \A t \in T : \E x \in S : g[x] = t  OBVIOUS
<1>3. g \in Surjection(S, T)  BY <1>1, <1>2 DEF Surjection
<1> QED  BY <1>3, FS_Surjection

\* A sequence of as many different elements as a set has holds all of them.
LEMMA EveryoneComesIn ==
  ASSUME NEW S, IsFiniteSet(S), NEW f \in [1 .. Cardinality(S) -> S],
         \A i, j \in 1 .. Cardinality(S) : i # j => f[i] # f[j]
  PROVE  \A c \in S : \E i \in 1 .. Cardinality(S) : f[i] = c
<1> DEFINE n == Cardinality(S)
<1>1. n \in Nat  BY FS_CardinalityType
<1>2. IsFiniteSet(1 .. n) /\ Cardinality(1 .. n) = n
  BY <1>1, FS_Interval
<1>3. f \in Injection(1 .. n, S)  BY Fun_IsInj
<1> HIDE DEF n
<1>4. f \in Surjection(1 .. n, S)
  <2>1. Cardinality(S) = n  BY DEF n
  <2> QED  BY <1>2, <1>3, <2>1, FS_Injection, Zenon
<1>5. \A c \in S : \E i \in 1 .. n : f[i] = c
  <2> DEFINE D == 1 .. n
  <2>1. f \in Surjection(D, S)  BY <1>4
  <2> HIDE DEF D
  <2>2. \A c \in S : \E i \in D : f[i] = c  BY <2>1, Fun_SurjectionProperties, Zenon
  <2> QED  BY <2>2 DEF D
<1> QED  BY <1>5 DEF n

-----------------------------------------------------------------------------
(* Sums.  The library takes the elements in the order CHOOSE gives them;   *)
(* the sum does not depend on it.                                          *)

pick(s) == CHOOSE x \in s : TRUE

\* What the recursion of SumFunctionOnSet asks of g at s.
SumStep(f, g, s) == IF s = {} THEN 0 ELSE f[pick(s)] + g[s \ {pick(s)}]

SumsUpto(f, g, S, n) ==
  /\ g = [s \in SUBSET S |-> g[s]]
  /\ \A s \in SUBSET S : Cardinality(s) <= n => g[s] = SumStep(f, g, s)

Sums(f, g, S) == g = [s \in SUBSET S |-> SumStep(f, g, s)]

\* It has a solution, which the library's operator takes.
LEMMA SumsExist ==
  ASSUME NEW f, NEW S, IsFiniteSet(S)
  PROVE  \E g : Sums(f, g, S) /\ SumFunctionOnSet(f, S) = g[S]
<1> DEFINE T == {n \in Nat : \E g : SumsUpto(f, g, S, n)}
<1>1. \A s \in SUBSET S : /\ IsFiniteSet(s) /\ Cardinality(s) \in Nat
                          /\ (Cardinality(s) = 0 => s = {})
  BY FS_Subset, FS_CardinalityType, FS_EmptySet
<1>2. \A s \in SUBSET S : s # {} => /\ pick(s) \in s /\ s \ {pick(s)} \in SUBSET S
                                    /\ Cardinality(s \ {pick(s)}) = Cardinality(s) - 1
  <2> TAKE s \in SUBSET S
  <2> HAVE s # {}
  <2>1. pick(s) \in s  BY DEF pick
  <2>2. Cardinality(s \ {pick(s)}) = Cardinality(s) - 1
    BY <1>1, <2>1, FS_RemoveElement, Zenon
  <2> QED  BY <2>1, <2>2
<1>3. 0 \in T
  <2> DEFINE g == [s \in SUBSET S |-> 0]
  <2>1. \A s \in SUBSET S : Cardinality(s) <= 0 => g[s] = SumStep(f, g, s)
    BY <1>1 DEF SumStep
  <2>2. SumsUpto(f, g, S, 0)  BY <2>1 DEF SumsUpto
  <2> HIDE DEF g
  <2> QED  BY <2>2
<1>4. ASSUME NEW n \in Nat, n \in T PROVE n + 1 \in T
  <2>1. PICK g : SumsUpto(f, g, S, n)  BY <1>4
  <2> DEFINE h == [s \in SUBSET S |-> SumStep(f, g, s)]
  <2>2. \A s \in SUBSET S : Cardinality(s) <= n => h[s] = g[s]  BY <2>1 DEF SumsUpto
  <2>3. \A s \in SUBSET S : Cardinality(s) <= n + 1 /\ s # {} => h[s \ {pick(s)}] = g[s \ {pick(s)}]
    <3> TAKE s \in SUBSET S
    <3> HAVE Cardinality(s) <= n + 1 /\ s # {}
    <3>1. Cardinality(s \ {pick(s)}) <= n  BY <1>1, <1>2
    <3> HIDE DEF h
    <3> QED  BY <1>2, <2>2, <3>1
  <2>4. \A s \in SUBSET S : h[s] = SumStep(f, g, s)  OBVIOUS
  <2>5. h = [s \in SUBSET S |-> h[s]]  OBVIOUS
  <2> HIDE DEF h
  <2>6. \A s \in SUBSET S : Cardinality(s) <= n + 1 => h[s] = SumStep(f, h, s)
    BY <2>3, <2>4 DEF SumStep
  <2>7. SumsUpto(f, h, S, n + 1)  BY <2>5, <2>6 DEF SumsUpto
  <2> QED  BY <2>7
<1> HIDE DEF T
<1>5. Cardinality(S) \in T  BY <1>1, <1>3, <1>4, Induct
<1>6. PICK g : SumsUpto(f, g, S, Cardinality(S))  BY <1>5 DEF T
<1>7. \A s \in SUBSET S : Cardinality(s) <= Cardinality(S)  BY FS_Subset
<1>8. g = [s \in SUBSET S |-> g[s]] /\ \A s \in SUBSET S : g[s] = SumStep(f, g, s)  BY <1>6, <1>7 DEF SumsUpto
<1>9. Sums(f, g, S)
  <2>1. [s \in SUBSET S |-> g[s]] = [s \in SUBSET S |-> SumStep(f, g, s)]  BY <1>8
  <2> QED  BY <1>8, <2>1, Zenon DEF Sums
<1> DEFINE it == CHOOSE it : Sums(f, it, S)
<1>10. Sums(f, it, S)  BY <1>9
<1>11. SumFunctionOnSet(f, S) = it[S]
  BY DEF SumFunctionOnSet, FoldFunctionOnSet, MapThenFoldSet, Sums, SumStep, pick
<1> HIDE DEF it
<1> QED  BY <1>10, <1>11

\* The sum of none, and of some in the order the library takes them.
LEMMA SumPick ==
  ASSUME NEW f, NEW S, IsFiniteSet(S)
  PROVE  \E g : /\ \A s \in SUBSET S : SumFunctionOnSet(f, s) = g[s]
               /\ \A s \in SUBSET S : g[s] = SumStep(f, g, s)
<1>1. PICK g : Sums(f, g, S)  BY SumsExist
<1>2. \A s \in SUBSET S : g[s] = SumStep(f, g, s)  BY <1>1 DEF Sums
<1>3. ASSUME NEW s \in SUBSET S PROVE SumFunctionOnSet(f, s) = g[s]
  <2>1. IsFiniteSet(s)  BY FS_Subset
  <2>2. PICK h : Sums(f, h, s) /\ SumFunctionOnSet(f, s) = h[s]  BY <2>1, SumsExist
  <2>3. \A r \in SUBSET s : h[r] = SumStep(f, h, r)  BY <2>2 DEF Sums
  <2> DEFINE T == {n \in Nat : \A r \in SUBSET s : Cardinality(r) = n => h[r] = g[r]}
  <2>4. \A r \in SUBSET s : IsFiniteSet(r) /\ Cardinality(r) \in Nat /\ r \in SUBSET S
    BY <2>1, FS_Subset, FS_CardinalityType
  <2>5. 0 \in T
    <3>1. \A r \in SUBSET s : Cardinality(r) = 0 => r = {}  BY <2>4, FS_EmptySet
    <3> QED  BY <1>2, <2>3, <3>1 DEF SumStep
  <2>6. ASSUME NEW n \in Nat, n \in T PROVE n + 1 \in T
    <3> SUFFICES ASSUME NEW r \in SUBSET s, Cardinality(r) = n + 1 PROVE h[r] = g[r]  OBVIOUS
    <3>1. r # {}
      <4>1. Cardinality(r) # 0  OBVIOUS
      <4> QED  BY <4>1, FS_EmptySet
    <3>2. pick(r) \in r  BY <3>1 DEF pick
    <3>3. Cardinality(r \ {pick(r)}) = Cardinality(r) - 1  BY <2>4, <3>2, FS_RemoveElement, Zenon
    <3>4. h[r \ {pick(r)}] = g[r \ {pick(r)}]
      <4>1. r \ {pick(r)} \in SUBSET s  OBVIOUS
      <4>2. Cardinality(r \ {pick(r)}) = n  BY <3>3
      <4> QED  BY <2>6, <4>1, <4>2
    <3>5. r \in SUBSET S  BY <2>4
    <3> HIDE DEF T
    <3> QED  BY <1>2, <2>3, <3>1, <3>4, <3>5 DEF SumStep
  <2> HIDE DEF T
  <2>7. Cardinality(s) \in T  BY <2>4, <2>5, <2>6, Induct
  <2> QED  BY <2>2, <2>7 DEF T
<1> QED  BY <1>2, <1>3

\* At s, any element may be the first.
AnyFirst(f, g, s) == g[s] \in Int /\ \A x \in s : g[s] = f[x] + g[s \ {x}]

\* Its type, and that any element may be the first.
LEMMA SumTakes ==
  ASSUME NEW S, IsFiniteSet(S), NEW f, \A x \in S : f[x] \in Int
  PROVE  /\ SumFunctionOnSet(f, {}) = 0
         /\ SumFunctionOnSet(f, S) \in Int
         /\ \A x \in S : SumFunctionOnSet(f, S) = f[x] + SumFunctionOnSet(f, S \ {x})
<1>1. PICK g : /\ \A s \in SUBSET S : SumFunctionOnSet(f, s) = g[s]
               /\ \A s \in SUBSET S : g[s] = SumStep(f, g, s)
  BY SumPick
<1>2. g[{}] = 0  BY <1>1 DEF SumStep
<1>3. \A s \in SUBSET S : /\ IsFiniteSet(s) /\ Cardinality(s) \in Nat
                          /\ (Cardinality(s) = 0 => s = {})
  BY FS_Subset, FS_CardinalityType, FS_EmptySet
<1>4. \A s \in SUBSET S : \A x \in s : Cardinality(s \ {x}) = Cardinality(s) - 1 /\ s \ {x} \in SUBSET S
  <2> TAKE s \in SUBSET S
  <2> TAKE x \in s
  <2>1. Cardinality(s \ {x}) = Cardinality(s) - 1  BY <1>3, FS_RemoveElement, Zenon
  <2> QED  BY <2>1
<1> DEFINE T == {n \in Nat : \A s \in SUBSET S : Cardinality(s) <= n => AnyFirst(f, g, s)}
<1>5. 0 \in T
  <2>1. \A s \in SUBSET S : Cardinality(s) <= 0 => s = {}  BY <1>3
  <2>2. AnyFirst(f, g, {})  BY <1>2 DEF AnyFirst
  <2> QED  BY <2>1, <2>2
<1>6. ASSUME NEW n \in Nat, n \in T PROVE n + 1 \in T
  <2> SUFFICES ASSUME NEW s \in SUBSET S, Cardinality(s) <= n + 1, s # {} PROVE AnyFirst(f, g, s)
    <3>1. AnyFirst(f, g, {})  BY <1>2 DEF AnyFirst
    <3> QED  BY <3>1
  <2> DEFINE p == pick(s)
  <2>1. p \in s  BY DEF pick
  <2>2. g[s] = f[p] + g[s \ {p}]  BY <1>1 DEF SumStep
  <2> HIDE DEF p
  <2>3. \A x \in s : Cardinality(s \ {x}) <= n /\ s \ {x} \in SUBSET S  BY <1>3, <1>4
  <2>4. \A x \in s : AnyFirst(f, g, s \ {x})  BY <1>6, <2>3
  <2>5. g[s] \in Int  BY <2>1, <2>2, <2>4 DEF AnyFirst
  <2>6. ASSUME NEW x \in s PROVE g[s] = f[x] + g[s \ {x}]
    <3>1. CASE x = p  BY <2>2, <3>1
    <3>2. CASE x # p
      <4>1. g[s \ {p}] = f[x] + g[(s \ {p}) \ {x}]  BY <2>1, <2>4, <3>2 DEF AnyFirst
      <4>2. g[s \ {x}] = f[p] + g[(s \ {x}) \ {p}]  BY <2>1, <2>4, <3>2 DEF AnyFirst
      <4>3. (s \ {p}) \ {x} = (s \ {x}) \ {p}  OBVIOUS
      <4> DEFINE rest == g[(s \ {p}) \ {x}]
      <4>4. rest \in Int
        <5> DEFINE s1 == s \ {p}
        <5>1. s1 \in SUBSET S /\ x \in s1 /\ Cardinality(s1) <= n  BY <2>1, <2>3, <3>2
        <5> HIDE DEF s1
        <5>2. Cardinality(s1 \ {x}) <= n /\ s1 \ {x} \in SUBSET S  BY <1>3, <1>4, <5>1
        <5>3. AnyFirst(f, g, s1 \ {x})  BY <1>6, <5>2
        <5> QED  BY <5>3 DEF AnyFirst, s1
      <4>5. g[s \ {p}] = f[x] + rest /\ g[s \ {x}] = f[p] + rest  BY <4>1, <4>2, <4>3
      <4> HIDE DEF rest
      <4>6. f[x] \in Int /\ f[p] \in Int  BY <2>1
      <4> QED  BY <2>2, <4>4, <4>5, <4>6
    <3> QED  BY <3>1, <3>2
  <2> QED  BY <2>5, <2>6 DEF AnyFirst
<1> HIDE DEF T
<1>7. Cardinality(S) \in T  BY <1>3, <1>5, <1>6, Induct
<1>8. AnyFirst(f, g, S)
  <2>1. Cardinality(S) <= Cardinality(S) /\ S \in SUBSET S  BY <1>3
  <2> QED  BY <1>7, <2>1 DEF T
<1>9. \A x \in S : S \ {x} \in SUBSET S  OBVIOUS
<1> QED  BY <1>1, <1>2, <1>8, <1>9 DEF AnyFirst

\* Induction over a finite set, element by element.
LEMMA FiniteInduct ==
  ASSUME NEW S, IsFiniteSet(S), NEW P, {} \in P,
         \A s \in SUBSET S : s \in P => \A x \in S \ s : s \cup {x} \in P
  PROVE  S \in P
<1> DEFINE T == {n \in Nat : \A s \in SUBSET S : Cardinality(s) = n => s \in P}
<1>1. \A s \in SUBSET S : IsFiniteSet(s) /\ Cardinality(s) \in Nat  BY FS_Subset, FS_CardinalityType
<1>2. 0 \in T
  <2>1. \A s \in SUBSET S : Cardinality(s) = 0 => s = {}  BY <1>1, FS_EmptySet
  <2> QED  BY <2>1
<1>3. ASSUME NEW n \in Nat, n \in T PROVE n + 1 \in T
  <2> SUFFICES ASSUME NEW s \in SUBSET S, Cardinality(s) = n + 1 PROVE s \in P  OBVIOUS
  <2>1. s # {}
    <3>1. Cardinality(s) # 0  OBVIOUS
    <3> QED  BY <3>1, FS_EmptySet
  <2>2. PICK x \in s : TRUE  BY <2>1
  <2>3. Cardinality(s \ {x}) = Cardinality(s) - 1  BY <1>1, FS_RemoveElement, Zenon
  <2>4. s \ {x} \in SUBSET S /\ Cardinality(s \ {x}) = n  BY <2>3
  <2>5. s \ {x} \in P  BY <1>3, <2>4
  <2>6. s = (s \ {x}) \cup {x} /\ x \in S \ (s \ {x})  OBVIOUS
  <2> QED  BY <2>4, <2>5, <2>6
<1> HIDE DEF T
<1>4. Cardinality(S) \in T  BY <1>1, <1>2, <1>3, Induct
<1> QED  BY <1>4 DEF T

\* A sum and one more.
LEMMA SumAdds ==
  ASSUME NEW S, IsFiniteSet(S), NEW f, NEW x, x \notin S, \A y \in S \cup {x} : f[y] \in Int
  PROVE  /\ SumFunctionOnSet(f, S \cup {x}) = f[x] + SumFunctionOnSet(f, S)
         /\ SumFunctionOnSet(f, S) \in Int
<1>1. IsFiniteSet(S \cup {x})  BY FS_AddElement, Zenon
<1>2. (S \cup {x}) \ {x} = S  OBVIOUS
<1>3. \A y \in S \cup {x} : SumFunctionOnSet(f, S \cup {x}) = f[y] + SumFunctionOnSet(f, (S \cup {x}) \ {y})
  BY <1>1, SumTakes
<1>4. SumFunctionOnSet(f, S) \in Int  BY SumTakes
<1> QED  BY <1>2, <1>3, <1>4

\* Sums keep the order of their terms, ...
LEMMA SumMono ==
  ASSUME NEW S, IsFiniteSet(S), NEW f, NEW g,
         \A x \in S : f[x] \in Int /\ g[x] \in Int /\ f[x] <= g[x]
  PROVE  SumFunctionOnSet(f, S) <= SumFunctionOnSet(g, S)
<1> DEFINE P == {s \in SUBSET S : SumFunctionOnSet(f, s) <= SumFunctionOnSet(g, s)}
<1>1. {} \in P  BY SumTakes, FS_EmptySet
<1>2. ASSUME NEW s \in SUBSET S, s \in P, NEW x \in S \ s PROVE s \cup {x} \in P
  <2>1. IsFiniteSet(s)  BY FS_Subset
  <2>2. \A y \in s \cup {x} : f[y] \in Int /\ g[y] \in Int  OBVIOUS
  <2>3. /\ SumFunctionOnSet(f, s \cup {x}) = f[x] + SumFunctionOnSet(f, s)
        /\ SumFunctionOnSet(f, s) \in Int
    BY <2>1, <2>2, SumAdds
  <2>4. /\ SumFunctionOnSet(g, s \cup {x}) = g[x] + SumFunctionOnSet(g, s)
        /\ SumFunctionOnSet(g, s) \in Int
    BY <2>1, <2>2, SumAdds
  <2>5. SumFunctionOnSet(f, s) <= SumFunctionOnSet(g, s)  BY <1>2
  <2>6. f[x] \in Int /\ g[x] \in Int /\ f[x] <= g[x]  OBVIOUS
  <2>7. SumFunctionOnSet(f, s \cup {x}) <= SumFunctionOnSet(g, s \cup {x})
    BY <2>3, <2>4, <2>5, <2>6
  <2> QED  BY <2>7
<1> HIDE DEF P
<1>3. S \in P  BY <1>1, <1>2, FiniteInduct
<1> QED  BY <1>3 DEF P

\* ... so that equal terms make equal sums, ...
LEMMA SumEqual ==
  ASSUME NEW S, IsFiniteSet(S), NEW f, NEW g, \A x \in S : f[x] \in Int /\ f[x] = g[x]
  PROVE  SumFunctionOnSet(f, S) = SumFunctionOnSet(g, S)
<1>1. \A x \in S : f[x] \in Int /\ g[x] \in Int /\ f[x] <= g[x] /\ g[x] <= f[x]  OBVIOUS
<1>2. SumFunctionOnSet(f, S) <= SumFunctionOnSet(g, S)  BY <1>1, SumMono
<1>3. SumFunctionOnSet(g, S) <= SumFunctionOnSet(f, S)  BY <1>1, SumMono
<1>4. SumFunctionOnSet(f, S) \in Int /\ SumFunctionOnSet(g, S) \in Int  BY <1>1, SumTakes
<1> QED  BY <1>2, <1>3, <1>4

\* ... and naturals a natural.
LEMMA SumIsNat ==
  ASSUME NEW S, IsFiniteSet(S), NEW f, \A x \in S : f[x] \in Nat
  PROVE  SumFunctionOnSet(f, S) \in Nat
<1> DEFINE P == {s \in SUBSET S : SumFunctionOnSet(f, s) \in Nat}
<1>1. {} \in P  BY SumTakes, FS_EmptySet
<1>2. ASSUME NEW s \in SUBSET S, s \in P, NEW x \in S \ s PROVE s \cup {x} \in P
  <2>1. IsFiniteSet(s)  BY FS_Subset
  <2>2. \A y \in s \cup {x} : f[y] \in Int  OBVIOUS
  <2>3. SumFunctionOnSet(f, s \cup {x}) = f[x] + SumFunctionOnSet(f, s)  BY <2>1, <2>2, SumAdds
  <2>4. f[x] \in Nat /\ SumFunctionOnSet(f, s) \in Nat  BY <1>2
  <2>5. SumFunctionOnSet(f, s \cup {x}) \in Nat  BY <2>3, <2>4
  <2> QED  BY <2>5
<1> HIDE DEF P
<1>3. S \in P  BY <1>1, <1>2, FiniteInduct
<1> QED  BY <1>3 DEF P

\* No term of a sum of naturals is greater than it.
LEMMA SumBoundsTerms ==
  ASSUME NEW S, IsFiniteSet(S), NEW f, \A x \in S : f[x] \in Nat, NEW x \in S
  PROVE  f[x] <= SumFunctionOnSet(f, S)
<1>1. SumFunctionOnSet(f, S) = f[x] + SumFunctionOnSet(f, S \ {x})  BY SumTakes
<1>2. IsFiniteSet(S \ {x})  BY FS_Subset
<1>3. SumFunctionOnSet(f, S \ {x}) \in Nat  BY <1>2, SumIsNat
<1> QED  BY <1>1, <1>3

\* Nothings make nothing.
LEMMA SumOfZeros ==
  ASSUME NEW S, IsFiniteSet(S), NEW f, \A x \in S : f[x] = 0
  PROVE  SumFunctionOnSet(f, S) = 0
<1> DEFINE P == {s \in SUBSET S : SumFunctionOnSet(f, s) = 0}
<1>1. {} \in P  BY SumTakes, FS_EmptySet
<1>2. ASSUME NEW s \in SUBSET S, s \in P, NEW x \in S \ s PROVE s \cup {x} \in P
  <2>1. IsFiniteSet(s)  BY FS_Subset
  <2>2. \A y \in s \cup {x} : f[y] \in Int  OBVIOUS
  <2>3. SumFunctionOnSet(f, s \cup {x}) = f[x] + SumFunctionOnSet(f, s)  BY <2>1, <2>2, SumAdds
  <2>4. f[x] = 0 /\ SumFunctionOnSet(f, s) = 0  BY <1>2
  <2>5. SumFunctionOnSet(f, s \cup {x}) = 0  BY <2>3, <2>4
  <2> QED  BY <2>5
<1> HIDE DEF P
<1>3. S \in P  BY <1>1, <1>2, FiniteInduct
<1> QED  BY <1>3 DEF P

\* The sum over two sets that share nothing.
LEMMA SumOfParts ==
  ASSUME NEW A, IsFiniteSet(A), NEW B, IsFiniteSet(B), A \cap B = {},
         NEW f, \A x \in A \cup B : f[x] \in Int
  PROVE  SumFunctionOnSet(f, A \cup B) = SumFunctionOnSet(f, A) + SumFunctionOnSet(f, B)
<1> DEFINE P == {s \in SUBSET B : SumFunctionOnSet(f, A \cup s) = SumFunctionOnSet(f, A) + SumFunctionOnSet(f, s)}
<1>0. SumFunctionOnSet(f, A) \in Int  BY SumTakes
<1>1. {} \in P
  <2>1. A \cup {} = A  OBVIOUS
  <2>2. SumFunctionOnSet(f, {}) = 0  BY SumTakes, FS_EmptySet
  <2>3. SumFunctionOnSet(f, A \cup {}) = SumFunctionOnSet(f, A) + SumFunctionOnSet(f, {})
    BY <1>0, <2>1, <2>2
  <2> QED  BY <2>3
<1>2. ASSUME NEW s \in SUBSET B, s \in P, NEW x \in B \ s PROVE s \cup {x} \in P
  <2>1. IsFiniteSet(s)  BY FS_Subset
  <2>2. IsFiniteSet(A \cup s)  BY <2>1, FS_Union
  <2>3. /\ SumFunctionOnSet(f, s \cup {x}) = f[x] + SumFunctionOnSet(f, s)
        /\ SumFunctionOnSet(f, s) \in Int
    BY <2>1, SumAdds
  <2>4. x \notin A \cup s  OBVIOUS
  <2>5. SumFunctionOnSet(f, (A \cup s) \cup {x}) = f[x] + SumFunctionOnSet(f, A \cup s)
    BY <2>2, <2>4, SumAdds
  <2>6. A \cup (s \cup {x}) = (A \cup s) \cup {x}  OBVIOUS
  <2>7. SumFunctionOnSet(f, A \cup s) = SumFunctionOnSet(f, A) + SumFunctionOnSet(f, s)  BY <1>2
  <2>8. f[x] \in Int  OBVIOUS
  <2>9. SumFunctionOnSet(f, A \cup (s \cup {x})) = SumFunctionOnSet(f, A) + SumFunctionOnSet(f, s \cup {x})
    <3> DEFINE fA == SumFunctionOnSet(f, A)
               fs == SumFunctionOnSet(f, s)
               fx == SumFunctionOnSet(f, s \cup {x})
               fAs == SumFunctionOnSet(f, A \cup s)
    <3>1. fA \in Int /\ fs \in Int /\ fx = f[x] + fs /\ fAs = fA + fs  BY <1>0, <2>3, <2>7
    <3>2. SumFunctionOnSet(f, A \cup (s \cup {x})) = f[x] + fAs  BY <2>5, <2>6
    <3> HIDE DEF fA, fs, fx, fAs
    <3>3. SumFunctionOnSet(f, A \cup (s \cup {x})) = fA + fx  BY <2>8, <3>1, <3>2
    <3> QED  BY <3>3 DEF fA, fx
  <2> QED  BY <2>9
<1> HIDE DEF P
<1>3. B \in P  BY <1>1, <1>2, FiniteInduct
<1> QED  BY <1>3 DEF P

\* A sum of sums of two terms.
LEMMA SumOfSums ==
  ASSUME NEW S, IsFiniteSet(S), NEW f, NEW g, NEW h,
         \A x \in S : f[x] \in Int /\ g[x] \in Int /\ h[x] = f[x] + g[x]
  PROVE  SumFunctionOnSet(h, S) = SumFunctionOnSet(f, S) + SumFunctionOnSet(g, S)
<1> DEFINE P == {s \in SUBSET S : SumFunctionOnSet(h, s) = SumFunctionOnSet(f, s) + SumFunctionOnSet(g, s)}
<1>1. {} \in P
  <2>1. SumFunctionOnSet(f, {}) = 0 /\ SumFunctionOnSet(g, {}) = 0 /\ SumFunctionOnSet(h, {}) = 0
    BY SumTakes, FS_EmptySet
  <2> QED  BY <2>1
<1>2. ASSUME NEW s \in SUBSET S, s \in P, NEW x \in S \ s PROVE s \cup {x} \in P
  <2>1. IsFiniteSet(s)  BY FS_Subset
  <2>2. \A y \in s \cup {x} : f[y] \in Int /\ g[y] \in Int /\ h[y] \in Int  OBVIOUS
  <2>3. /\ SumFunctionOnSet(f, s \cup {x}) = f[x] + SumFunctionOnSet(f, s)
        /\ SumFunctionOnSet(f, s) \in Int
    BY <2>1, <2>2, SumAdds
  <2>4. /\ SumFunctionOnSet(g, s \cup {x}) = g[x] + SumFunctionOnSet(g, s)
        /\ SumFunctionOnSet(g, s) \in Int
    BY <2>1, <2>2, SumAdds
  <2>5. SumFunctionOnSet(h, s \cup {x}) = h[x] + SumFunctionOnSet(h, s)  BY <2>1, <2>2, SumAdds
  <2>6. SumFunctionOnSet(h, s) = SumFunctionOnSet(f, s) + SumFunctionOnSet(g, s)  BY <1>2
  <2>7. f[x] \in Int /\ g[x] \in Int /\ h[x] = f[x] + g[x]  OBVIOUS
  <2>8. SumFunctionOnSet(h, s \cup {x}) = SumFunctionOnSet(f, s \cup {x}) + SumFunctionOnSet(g, s \cup {x})
    BY <2>3, <2>4, <2>5, <2>6, <2>7
  <2> QED  BY <2>8
<1> HIDE DEF P
<1>3. S \in P  BY <1>1, <1>2, FiniteInduct
<1> QED  BY <1>3 DEF P

\* The same terms under other names.
LEMMA SumRenamed ==
  ASSUME NEW A, IsFiniteSet(A), NEW B, NEW b \in Bijection(A, B),
         NEW f, NEW g, \A x \in A : f[x] \in Int /\ g[b[x]] = f[x]
  PROVE  SumFunctionOnSet(f, A) = SumFunctionOnSet(g, B)
<1> DEFINE img(s) == {b[x] : x \in s}
           P == {s \in SUBSET A : SumFunctionOnSet(f, s) = SumFunctionOnSet(g, img(s))}
<1>0. /\ b \in [A -> B] /\ \A x, y \in A : b[x] = b[y] => x = y
      /\ \A z \in B : \E x \in A : b[x] = z
  BY Fun_BijectionProperties
<1>1. {} \in P
  <2>1. img({}) = {}  OBVIOUS
  <2>2. SumFunctionOnSet(f, {}) = 0 /\ SumFunctionOnSet(g, {}) = 0  BY SumTakes, FS_EmptySet
  <2> HIDE DEF img
  <2> QED  BY <2>1, <2>2
<1>2. ASSUME NEW s \in SUBSET A, s \in P, NEW x \in A \ s PROVE s \cup {x} \in P
  <2>1. IsFiniteSet(s)  BY FS_Subset
  <2>2. /\ SumFunctionOnSet(f, s \cup {x}) = f[x] + SumFunctionOnSet(f, s)
        /\ SumFunctionOnSet(f, s) \in Int
    BY <2>1, SumAdds
  <2>3. IsFiniteSet(img(s))
    <3> DEFINE bs == [y \in s |-> b[y]]
    <3>1. DOMAIN bs = s /\ \A y \in s : bs[y] = b[y]  OBVIOUS
    <3>2. img(s) = {bs[y] : y \in s}  BY <3>1
    <3> HIDE DEF bs, img
    <3>3. IsFiniteSet({bs[y] : y \in s})  BY <2>1, <3>1, ImageIsFinite
    <3> QED  BY <3>2, <3>3
  <2>4. img(s \cup {x}) = img(s) \cup {b[x]}  OBVIOUS
  <2>5. b[x] \notin img(s)  BY <1>0
  <2>6. \A z \in img(s) \cup {b[x]} : g[z] \in Int  OBVIOUS
  <2>7. SumFunctionOnSet(f, s) = SumFunctionOnSet(g, img(s))  BY <1>2
  <2>8. g[b[x]] = f[x] /\ f[x] \in Int  OBVIOUS
  <2> HIDE DEF img
  <2>9. SumFunctionOnSet(g, img(s) \cup {b[x]}) = g[b[x]] + SumFunctionOnSet(g, img(s))
    BY <2>3, <2>5, <2>6, SumAdds
  <2>10. SumFunctionOnSet(f, s \cup {x}) = SumFunctionOnSet(g, img(s \cup {x}))
    BY <2>2, <2>4, <2>7, <2>8, <2>9
  <2> QED  BY <2>10
<1>3. img(A) = B  BY <1>0
<1> HIDE DEF P
<1>4. A \in P  BY <1>1, <1>2, FiniteInduct
<1> HIDE DEF img
<1> QED  BY <1>3, <1>4 DEF P

-----------------------------------------------------------------------------
(* Places in a ring. *)

\* Division with remainder.
LEMMA Divides ==
  ASSUME NEW n \in Nat \ {0}, NEW a \in Nat
  PROVE  /\ a % n \in Nat /\ a % n < n /\ a \div n \in Int
         /\ a = (a \div n) * n + (a % n)
OBVIOUS

\* A multiple that is smaller than one of them is none.
LEMMA SmallMultiple ==
  ASSUME NEW n \in Nat \ {0}, NEW d \in Int, -n < d * n, d * n < n
  PROVE  d = 0
<1>1. ~(d >= 1)
  <2> SUFFICES ASSUME d >= 1 PROVE FALSE  OBVIOUS
  <2>1. d * n >= n  OBVIOUS
  <2> QED  BY <2>1
<1>2. ~(d <= -1)
  <2> SUFFICES ASSUME d <= -1 PROVE FALSE  OBVIOUS
  <2>1. d * n <= -n  OBVIOUS
  <2> QED  BY <2>1
<1> QED  BY <1>1, <1>2

\* Two numbers of the same place in a ring, less than a turn apart, are one.
LEMMA SamePlace ==
  ASSUME NEW n \in Nat \ {0}, NEW a \in Nat, NEW b \in Nat, a % n = b % n, a <= b, b < a + n
  PROVE  a = b
<1>1. PICK q \in Int : a = q * n + (a % n)  BY Divides
<1>2. PICK p \in Int : b = p * n + (b % n)  BY Divides
<1>3. a % n \in Nat  BY Divides
<1> DEFINE d == p - q
<1>4. d \in Int /\ d * n = b - a  BY <1>1, <1>2, <1>3
<1> HIDE DEF d
<1>5. d = 0  BY <1>4, SmallMultiple
<1> QED  BY <1>4, <1>5

\* Two numbers of the same place in a ring are whole turns apart.
LEMMA TurnsApart ==
  ASSUME NEW n \in Nat \ {0}, NEW a \in Nat, NEW b \in Nat, a % n = b % n, a <= b
  PROVE  (b - a) % n = 0
<1>1. PICK q \in Int : a = q * n + (a % n)  BY Divides
<1>2. PICK p \in Int : b = p * n + (b % n)  BY Divides
<1>3. a % n \in Nat  BY Divides
<1>4. b - a \in Nat  OBVIOUS
<1>5. PICK c \in Nat : c = b - a  BY <1>4
<1>6. PICK k \in Int : c = k * n + (c % n)  BY Divides
<1>7. c % n \in Nat /\ c % n < n  BY Divides
<1>8. PICK r \in Nat : r = c % n /\ r < n  BY <1>7
<1> DEFINE d == p - q - k
<1>9. d \in Int /\ d * n = r  BY <1>1, <1>2, <1>3, <1>5, <1>6, <1>8
<1> HIDE DEF d
<1>10. d = 0  BY <1>8, <1>9, SmallMultiple
<1>11. r = 0  BY <1>9, <1>10
<1> QED  BY <1>5, <1>8, <1>11

\* The remainder is the only one.
LEMMA RemainderIs ==
  ASSUME NEW n \in Nat \ {0}, NEW a \in Nat, NEW q \in Int, NEW r \in Nat, r < n, a = q * n + r
  PROVE  a % n = r
<1>1. PICK p \in Int : a = p * n + (a % n)  BY Divides
<1>2. PICK s \in Nat : s = a % n /\ s < n  BY Divides
<1> DEFINE d == p - q
<1>3. p * n + s = q * n + r  BY <1>1, <1>2
<1>4. d \in Int /\ d * n = p * n - q * n  OBVIOUS
<1>5. p * n \in Int /\ q * n \in Int  OBVIOUS
<1>6. d * n = r - s  BY <1>3, <1>4, <1>5
<1> HIDE DEF d
<1>7. d = 0  BY <1>2, <1>4, <1>6, SmallMultiple
<1> QED  BY <1>2, <1>6, <1>7

\* The next place in a ring, and the place a turn on.
LEMMA NextPlace ==
  ASSUME NEW n \in Nat \ {0}, NEW a \in Nat
  PROVE  /\ ((a % n) + 1) % n = (a + 1) % n
         /\ (a + n) % n = a % n
         /\ a % n \in 0 .. n - 1
<1>1. PICK q \in Int : a = q * n + (a % n)  BY Divides
<1>2. a % n \in Nat /\ a % n < n  BY Divides
<1>3. PICK r \in Nat : r = a % n /\ r < n  BY <1>2
<1>4. (a + n) % n = r
  <2>1. q + 1 \in Int /\ a + n = (q + 1) * n + r /\ a + n \in Nat  BY <1>1, <1>3
  <2> QED  BY <1>3, <2>1, RemainderIs
<1>5. (r + 1) % n = (a + 1) % n
  <2>1. CASE r + 1 < n
    <3>1. a + 1 = q * n + (r + 1) /\ a + 1 \in Nat /\ r + 1 \in Nat  BY <1>1, <1>3
    <3>2. (a + 1) % n = r + 1  BY <2>1, <3>1, RemainderIs
    <3>3. r + 1 = 0 * n + (r + 1)  OBVIOUS
    <3>4. (r + 1) % n = r + 1  BY <2>1, <3>1, <3>3, RemainderIs
    <3> QED  BY <3>2, <3>4
  <2>2. CASE r + 1 = n
    <3>1. a + 1 = (q + 1) * n + 0 /\ a + 1 \in Nat /\ q + 1 \in Int  BY <1>1, <1>3, <2>2
    <3>5. 0 \in Nat /\ 0 < n /\ n \in Nat  OBVIOUS
    <3>2. (a + 1) % n = 0  BY <3>1, <3>5, RemainderIs
    <3>3. n = 1 * n + 0  OBVIOUS
    <3>4. n % n = 0  BY <3>3, <3>5, RemainderIs
    <3> QED  BY <2>2, <3>2, <3>4
  <2> QED  BY <1>3, <2>1, <2>2
<1> QED  BY <1>2, <1>3, <1>4, <1>5
=============================================================================
