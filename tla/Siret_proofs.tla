---------------------------- MODULE Siret_proofs ----------------------------
(***************************************************************************)
(* Proofs about Siret.  The checksum is a sum over the digits of a value,  *)
(* of any length: the facts about sums come first.  They are proved by     *)
(* induction, in the form "a set of counterexamples has a minimal one".    *)
(***************************************************************************)
EXTENDS Siret, FiniteSetTheorems, WellFoundedInduction, SequenceTheorems, TLAPS

-----------------------------------------------------------------------------
(* Minimal elements.                                                       *)

LEMMA SubsetMinimum ==
  ASSUME NEW S, IsFiniteSet(S), NEW T \in SUBSET SUBSET S, T # {}
  PROVE  \E s \in T : \A t \in T : t \subseteq s => t = s
<1>1. T \subseteq FiniteSubsetsOf(S)
  BY FS_Subset DEF FiniteSubsetsOf
<1>2. \E s \in T : \A t \in T : <<t, s>> \notin StrictSubsetOrdering(S)
  BY <1>1, FS_StrictSubsetOrderingWellFounded, WFMin
<1> QED  BY <1>2 DEF StrictSubsetOrdering

LEMMA LeastNatural ==
  ASSUME NEW B \in SUBSET Nat, B # {}
  PROVE  \E n \in B : \A m \in B : n <= m
<1>1. PICK k \in B : TRUE
  OBVIOUS
<1> DEFINE N == 0..k
           T == {u \in SUBSET N : \E n \in B : n <= k /\ u = 0..n}
<1>2. 0..k \in T
  BY <1>1
<1>3. PICK s \in T : \A t \in T : t \subseteq s => t = s
  <2>1. T \in SUBSET SUBSET N /\ T # {}
    BY <1>2
  <2>2. IsFiniteSet(N)
    BY <1>1, FS_Interval
  <2> HIDE DEF T, N
  <2> QED  BY <2>1, <2>2, SubsetMinimum
<1>4. PICK n \in B : n <= k /\ s = 0..n
  BY <1>3
<1>5. ASSUME NEW m \in B, m < n  PROVE FALSE
  <2>1. 0..m \in SUBSET (0..k) /\ 0..m \subseteq s
    BY <1>4, <1>5
  <2>2. n \in 0..n /\ n \notin 0..m
    BY <1>5
  <2>3. 0..m \in T
    BY <1>4, <1>5, <2>1
  <2> QED  BY <1>3, <1>4, <2>1, <2>2, <2>3
<1> QED  BY <1>4, <1>5

-----------------------------------------------------------------------------
(* Sums over finite sets.  SumFunctionOnSet takes the elements in an order *)
(* that is not specified: Body is one step of it.                          *)

Total(f, S) == SumFunctionOnSet(f, S)

Chosen(s) == CHOOSE x \in s : TRUE

Body(f, s, iter) == IF s = {} THEN 0 ELSE f[Chosen(s)] + iter[s \ {Chosen(s)}]

Adds(f, S, iter) == iter = [s \in SUBSET S |-> Body(f, s, iter)]

LEMMA SumUnfolds ==
  ASSUME NEW f, NEW S
  PROVE  Total(f, S) = (CHOOSE iter : Adds(f, S, iter))[S]
BY DEF Total, SumFunctionOnSet, FoldFunctionOnSet, MapThenFoldSet, Adds, Body, Chosen

(* One more step of the recursion reaches the sets of one more element.    *)
AddsUpTo(f, S, n, iter) ==
  \A s \in SUBSET S : Cardinality(s) <= n => iter[s] = Body(f, s, iter)

LEMMA AddsOneMore ==
  ASSUME NEW f, NEW S, IsFiniteSet(S), NEW n \in Nat, NEW g, AddsUpTo(f, S, n, g),
         NEW h, h = [s \in SUBSET S |-> Body(f, s, g)]
  PROVE  /\ AddsUpTo(f, S, n + 1, h)
         /\ \A s \in SUBSET S : Cardinality(s) <= n => h[s] = g[s]
<1>1. \A s \in SUBSET S : Cardinality(s) <= n => h[s] = g[s]
  BY DEF AddsUpTo
<1>2. ASSUME NEW s \in SUBSET S, Cardinality(s) <= n + 1, s # {}
      PROVE  h[s] = Body(f, s, h)
  <2> DEFINE t == s \ {Chosen(s)}
  <2>1. t \in SUBSET S /\ Chosen(s) \in s
    BY <1>2 DEF Chosen
  <2>2. Cardinality(t) <= n
    BY <1>2, <2>1, FS_Subset, FS_RemoveElement, FS_CardinalityType
  <2> QED  BY <1>1, <1>2, <2>1, <2>2 DEF Body
<1>3. h[{}] = Body(f, {}, h)
  BY DEF Body
<1> QED  BY <1>1, <1>2, <1>3 DEF AddsUpTo

LEMMA AddsExists ==
  ASSUME NEW f, NEW S, IsFiniteSet(S)
  PROVE  \E iter : Adds(f, S, iter)
<1> DEFINE Bad == {n \in Nat : ~ \E g : AddsUpTo(f, S, n, g)}
<1>1. \A s \in SUBSET S : /\ IsFiniteSet(s) /\ Cardinality(s) \in Nat
                          /\ Cardinality(s) <= Cardinality(S)
                          /\ Cardinality(s) = 0 <=> s = {}
  BY FS_Subset, FS_CardinalityType, FS_EmptySet
<1>2. 0 \notin Bad
  <2> DEFINE g == [s \in SUBSET S |-> 0]
  <2>1. AddsUpTo(f, S, 0, g)
    BY <1>1 DEF AddsUpTo, Body
  <2> QED  BY <2>1
<1>3. Bad = {}
  <2>1. SUFFICES ASSUME Bad # {} PROVE FALSE
    OBVIOUS
  <2>2. PICK n \in Bad : \A m \in Bad : n <= m
    <3> HIDE DEF Bad
    <3>1. Bad \in SUBSET Nat
      BY DEF Bad
    <3> QED  BY <2>1, <3>1, LeastNatural
  <2>3. n - 1 \in Nat /\ n - 1 \notin Bad
    BY <1>2, <2>2
  <2>4. PICK g : AddsUpTo(f, S, n - 1, g)
    BY <2>3
  <2>5. AddsUpTo(f, S, (n - 1) + 1, [s \in SUBSET S |-> Body(f, s, g)])
    BY <2>3, <2>4, AddsOneMore
  <2> QED  BY <2>2, <2>5
<1>4. Cardinality(S) \in Nat
  BY <1>1
<1>5. PICK g : AddsUpTo(f, S, Cardinality(S), g)
  BY <1>3, <1>4
<1> DEFINE h == [s \in SUBSET S |-> Body(f, s, g)]
<1>6. /\ AddsUpTo(f, S, Cardinality(S) + 1, h)
  BY <1>4, <1>5, AddsOneMore
<1>7. \A s \in SUBSET S : h[s] = Body(f, s, h)
  <2> HIDE DEF h
  <2> QED  BY <1>1, <1>4, <1>6 DEF AddsUpTo
<1>8. h = [s \in SUBSET S |-> Body(f, s, h)]
  BY <1>7
<1> QED  BY <1>8 DEF Adds

(* The sums of the subsets do not depend on the set they are taken in.     *)
LEMMA AddsUnique ==
  ASSUME NEW f, NEW S, NEW T, IsFiniteSet(S), T \subseteq S,
         NEW g, Adds(f, S, g), NEW h, Adds(f, T, h)
  PROVE  \A s \in SUBSET T : g[s] = h[s]
<1> DEFINE Bad == {s \in SUBSET T : g[s] # h[s]}
<1>1. SUFFICES ASSUME Bad # {} PROVE FALSE
  OBVIOUS
<1>2. PICK s \in Bad : \A t \in Bad : t \subseteq s => t = s
  <2> HIDE DEF Bad
  <2>1. Bad \in SUBSET SUBSET T /\ IsFiniteSet(T)
    BY FS_Subset DEF Bad
  <2> QED  BY <1>1, <2>1, SubsetMinimum
<1>3. /\ g[s] = Body(f, s, g) /\ h[s] = Body(f, s, h)
      /\ s \in SUBSET T
  <2>1. \A t \in SUBSET S : g[t] = Body(f, t, g)
    BY DEF Adds
  <2>2. \A t \in SUBSET T : h[t] = Body(f, t, h)
    BY DEF Adds
  <2> QED  BY <1>2, <2>1, <2>2
<1>4. s # {} /\ g[s \ {Chosen(s)}] # h[s \ {Chosen(s)}]
  BY <1>2, <1>3 DEF Body
<1>5. Chosen(s) \in s
  BY <1>4 DEF Chosen
<1> QED  BY <1>2, <1>3, <1>4, <1>5

LEMMA SumEquation ==
  ASSUME NEW f, NEW S, IsFiniteSet(S)
  PROVE  Total(f, S) = IF S = {} THEN 0 ELSE f[Chosen(S)] + Total(f, S \ {Chosen(S)})
<1> DEFINE T == S \ {Chosen(S)}
           g == CHOOSE iter : Adds(f, S, iter)
           h == CHOOSE iter : Adds(f, T, iter)
<1>1. IsFiniteSet(T) /\ T \subseteq S
  BY FS_Subset
<1>2. Adds(f, S, g) /\ Adds(f, T, h)
  BY <1>1, AddsExists
<1>3. Total(f, S) = g[S] /\ Total(f, T) = h[T]
  BY SumUnfolds
<1> HIDE DEF T, g, h
<1>4. g[T] = h[T]
  BY <1>1, <1>2, AddsUnique
<1>5. g[S] = Body(f, S, g)
  BY <1>2 DEF Adds
<1> QED  BY <1>3, <1>4, <1>5 DEF Body, T

LEMMA ChosenOne ==
  ASSUME NEW S, S # {}
  PROVE  Chosen(S) \in S
BY DEF Chosen

LEMMA SumType ==
  ASSUME NEW S, IsFiniteSet(S), NEW f, \A i \in S : f[i] \in Int
  PROVE  \A s \in SUBSET S : Total(f, s) \in Int
<1> DEFINE Bad == {s \in SUBSET S : Total(f, s) \notin Int}
<1>1. SUFFICES ASSUME Bad # {} PROVE FALSE
  OBVIOUS
<1>2. PICK s \in Bad : \A t \in Bad : t \subseteq s => t = s
  <2> HIDE DEF Bad
  <2>1. Bad \in SUBSET SUBSET S
    BY DEF Bad
  <2> QED  BY <1>1, <2>1, SubsetMinimum
<1> DEFINE t == s \ {Chosen(s)}
<1>3. Total(f, s) = IF s = {} THEN 0 ELSE f[Chosen(s)] + Total(f, t)
  BY <1>2, FS_Subset, SumEquation
<1>4. s # {} /\ Chosen(s) \in s
  BY <1>2, <1>3, ChosenOne
<1>5. Total(f, t) \in Int
  BY <1>2, <1>4
<1> QED  BY <1>2, <1>3, <1>4, <1>5

(* Any element may be taken first. *)
LEMMA SumTakes ==
  ASSUME NEW S, IsFiniteSet(S), NEW f, \A i \in S : f[i] \in Int
  PROVE  \A s \in SUBSET S : \A x \in s : Total(f, s) = f[x] + Total(f, s \ {x})
<1> DEFINE Bad == {s \in SUBSET S : \E x \in s : Total(f, s) # f[x] + Total(f, s \ {x})}
<1>1. SUFFICES ASSUME Bad # {} PROVE FALSE
  OBVIOUS
<1>2. PICK s \in Bad : \A t \in Bad : t \subseteq s => t = s
  <2> HIDE DEF Bad
  <2>1. Bad \in SUBSET SUBSET S
    BY DEF Bad
  <2> QED  BY <1>1, <2>1, SubsetMinimum
<1>3. PICK x \in s : Total(f, s) # f[x] + Total(f, s \ {x})
  BY <1>2
<1> DEFINE c == Chosen(s)
<1>4. c \in s
  BY <1>3, ChosenOne
<1>5. Total(f, s) = f[c] + Total(f, s \ {c})
  BY <1>2, <1>3, FS_Subset, SumEquation
<1> HIDE DEF c
<1>6. x # c
  BY <1>3, <1>5
<1>7. Total(f, s \ {c}) = f[x] + Total(f, (s \ {c}) \ {x})
  <2>1. s \ {c} \in SUBSET S /\ s \ {c} # s /\ x \in s \ {c}
    BY <1>2, <1>3, <1>4, <1>6
  <2> QED  BY <1>2, <2>1
<1>8. Total(f, s \ {x}) = f[c] + Total(f, (s \ {x}) \ {c})
  <2>1. s \ {x} \in SUBSET S /\ s \ {x} # s /\ c \in s \ {x}
    BY <1>2, <1>3, <1>4, <1>6
  <2> QED  BY <1>2, <2>1
<1>9. (s \ {c}) \ {x} = (s \ {x}) \ {c}
  OBVIOUS
<1>10. f[x] \in Int /\ f[c] \in Int /\ Total(f, (s \ {x}) \ {c}) \in Int
  BY <1>2, <1>3, <1>4, SumType
<1> DEFINE rest == Total(f, (s \ {x}) \ {c})
<1>11. Total(f, s) = f[c] + (f[x] + rest) /\ Total(f, s \ {x}) = f[c] + rest
  BY <1>5, <1>7, <1>8, <1>9
<1> HIDE DEF rest
<1>12. f[c] + (f[x] + rest) = f[x] + (f[c] + rest)
  BY <1>10 DEF rest
<1> QED  BY <1>3, <1>11, <1>12

LEMMA SumOfNothing ==
  ASSUME NEW f
  PROVE  Total(f, {}) = 0
BY SumEquation, FS_EmptySet

(* The sum of the same terms, taken at other places. *)
LEMMA SumMoves ==
  ASSUME NEW S, IsFiniteSet(S), NEW f, NEW T, IsFiniteSet(T), NEW g, NEW at \in Bijection(S, T),
         \A i \in S : f[i] \in Int /\ g[at[i]] = f[i]
  PROVE  Total(f, S) = Total(g, T)
<1> DEFINE Image(s) == {at[i] : i \in s}
           Bad == {s \in SUBSET S : Total(f, s) # Total(g, Image(s))}
<1>1. /\ \A i \in S : at[i] \in T
      /\ \A i, j \in S : at[i] = at[j] => i = j
      /\ \A t \in T : \E i \in S : at[i] = t
  BY DEF Bijection, Injection, Surjection, IsInjective
<1>2. Image(S) = T /\ \A t \in T : g[t] \in Int
  BY <1>1
<1>3. Bad = {}
  <2>1. SUFFICES ASSUME Bad # {} PROVE FALSE
    OBVIOUS
  <2>2. PICK s \in Bad : \A t \in Bad : t \subseteq s => t = s
    <3> HIDE DEF Bad
    <3>1. Bad \in SUBSET SUBSET S
      BY DEF Bad
    <3> QED  BY <2>1, <3>1, SubsetMinimum
  <2>3. s # {}
    <3>1. Image({}) = {}
      OBVIOUS
    <3> QED  BY <2>2, <3>1, SumOfNothing
  <2>4. PICK x \in s : TRUE
    BY <2>3
  <2>5. Total(f, s) = f[x] + Total(f, s \ {x})
    BY <2>2, SumTakes
  <2>6. Image(s \ {x}) = Image(s) \ {at[x]} /\ at[x] \in Image(s) /\ Image(s) \in SUBSET T
    BY <1>1, <2>2
  <2>7. Total(g, Image(s)) = g[at[x]] + Total(g, Image(s \ {x}))
    <3> DEFINE U == Image(s)
               V == Image(s \ {x})
    <3>1. U \in SUBSET T /\ at[x] \in U /\ V = U \ {at[x]} /\ \A t \in T : g[t] \in Int
      BY <1>2, <2>6
    <3> HIDE DEF U, V
    <3>2. Total(g, U) = g[at[x]] + Total(g, V)
      BY <3>1, SumTakes
    <3> QED  BY <3>2 DEF U, V
  <2>8. Total(f, s \ {x}) = Total(g, Image(s \ {x}))
    <3>1. s \ {x} \in SUBSET S /\ s \ {x} # s
      BY <2>2
    <3> QED  BY <2>2, <3>1
  <2> QED  BY <2>2, <2>5, <2>7, <2>8
<1>4. Total(f, S) = Total(g, Image(S))
  BY <1>3
<1> QED  BY <1>2, <1>4

(* Two sums that differ in some terms only. *)
LEMMA SumSame ==
  ASSUME NEW S, IsFiniteSet(S), NEW f, NEW g, \A i \in S : f[i] \in Int /\ g[i] = f[i]
  PROVE  Total(f, S) = Total(g, S)
<1> DEFINE at == [i \in S |-> i]
<1>1. at \in Bijection(S, S)
  BY DEF Bijection, Injection, Surjection, IsInjective
<1>2. \A i \in S : g[at[i]] = f[i]
  OBVIOUS
<1> HIDE DEF at
<1> QED  BY <1>1, <1>2, SumMoves

-----------------------------------------------------------------------------
(* The checksum of a value of digits, counted from the left.               *)

Terms(value) == [i \in 1..Len(value) |-> Term(value[i], Len(value) - i)]

LEMMA TermValues ==
  ASSUME NEW d \in Digits, NEW k \in Int
  PROVE  /\ Term(d, k) \in Digits
         /\ k % 2 = 0 => Term(d, k) = d
         /\ k % 2 # 0 => Term(d, k) = IF d < 5 THEN 2 * d ELSE 2 * d - 9
BY DEF Term, Digits

LEMMA ChecksumFromLeft ==
  ASSUME NEW value \in Seq(Digits)
  PROVE  LuhnChecksum(value) = Total(Terms(value), 1..Len(value))
<1> DEFINE n == Len(value)
           S == 1..n
           f == Terms(value)
           g == [i \in DOMAIN value |-> Term(ToI(Reverse(value)[i]), i - 1)]
           at == [i \in S |-> (n + 1) - i]
<1>1. n \in Nat /\ DOMAIN value = S /\ \A i \in S : value[i] \in Digits
  OBVIOUS
<1>2. IsFiniteSet(S)
  BY <1>1, FS_Interval
<1>3. at \in Bijection(S, S)
  <2>1. at \in [S -> S] /\ \A i, j \in S : at[i] = at[j] => i = j
    BY <1>1
  <2>2. \A j \in S : (n + 1) - j \in S /\ at[(n + 1) - j] = j
    BY <1>1
  <2> HIDE DEF at
  <2> QED  BY <2>1, <2>2 DEF Bijection, Injection, Surjection, IsInjective
<1>4. ASSUME NEW i \in S  PROVE f[i] \in Int /\ g[at[i]] = f[i]
  <2>1. at[i] = (n + 1) - i /\ at[i] \in S /\ n - i \in Int
    BY <1>1, <1>4
  <2>2. Reverse(value)[at[i]] = value[i]
    BY <1>1, <1>4, <2>1 DEF Reverse
  <2>3. g[at[i]] = Term(value[i], n - i)
    <3>1. g[at[i]] = Term(ToI(value[i]), at[i] - 1)
      BY <1>1, <2>1, <2>2
    <3>2. at[i] - 1 = n - i /\ ToI(value[i]) = value[i]
      BY <1>1, <2>1 DEF ToI
    <3> QED  BY <3>1, <3>2
  <2>4. f[i] = Term(value[i], n - i)
    BY DEF Terms
  <2>5. Term(value[i], n - i) \in Digits
    BY <1>1, <2>1, TermValues
  <2> QED  BY <2>3, <2>4, <2>5 DEF Digits
<1>5. LuhnChecksum(value) = Total(g, S)
  BY <1>1 DEF LuhnChecksum, SumFunction, Total
<1> HIDE DEF S, f, g, at, n
<1>6. Total(f, S) = Total(g, S)
  BY <1>2, <1>3, <1>4, SumMoves
<1> QED  BY <1>5, <1>6 DEF f, S, n

(* A value of digits is a sequence of them. *)
LEMMA WellFormedDigits ==
  ASSUME NEW value \in Seq(Characters), WellFormed(value)
  PROVE  value \in Seq(Digits) /\ Len(value) = Length
BY DEF WellFormed

(* A number of fourteen digits has one line. *)
LEMMA LaPosteIsPrefix ==
  ASSUME NEW value \in Seq(Digits), Len(value) = Length
  PROVE  LaPoste(value) <=> IsPrefix(LaPosteSiren, value)
<1>1. Length \in Nat
  BY LengthAssumption
<1>2. 1..(Len(value) - Length + 1) = {1}
  BY <1>1
<1>3. SubSeq(value, 1, 1 + Length - 1) = value
  BY <1>1, SubSeqFull
<1>4. \A k \in 1..Length : value[k] \in Digits
  OBVIOUS
<1> QED  BY <1>2, <1>3, <1>4 DEF LaPoste

LEMMA TotalOfTerms ==
  ASSUME NEW value \in Seq(Digits)
  PROVE  /\ IsFiniteSet(1..Len(value))
         /\ \A i \in 1..Len(value) :
              /\ Terms(value)[i] = Term(value[i], Len(value) - i)
              /\ Terms(value)[i] \in Digits /\ Terms(value)[i] \in Int
         /\ \A s \in SUBSET (1..Len(value)) : Total(Terms(value), s) \in Int
<1>1. IsFiniteSet(1..Len(value))
  BY FS_Interval
<1>2. ASSUME NEW i \in 1..Len(value)
      PROVE  /\ Terms(value)[i] = Term(value[i], Len(value) - i)
             /\ Terms(value)[i] \in Digits /\ Terms(value)[i] \in Int
  <2>1. Terms(value)[i] = Term(value[i], Len(value) - i)
    BY DEF Terms
  <2>2. value[i] \in Digits /\ Len(value) - i \in Int
    OBVIOUS
  <2> QED  BY <2>1, <2>2, TermValues DEF Digits
<1> HIDE DEF Terms
<1>3. \A s \in SUBSET (1..Len(value)) : Total(Terms(value), s) \in Int
  BY <1>1, <1>2, SumType
<1> QED  BY <1>1, <1>2, <1>3

(* The last digit is a check digit exactly when the checksum is a multiple *)
(* of ten.                                                                 *)
LEMMA CheckDigitCompletes ==
  ASSUME NEW value \in Seq(Digits), value # <<>>
  PROVE  ValidLuhnChecksum(value) <=> Last(value) = CheckDigit(Front(value))
<1> DEFINE n == Len(value)
           m == n - 1
           f == Terms(value)
           payload == Front(value)
           doubled == {i \in 1..m : (m - i) % 2 = 0}
           terms == [i \in 1..m |-> DigitSum(IF i \in doubled THEN 2 * payload[i]
                                             ELSE payload[i])]
           others == Total(f, 1..m)
<1>1. n \in Nat /\ n > 0 /\ m \in Nat /\ \A i \in 1..n : value[i] \in Digits
  BY EmptySeq
<1>2. Len(payload) = m /\ \A i \in 1..m : payload[i] = value[i]
  <2>1. payload = SubSeq(value, 1, m)
    BY DEF Front
  <2>2. \A i \in 1..m : value[i] \in Digits
    BY <1>1
  <2> HIDE DEF n, m, payload
  <2>3. Len(SubSeq(value, 1, m)) = m /\ \A i \in 1..m : SubSeq(value, 1, m)[i] = value[i]
    BY <1>1, <2>2
  <2> QED  BY <2>1, <2>3
<1>3. Total(f, 1..n) = f[n] + others
  <2>1. n \in 1..n /\ (1..n) \ {n} = 1..m
    BY <1>1
  <2>2. IsFiniteSet(1..n) /\ \A i \in 1..n : f[i] \in Int
    BY TotalOfTerms
  <2> DEFINE S == 1..n
  <2>3. S \in SUBSET S /\ n \in S
    BY <2>1
  <2> HIDE DEF f, S
  <2>4. Total(f, S) = f[n] + Total(f, S \ {n})
    BY <2>2, <2>3, SumTakes DEF S
  <2> QED  BY <2>1, <2>4 DEF S
<1>4. f[n] = value[n]
  <2>1. f[n] = Term(value[n], n - n)
    BY <1>1, TotalOfTerms
  <2>2. n - n = 0 /\ 0 % 2 = 0
    BY <1>1
  <2> QED  BY <1>1, <2>1, <2>2, TermValues
<1>5. ASSUME NEW i \in 1..m  PROVE f[i] \in Int /\ terms[i] = f[i]
  <2>1. i \in 1..n /\ value[i] \in Digits /\ payload[i] = value[i] /\ n - i \in Nat
    BY <1>1, <1>2
  <2>2. f[i] = Term(value[i], n - i) /\ f[i] \in Int
    BY <2>1, TotalOfTerms
  <2>3. i \in doubled <=> (n - i) % 2 # 0
    BY <1>1
  <2>4. terms[i] = DigitSum(IF i \in doubled THEN 2 * value[i] ELSE value[i])
    BY <2>1
  <2>5. \A d \in Digits : /\ DigitSum(d) = d
                          /\ DigitSum(2 * d) = IF d < 5 THEN 2 * d ELSE 2 * d - 9
    BY DEF Digits, DigitSum
  <2>6. DigitSum(value[i]) = value[i]
        /\ DigitSum(2 * value[i]) = IF value[i] < 5 THEN 2 * value[i] ELSE 2 * value[i] - 9
    BY <2>1, <2>5
  <2> HIDE DEF n, m, f, payload, doubled, terms
  <2>7. CASE (n - i) % 2 = 0
    <3>1. Term(value[i], n - i) = value[i]
      BY <2>1, <2>7, TermValues
    <3> QED  BY <2>2, <2>3, <2>4, <2>6, <2>7, <3>1
  <2>8. CASE (n - i) % 2 # 0
    <3>1. Term(value[i], n - i) = IF value[i] < 5 THEN 2 * value[i] ELSE 2 * value[i] - 9
      BY <2>1, <2>8, TermValues
    <3> QED  BY <2>2, <2>3, <2>4, <2>6, <2>8, <3>1
  <2> QED  BY <2>7, <2>8
<1>6. Total(terms, 1..m) = others
  <2>1. IsFiniteSet(1..m)
    BY <1>1, FS_Interval
  <2> HIDE DEF terms, f, m
  <2>2. Total(f, 1..m) = Total(terms, 1..m)
    BY <1>5, <2>1, SumSame
  <2> QED  BY <2>2
<1>7. CheckDigit(payload) = (10 - (others % 10)) % 10
  <2>1. SumFunction(terms) = Total(terms, 1..m)
    BY DEF SumFunction, Total
  <2>2. CheckDigit(payload) = (10 - (SumFunction(terms) % 10)) % 10
    BY <1>2 DEF CheckDigit
  <2> QED  BY <1>6, <2>1, <2>2
<1>8. LuhnChecksum(value) = value[n] + others
  BY <1>3, <1>4, ChecksumFromLeft
<1>9. others \in Int /\ value[n] \in 0..9
  <2>1. 1..m \subseteq 1..n
    BY <1>1
  <2> QED  BY <1>1, <2>1, TotalOfTerms DEF Digits
<1> HIDE DEF others, n
<1>10. \A d \in 0..9, t \in Int : (d + t) % 10 = 0 <=> d = (10 - (t % 10)) % 10
  OBVIOUS
<1>11. (value[n] + others) % 10 = 0 <=> value[n] = (10 - (others % 10)) % 10
  BY <1>9, <1>10
<1> HIDE DEF payload
<1>12. Last(value) = value[n]
  BY DEF Last, n
<1> QED  BY <1>7, <1>8, <1>11, <1>12 DEF ValidLuhnChecksum, payload

-----------------------------------------------------------------------------
(* Every value is a sequence of characters.                                *)

Typed == siret \in Seq(Characters)

(* The mistakes of someone who types keep a sequence of characters one:    *)
(* letters and ends of lines get in, nothing else does.                    *)
THEOREM AlwaysTyped == Spec => []Typed
<1>1. Init => Typed
  <2>1. ASSUME NEW s \in BoundedSeq(Digits, 2)  PROVE s \in Seq(Digits)
    <3>1. PICK m \in 0..2 : s \in [1..m -> Digits]
      BY DEF BoundedSeq, SeqOf
    <3>2. m \in Nat
      OBVIOUS
    <3> QED  BY <3>1, <3>2, SeqDef
  <2>2. \A s \in Seq(Digits) : s \in Seq(Characters)
    BY DEF Characters
  <2> QED  BY <2>1, <2>2 DEF Init, Typed
<1>2. Typed /\ [Next]_siret => Typed'
  <2> SUFFICES ASSUME Typed, [Next]_siret  PROVE Typed'
    OBVIOUS
  <2>1. ASSUME NEW c \in Characters, Type(c)  PROVE Typed'
    BY <2>1 DEF Type, Typed
  <2>2. ASSUME NEW i \in DOMAIN siret, NEW c \in Characters, Mistype(i, c)  PROVE Typed'
    BY <2>2 DEF Mistype, ReplaceAt, Typed
  <2>3. ASSUME NEW i \in 1..(Len(siret) - 1), Swap(i)  PROVE Typed'
    <3>1. siret[i] \in Characters /\ siret[i + 1] \in Characters
      BY DEF Typed
    <3> QED  BY <2>3, <3>1 DEF Swap, Typed
  <2> QED  BY <2>1, <2>2, <2>3 DEF Next, Typed
<1> QED  BY <1>1, <1>2, PTL DEF Spec

-----------------------------------------------------------------------------
(* What a valid value is.                                                  *)

(* Fourteen digits are valid as a number of La Poste or as a number whose  *)
(* last digit is its check digit.                                          *)
LEMMA ValidIsChecked ==
  ASSUME NEW value \in Seq(Characters)
  PROVE  Valid(value) <=>
           /\ WellFormed(value)
           /\ IsPrefix(LaPosteSiren, value) \/ Last(value) = CheckDigit(Front(value))
<1>1. SUFFICES ASSUME WellFormed(value)
      PROVE  (LaPoste(value) \/ ValidLuhnChecksum(value)) <=>
             (IsPrefix(LaPosteSiren, value) \/ Last(value) = CheckDigit(Front(value)))
  BY DEF Valid, ValidChecksum
<1>2. value \in Seq(Digits) /\ Len(value) = Length
  BY <1>1, WellFormedDigits
<1>3. LaPoste(value) <=> IsPrefix(LaPosteSiren, value)
  BY <1>2, LaPosteIsPrefix
<1>4. CASE value = <<>>
  <2>1. IsPrefix(LaPosteSiren, value)
    <3>1. Len(value) = 0 /\ LaPosteSiren \in Seq(Digits) /\ Len(LaPosteSiren) = 0
      BY <1>2, <1>4, LengthAssumption
    <3> QED  BY <3>1, <1>4 DEF IsPrefix
  <2> QED  BY <1>3, <2>1
<1>5. CASE value # <<>>
  BY <1>2, <1>3, <1>5, CheckDigitCompletes
<1> QED  BY <1>4, <1>5

(* For a siret of any length and any prefix of La Poste: what the code     *)
(* accepts is what Luhn's formula, as published, and the exception accept. *)
THEOREM AcceptedAreSirets == Spec => []OnlySiretsAreValid
<1>1. Typed => OnlySiretsAreValid
  BY ValidIsChecked DEF Typed, OnlySiretsAreValid
<1> QED  BY <1>1, AlwaysTyped, PTL
-----------------------------------------------------------------------------
(* Mistakes that are noticed.                                              *)

(* What a checked siret satisfies. *)
LEMMA ValidTotals ==
  ASSUME NEW value \in Seq(Characters), Valid(value), ~ Unchecked(value)
  PROVE  /\ value \in Seq(Digits) /\ Len(value) = Length /\ Length \in Nat
         /\ Total(Terms(value), 1..Length) % 10 = 0
<1>1. value \in Seq(Digits) /\ Len(value) = Length
  BY WellFormedDigits DEF Valid
<1>2. ValidLuhnChecksum(value)
  BY <1>1, LaPosteIsPrefix DEF Valid, ValidChecksum, Unchecked
<1> QED  BY <1>1, <1>2, ChecksumFromLeft, LengthAssumption DEF ValidLuhnChecksum

(* The places where two values agree count the same in both checksums.     *)
LEMMA AgreeingTotals ==
  ASSUME NEW v \in Seq(Digits), NEW w \in Seq(Digits), NEW n \in Nat,
         Len(v) = n, Len(w) = n,
         NEW R \in SUBSET (1..n), \A i \in R : v[i] = w[i]
  PROVE  Total(Terms(v), R) = Total(Terms(w), R) /\ Total(Terms(v), R) \in Int
<1>1. IsFiniteSet(R)
  <2>1. IsFiniteSet(1..n)
    BY FS_Interval
  <2> QED  BY <2>1, FS_Subset
<1>2. \A i \in R : Terms(v)[i] \in Int /\ Terms(w)[i] = Terms(v)[i]
  BY TotalOfTerms
<1>3. Total(Terms(v), R) = Total(Terms(w), R)
  BY <1>1, <1>2, SumSame
<1> QED  BY <1>3, TotalOfTerms

(* A checksum, one place taken out of it, and two. *)
LEMMA TakeAny ==
  ASSUME NEW v \in Seq(Digits)
  PROVE  \A s \in SUBSET (1..Len(v)) : \A j \in s :
           Total(Terms(v), s) = Terms(v)[j] + Total(Terms(v), s \ {j})
<1> DEFINE f == Terms(v)
           S == 1..Len(v)
<1>1. IsFiniteSet(S)
  BY TotalOfTerms
<1>2. \A i \in S : f[i] \in Int
  BY TotalOfTerms
<1> HIDE DEF f, S
<1>3. ASSUME NEW s \in SUBSET S, NEW j \in s
      PROVE  Total(f, s) = f[j] + Total(f, s \ {j})
  BY <1>1, <1>2, SumTakes
<1> QED  BY <1>3 DEF f, S

LEMMA TakeOne ==
  ASSUME NEW v \in Seq(Digits), NEW n \in Nat, Len(v) = n, NEW j \in 1..n
  PROVE  /\ Total(Terms(v), 1..n) = Term(v[j], n - j) + Total(Terms(v), (1..n) \ {j})
         /\ Term(v[j], n - j) \in 0..9
<1>1. 1..n \in SUBSET (1..n)
  OBVIOUS
<1>2. Total(Terms(v), 1..n) = Terms(v)[j] + Total(Terms(v), (1..n) \ {j})
  BY <1>1, TakeAny
<1>3. Terms(v)[j] = Term(v[j], n - j) /\ Terms(v)[j] \in 0..9
  BY TotalOfTerms DEF Digits
<1> QED  BY <1>2, <1>3

LEMMA TakeTwo ==
  ASSUME NEW v \in Seq(Digits), NEW n \in Nat, Len(v) = n,
         NEW i \in 1..n, NEW j \in 1..n, i # j
  PROVE  Total(Terms(v), 1..n) =
           Term(v[i], n - i) + (Term(v[j], n - j) + Total(Terms(v), (1..n) \ {i, j}))
<1> DEFINE Q == (1..n) \ {i}
<1>1. Q \in SUBSET (1..n) /\ j \in Q /\ Q \ {j} = (1..n) \ {i, j}
  OBVIOUS
<1>2. Total(Terms(v), 1..n) = Term(v[i], n - i) + Total(Terms(v), Q)
  BY TakeOne
<1> HIDE DEF Q
<1>3. Total(Terms(v), Q) = Terms(v)[j] + Total(Terms(v), Q \ {j})
  BY <1>1, TakeAny
<1>4. Terms(v)[j] = Term(v[j], n - j)
  BY TotalOfTerms
<1> QED  BY <1>1, <1>2, <1>3, <1>4

(* Two digits that count the same at a place are the same: the digits are  *)
(* permuted by the doubling.                                               *)
LEMMA TermsDiffer ==
  ASSUME NEW a \in Digits, NEW b \in Digits, NEW k \in Int, Term(a, k) = Term(b, k)
  PROVE  a = b
<1>1. CASE k % 2 = 0
  BY <1>1, TermValues
<1>2. CASE k % 2 # 0
  <2>1. (IF a < 5 THEN 2 * a ELSE 2 * a - 9) = (IF b < 5 THEN 2 * b ELSE 2 * b - 9)
    BY <1>2, TermValues
  <2> QED  BY <2>1 DEF Digits
<1> QED  BY <1>1, <1>2

LEMMA OneDifference ==
  ASSUME NEW v \in Seq(Characters), Valid(v), ~ Unchecked(v),
         NEW w \in Seq(Characters), Valid(w), ~ Unchecked(w),
         NEW j, Differences(v, w) = {j}
  PROVE  FALSE
<1> DEFINE n == Length
           R == (1..n) \ {j}
           r == Total(Terms(v), R)
<1>1. /\ v \in Seq(Digits) /\ Len(v) = n /\ n \in Nat /\ Total(Terms(v), 1..n) % 10 = 0
      /\ w \in Seq(Digits) /\ Len(w) = n /\ Total(Terms(w), 1..n) % 10 = 0
  BY ValidTotals
<1>2. j \in 1..n /\ v[j] # w[j] /\ \A i \in R : v[i] = w[i]
  BY <1>1 DEF Differences
<1>3. Total(Terms(w), R) = r /\ r \in Int
  <2>1. R \in SUBSET (1..n)
    OBVIOUS
  <2> HIDE DEF R, n
  <2> QED  BY <1>1, <1>2, <2>1, AgreeingTotals
<1> DEFINE a == Term(v[j], n - j)
           b == Term(w[j], n - j)
<1>4. /\ Total(Terms(v), 1..n) = a + r /\ a \in 0..9
      /\ Total(Terms(w), 1..n) = b + r /\ b \in 0..9
  <2>1. Total(Terms(v), 1..n) = a + Total(Terms(v), R) /\ a \in 0..9
    BY <1>1, <1>2, TakeOne
  <2>2. Total(Terms(w), 1..n) = b + Total(Terms(w), R) /\ b \in 0..9
    BY <1>1, <1>2, TakeOne
  <2> QED  BY <1>3, <2>1, <2>2
<1>5. a = b
  <2> HIDE DEF a, b, r
  <2>1. (a + r) % 10 = 0 /\ (b + r) % 10 = 0
    BY <1>1, <1>4
  <2> QED  BY <1>3, <1>4, <2>1
<1>6. v[j] \in Digits /\ w[j] \in Digits /\ n - j \in Int
  BY <1>1, <1>2
<1> QED  BY <1>2, <1>5, <1>6, TermsDiffer

(* A mistyped digit of a siret of any length never gives another siret     *)
(* that the code accepts, but between numbers of La Poste.                 *)
THEOREM MistypedDigitsAreNoticed == Spec => OneWrongDigitIsNoticed
<1>1. ASSUME Typed, Typed', Valid(siret), ~ Unchecked(siret), ~ Unchecked(siret'),
             Cardinality(Differences(siret, siret')) = 1
      PROVE  ~ Valid(siret')
  <2>1. IsFiniteSet(Differences(siret, siret'))
    <3>1. DOMAIN siret = 1..Len(siret) /\ Len(siret) \in Nat
      BY <1>1 DEF Typed
    <3>2. IsFiniteSet(DOMAIN siret)
      BY <3>1, FS_Interval
    <3> QED  BY <3>2, FS_Subset DEF Differences
  <2>2. PICK j : Differences(siret, siret') = {j}
    BY <1>1, <2>1, FS_Singleton
  <2> QED  BY <1>1, <2>2, OneDifference DEF Typed
<1>2. Typed /\ Typed' =>
        [/\ Valid(siret) /\ ~ Unchecked(siret) /\ ~ Unchecked(siret')
         /\ Len(siret') = Len(siret)
         /\ Cardinality(Differences(siret, siret')) = 1
         => ~ Valid(siret')]_siret
  BY <1>1
<1> QED  BY <1>2, AlwaysTyped, PTL DEF OneWrongDigitIsNoticed

(* Two neighbours count the same when they are exchanged only if they are  *)
(* the same, or 0 and 9: one of the two is doubled, before and after.      *)
LEMMA ExchangedTerms ==
  ASSUME NEW a \in Digits, NEW b \in Digits, a # b, {a, b} # {0, 9}, NEW k \in Int, NEW r \in Int,
         (Term(a, k) + (Term(b, k - 1) + r)) % 10 = 0,
         (Term(b, k) + (Term(a, k - 1) + r)) % 10 = 0
  PROVE  FALSE
<1> DEFINE D(d) == IF d < 5 THEN 2 * d ELSE 2 * d - 9
<1>1. a \in 0..9 /\ b \in 0..9 /\ ~ (a = 0 /\ b = 9) /\ ~ (a = 9 /\ b = 0)
  BY DEF Digits
<1>2. CASE k % 2 = 0
  <2>1. (k - 1) % 2 # 0 /\ k - 1 \in Int
    BY <1>2
  <2>2. Term(a, k) = a /\ Term(b, k) = b /\ Term(a, k - 1) = D(a) /\ Term(b, k - 1) = D(b)
    BY <1>2, <2>1, TermValues
  <2>3. (a + (D(b) + r)) % 10 = 0 /\ (b + (D(a) + r)) % 10 = 0
    BY <2>2
  <2> QED  BY <1>1, <2>3
<1>3. CASE k % 2 # 0
  <2>1. (k - 1) % 2 = 0 /\ k - 1 \in Int
    BY <1>3
  <2>2. Term(a, k - 1) = a /\ Term(b, k - 1) = b /\ Term(a, k) = D(a) /\ Term(b, k) = D(b)
    BY <1>3, <2>1, TermValues
  <2>3. (D(a) + (b + r)) % 10 = 0 /\ (D(b) + (a + r)) % 10 = 0
    BY <2>2
  <2> QED  BY <1>1, <2>3
<1> QED  BY <1>2, <1>3

(* Two checksums that differ at two places at most. *)
DifferAt(v, w, n, i, j) ==
  \E r \in Int :
    /\ Total(Terms(v), 1..n) = Term(v[i], n - i) + (Term(v[j], n - j) + r)
    /\ Total(Terms(w), 1..n) = Term(w[i], n - i) + (Term(w[j], n - j) + r)

LEMMA TwoDifferences ==
  ASSUME NEW v \in Seq(Digits), NEW w \in Seq(Digits), NEW n \in Nat,
         Len(v) = n, Len(w) = n,
         NEW i \in 1..n, NEW j \in 1..n, i # j,
         \A k \in (1..n) \ {i, j} : v[k] = w[k]
  PROVE  DifferAt(v, w, n, i, j)
<1> DEFINE R == (1..n) \ {i, j}
<1>1. Total(Terms(w), R) = Total(Terms(v), R) /\ Total(Terms(v), R) \in Int
  <2>1. R \in SUBSET (1..n) /\ \A k \in R : v[k] = w[k]
    OBVIOUS
  <2> HIDE DEF R
  <2> QED  BY <2>1, AgreeingTotals
<1>2. Total(Terms(v), 1..n) = Term(v[i], n - i) + (Term(v[j], n - j) + Total(Terms(v), R))
  BY TakeTwo
<1>3. Total(Terms(w), 1..n) = Term(w[i], n - i) + (Term(w[j], n - j) + Total(Terms(w), R))
  BY TakeTwo
<1> QED  BY <1>1, <1>2, <1>3 DEF DifferAt

LEMMA ExchangedNeighbours ==
  ASSUME NEW v \in Seq(Characters), Valid(v), ~ Unchecked(v),
         NEW w \in Seq(Characters), Valid(w), ~ Unchecked(w),
         NEW i \in 1..(Len(v) - 1), Differences(v, w) = {i, i + 1},
         w[i] = v[i + 1], w[i + 1] = v[i], {v[i], v[i + 1]} # {0, 9}
  PROVE  FALSE
<1> DEFINE n == Length
           j == i + 1
<1>1. v \in Seq(Digits) /\ w \in Seq(Digits) /\ n \in Nat /\ Len(v) = n /\ Len(w) = n
  BY ValidTotals
<1>2. i \in 1..n /\ j \in 1..n /\ i # j /\ v[i] # v[j]
  BY <1>1 DEF Differences
<1>3. \A k \in (1..n) \ {i, j} : v[k] = w[k]
  BY <1>1 DEF Differences
<1>4. PICK r \in Int :
        /\ Total(Terms(v), 1..n) = Term(v[i], n - i) + (Term(v[j], n - j) + r)
        /\ Total(Terms(w), 1..n) = Term(w[i], n - i) + (Term(w[j], n - j) + r)
  <2>1. DifferAt(v, w, n, i, j)
    BY <1>1, <1>2, <1>3, TwoDifferences
  <2> QED  BY <2>1 DEF DifferAt
<1>5. n - j = (n - i) - 1 /\ n - i \in Int /\ v[i] \in Digits /\ v[j] \in Digits
  BY <1>1, <1>2
<1>6. /\ (Term(v[i], n - i) + (Term(v[j], (n - i) - 1) + r)) % 10 = 0
      /\ (Term(v[j], n - i) + (Term(v[i], (n - i) - 1) + r)) % 10 = 0
  <2>1. Total(Terms(v), 1..n) % 10 = 0 /\ Total(Terms(w), 1..n) % 10 = 0
    BY ValidTotals
  <2> QED  BY <1>4, <1>5, <2>1
<1> QED  BY <1>2, <1>5, <1>6, ExchangedTerms

(* Two neighbouring digits exchanged, in a siret of any length, are        *)
(* noticed as well, but for 0 and 9, and between numbers of La Poste.      *)
THEOREM ExchangesAreNoticed == Spec => ExchangeIsNoticed
<1>1. ASSUME Typed, Typed', NEW i \in 1..(Len(siret) - 1),
             Valid(siret), ~ Unchecked(siret), ~ Unchecked(siret'),
             Differences(siret, siret') = {i, i + 1},
             siret'[i] = siret[i + 1], siret'[i + 1] = siret[i],
             {siret[i], siret[i + 1]} # {0, 9}
      PROVE  ~ Valid(siret')
  BY <1>1, ExchangedNeighbours DEF Typed
<1>2. Typed /\ Typed' =>
        [\A i \in 1..(Len(siret) - 1) :
           /\ Valid(siret) /\ ~ Unchecked(siret) /\ ~ Unchecked(siret')
           /\ Len(siret') = Len(siret)
           /\ Differences(siret, siret') = {i, i + 1}
           /\ siret'[i] = siret[i + 1] /\ siret'[i + 1] = siret[i]
           /\ {siret[i], siret[i + 1]} # {0, 9}
           => ~ Valid(siret')]_siret
  BY <1>1
<1> QED  BY <1>2, AlwaysTyped, PTL DEF ExchangeIsNoticed
=============================================================================
