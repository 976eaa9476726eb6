------------------------------- MODULE Lemmas -------------------------------
(***************************************************************************)
(* Facts about Min and Max of sets of numbers, about list.remove, about    *)
(* folds over finite sets and about sums, that several proofs use.         *)
(***************************************************************************)
EXTENDS Integers, FiniteSets, SequencesExt, SequenceTheorems, FiniteSetTheorems,
        WellFoundedInduction, TLAPS

\* Python's min and max of two numbers.
LEMMA MinMaxPair ==
  ASSUME NEW a \in Int, NEW b \in Int
  PROVE  /\ Min({a, b}) = IF a <= b THEN a ELSE b
         /\ Max({a, b}) = IF a <= b THEN b ELSE a
  BY DEF Min, Max

\* The least element of a nonempty set of natural numbers.
LEMMA MinNat ==
  ASSUME NEW T \in SUBSET Nat, T # {}
  PROVE  Min(T) \in T /\ \A y \in T : Min(T) <= y
<1>1. PICK x \in T : \A y \in T : ~ (<<y, x>> \in OpToRel(<, Nat))
  BY NatLessThanWellFounded, WFMin
<1>2. \A y \in T : x <= y
  <2> SUFFICES ASSUME NEW y \in T PROVE x <= y
    OBVIOUS
  <2>1. ~ (y < x)
    BY <1>1 DEF OpToRel
  <2> QED BY <2>1
<1> QED
  BY <1>2 DEF Min

\* The greatest element of a nonempty set of indices.
LEMMA MaxInterval ==
  ASSUME NEW n \in Int, NEW T \in SUBSET (0 .. n), T # {}
  PROVE  Max(T) \in T /\ \A y \in T : y <= Max(T)
<1> DEFINE U == { n - y : y \in T }
<1>1. U \in SUBSET Nat /\ U # {}
  <2>1. \A y \in T : n - y \in Nat
    <3> SUFFICES ASSUME NEW y \in T PROVE n - y \in Nat
      OBVIOUS
    <3>1. y \in 0 .. n
      OBVIOUS
    <3> QED BY <3>1
  <2> QED BY <2>1
<1>2. PICK u \in U : \A v \in U : u <= v
  BY <1>1, MinNat
<1>3. PICK x \in T : u = n - x
  BY <1>2
<1>4. \A y \in T : x >= y
  <2> SUFFICES ASSUME NEW y \in T PROVE x >= y
    OBVIOUS
  <2>1. n - x <= n - y
    BY <1>2, <1>3
  <2>2. x \in 0 .. n /\ y \in 0 .. n
    OBVIOUS
  <2> QED BY <2>1, <2>2
<1>5. /\ Max(T) \in T /\ \A y \in T : Max(T) >= y
  BY <1>4 DEF Max
<1> QED
  BY <1>5

LEMMA MaxIndex ==
  ASSUME NEW n \in Nat, NEW T \in SUBSET (1 .. n), T # {}
  PROVE  Max(T) \in T /\ \A y \in T : y <= Max(T)
<1>1. \A y \in 1 .. n : y \in 0 .. n
  OBVIOUS
<1>2. n \in Int /\ T \in SUBSET (0 .. n)
  BY <1>1
<1> QED BY <1>2, MaxInterval

\* list.remove of an element of the list: the list without its first occurrence.
LEMMA RemoveFirstEffect ==
  ASSUME NEW S, NEW q \in Seq(S), NEW e, \E i \in 1 .. Len(q) : q[i] = e
  PROVE  /\ RemoveFirst(q, e) \in Seq(S)
         /\ Len(RemoveFirst(q, e)) = Len(q) - 1
         /\ \E k \in 1 .. Len(q) :
              /\ q[k] = e
              /\ \A i \in 1 .. Len(q) - 1 :
                   RemoveFirst(q, e)[i] = IF i < k THEN q[i] ELSE q[i + 1]
<1> DEFINE I == { i \in 1 .. Len(q) : q[i] = e }
           k == Min(I)
<1>1. RemoveFirst(q, e) = SubSeq(q, 1, k - 1) \o SubSeq(q, k + 1, Len(q))
  BY DEF RemoveFirst, RemoveAt, SelectInSeq
<1>2. Len(q) \in Nat /\ \A i \in 1 .. Len(q) : q[i] \in S
  BY LenProperties, ElementOfSeq
<1>3. k \in 1 .. Len(q) /\ q[k] = e
  <2>1. I \in SUBSET Nat /\ I # {}
    BY <1>2
  <2>2. k \in I
    BY <2>1, MinNat
  <2> QED BY <2>2
<1> HIDE DEF k
<1> DEFINE front == SubSeq(q, 1, k - 1)
           back == SubSeq(q, k + 1, Len(q))
<1>4. /\ front \in Seq(S) /\ Len(front) = k - 1
      /\ \A i \in 1 .. k - 1 : front[i] = q[i]
  <2>1. /\ 1 \in Int /\ k - 1 \in Int
        /\ \A i \in 1 .. k - 1 : q[i] \in S
    BY <1>2, <1>3
  <2>2. /\ front \in Seq(S)
        /\ Len(front) = IF 1 <= k - 1 THEN k - 1 - 1 + 1 ELSE 0
        /\ \A i \in 1 .. k - 1 - 1 + 1 : front[i] = q[1 + i - 1]
    BY <2>1, SubSeqProperties
  <2> QED BY <1>2, <1>3, <2>2
<1>5. /\ back \in Seq(S) /\ Len(back) = Len(q) - k
      /\ \A i \in 1 .. Len(q) - k : back[i] = q[k + i]
  <2>1. /\ k + 1 \in Int /\ Len(q) \in Int
        /\ \A i \in k + 1 .. Len(q) : q[i] \in S
    BY <1>2, <1>3
  <2>2. /\ back \in Seq(S)
        /\ Len(back) = IF k + 1 <= Len(q) THEN Len(q) - (k + 1) + 1 ELSE 0
        /\ \A i \in 1 .. Len(q) - (k + 1) + 1 : back[i] = q[k + 1 + i - 1]
    BY <2>1, SubSeqProperties
  <2>3. Len(back) = Len(q) - k
    BY <1>2, <1>3, <2>2
  <2>4. \A i \in 1 .. Len(q) - k : i \in 1 .. Len(q) - (k + 1) + 1 /\ k + 1 + i - 1 = k + i
    BY <1>2, <1>3
  <2> QED BY <2>2, <2>3, <2>4
<1> HIDE DEF front, back
<1>6. /\ front \o back \in Seq(S)
      /\ Len(front \o back) = Len(front) + Len(back)
      /\ \A i \in 1 .. Len(front) + Len(back) : (front \o back)[i] =
           IF i <= Len(front) THEN front[i] ELSE back[i - Len(front)]
  BY <1>4, <1>5, ConcatProperties
<1>7. RemoveFirst(q, e) = front \o back
  BY <1>1 DEF front, back
<1>8. Len(front) + Len(back) = Len(q) - 1
  BY <1>2, <1>3, <1>4, <1>5
<1>9. \A i \in 1 .. Len(q) - 1 :
        (front \o back)[i] = IF i < k THEN q[i] ELSE q[i + 1]
  <2> SUFFICES ASSUME NEW i \in 1 .. Len(q) - 1
               PROVE  (front \o back)[i] = IF i < k THEN q[i] ELSE q[i + 1]
    OBVIOUS
  <2>1. CASE i < k
    BY <1>2, <1>3, <1>4, <1>6, <1>8, <2>1
  <2>2. CASE ~ (i < k)
    <3>1. PICK j \in Int : j = i - (k - 1)
      BY <1>2, <1>3
    <3>2. j \in 1 .. Len(q) - k /\ k + j = i + 1 /\ ~ (i <= k - 1)
      BY <1>2, <1>3, <2>2, <3>1
    <3>3. (front \o back)[i] = back[j]
      BY <1>4, <1>6, <1>8, <3>1, <3>2
    <3> QED BY <1>5, <2>2, <3>2, <3>3
  <2> QED BY <2>1, <2>2
<1> QED
  BY <1>3, <1>6, <1>7, <1>8, <1>9

\* It keeps a list one of S, whether or not it finds e (the code always does).
LEMMA RemoveFirstType ==
  ASSUME NEW S, NEW q \in Seq(S), NEW e
  PROVE  RemoveFirst(q, e) \in Seq(S)
<1>1. CASE \E i \in 1 .. Len(q) : q[i] = e
  BY <1>1, RemoveFirstEffect
<1>2. CASE ~ \E i \in 1 .. Len(q) : q[i] = e
  BY <1>2 DEF RemoveFirst
<1> QED BY <1>1, <1>2

-----------------------------------------------------------------------------
(* Division.                                                               *)

LEMMA DivMod ==
  ASSUME NEW n \in Nat, NEW b \in Nat \ {0}
  PROVE  /\ n \div b \in Nat /\ n % b \in 0 .. b - 1
         /\ n = b * (n \div b) + (n % b)
  BY SMT

\* Block and offset can be read off a slot.
LEMMA SlotParts ==
  ASSUME NEW b \in Nat \ {0}, NEW x \in Nat, NEW y \in Nat,
         NEW m \in 0 .. b - 1, NEW n \in 0 .. b - 1, x * b + m = y * b + n
  PROVE  x = y /\ m = n
<1>1. x * b \in Nat /\ y * b \in Nat
  OBVIOUS
<1>2. ~ (x < y)
  <2> SUFFICES ASSUME x < y PROVE FALSE
    OBVIOUS
  <2>1. (x + 1) * b <= y * b
    OBVIOUS
  <2>2. (x + 1) * b = x * b + b
    OBVIOUS
  <2> QED BY <1>1, <2>1, <2>2
<1>3. ~ (y < x)
  <2> SUFFICES ASSUME y < x PROVE FALSE
    OBVIOUS
  <2>1. (y + 1) * b <= x * b
    OBVIOUS
  <2>2. (y + 1) * b = y * b + b
    OBVIOUS
  <2> QED BY <1>1, <2>1, <2>2
<1>4. x = y
  BY <1>2, <1>3
<1> QED BY <1>1, <1>4

-----------------------------------------------------------------------------
(* Folds over finite sets, whose steps and choices are given as functions. *)

\* The least number that has a property, as a number that has it and whose
\* predecessor, if any, has not.
LEMMA FirstNat ==
  ASSUME NEW T \in SUBSET Nat, T # {}
  PROVE  \E n \in T : \A m \in Nat : m < n => m \notin T
<1>1. Min(T) \in T /\ \A y \in T : Min(T) <= y
  BY MinNat
<1>2. ASSUME NEW m \in Nat, m < Min(T), m \in T PROVE FALSE
  <2>1. Min(T) <= m /\ Min(T) \in Nat
    BY <1>1, <1>2
  <2> HIDE DEF Min
  <2> QED BY <1>2, <2>1
<1> QED BY <1>1, <1>2, Zenon

\* The greatest element of a nonempty finite set of integers.
LEMMA MaxFinite ==
  ASSUME NEW S \in SUBSET Int, IsFiniteSet(S), S # {}
  PROVE  Max(S) \in S /\ \A y \in S : y <= Max(S)
<1> DEFINE HasMax(U) == \E x \in U : \A y \in U : y <= x
           Bad == { n \in Nat : \E U \in SUBSET S :
                      U # {} /\ Cardinality(U) = n /\ ~ HasMax(U) }
<1>1. ASSUME Bad # {} PROVE FALSE
  <2>1. PICK n \in Bad : \A m \in Nat : m < n => m \notin Bad
    <3>1. Bad \in SUBSET Nat
      OBVIOUS
    <3> HIDE DEF Bad
    <3> QED BY <1>1, <3>1, FirstNat
  <2>2. PICK U \in SUBSET S : U # {} /\ Cardinality(U) = n /\ ~ HasMax(U)
    OBVIOUS
  <2>3. PICK x \in U : TRUE
    BY <2>2
  <2> DEFINE V == U \ {x}
  <2>4. IsFiniteSet(U) /\ x \in Int
    BY FS_Subset
  <2>5. IsFiniteSet(V) /\ Cardinality(V) = Cardinality(U) - 1 /\ Cardinality(V) \in Nat
    BY <2>3, <2>4, FS_RemoveElement, FS_CardinalityType
  <2>6. V # {}
    <3> SUFFICES ASSUME V = {} PROVE FALSE
      OBVIOUS
    <3>1. \A y \in U : y <= x
      BY <2>4
    <3> QED BY <2>2, <2>3, <3>1
  <2>7. HasMax(V)
    <3>1. Cardinality(V) < n /\ Cardinality(V) \notin Bad
      <4>1. n \in Nat
        OBVIOUS
      <4> HIDE DEF V, Bad, HasMax
      <4>2. Cardinality(V) < n
        BY <2>2, <2>5, <4>1
      <4> QED BY <2>1, <2>5, <4>2, Zenon
    <3>2. V \in SUBSET S
      OBVIOUS
    <3> SUFFICES ASSUME ~ HasMax(V) PROVE FALSE
      OBVIOUS
    <3> HIDE DEF V, HasMax
    <3>3. Cardinality(V) \in Bad
      BY <2>5, <2>6, <3>2, Zenon
    <3> QED BY <3>1, <3>3
  <2>8. PICK z \in V : \A y \in V : y <= z
    BY <2>7
  <2>9. \A y \in U : y \in Int
    OBVIOUS
  <2>10. CASE x <= z
    <3>1. \A y \in U : y <= z
      BY <2>8, <2>10
    <3> QED BY <2>2, <2>8, <3>1
  <2>11. CASE z < x
    <3>1. \A y \in U : y <= x
      BY <2>8, <2>9, <2>11
    <3> QED BY <2>2, <2>3, <3>1
  <2> QED BY <2>8, <2>9, <2>10, <2>11
<1>2. HasMax(S)
  <2>1. Cardinality(S) \in Nat /\ Cardinality(S) \notin Bad
    <3> HIDE DEF Bad
    <3> QED BY <1>1, FS_CardinalityType
  <2> HIDE DEF HasMax
  <2> QED BY <2>1
<1>3. PICK x \in S : \A y \in S : x >= y
  <2>1. PICK x \in S : \A y \in S : y <= x
    BY <1>2
  <2>2. \A y \in S : x >= y
    BY <2>1
  <2> QED BY <2>2
<1>4. Max(S) \in S /\ \A y \in S : Max(S) >= y
  BY <1>3, Zenon DEF Max
<1> QED
  <2> HIDE DEF Max
  <2> QED BY <1>4

\* The greatest element is the only one that no other exceeds.
LEMMA MaxIs ==
  ASSUME NEW S \in SUBSET Int, NEW x \in S, \A y \in S : y <= x
  PROVE  Max(S) = x
<1>1. \A z \in S : (\A y \in S : z >= y) <=> z = x
  OBVIOUS
<1> QED BY <1>1 DEF Max

IsFold(S, base, pick, step, iter) ==
    \A s \in SUBSET S :
      iter[s] = IF s = {} THEN base ELSE step[<<pick[s], iter[s \ {pick[s]}]>>]

\* The function a fold over the subsets of S is defined by exists: what is
\* right for the sets of n elements is made right for those of n + 1.
LEMMA FoldExists ==
  ASSUME NEW S, IsFiniteSet(S), NEW V, NEW base \in V,
         NEW pick, \A s \in SUBSET S : s # {} => pick[s] \in s,
         NEW step \in [S \X V -> V]
  PROVE  \E iter \in [SUBSET S -> V] : IsFold(S, base, pick, step, iter)
<1> DEFINE Right(g, s) ==
             g[s] = IF s = {} THEN base ELSE step[<<pick[s], g[s \ {pick[s]}]>>]
           UpTo(n) == \E g \in [SUBSET S -> V] : \A s \in SUBSET S :
                        Cardinality(s) <= n => Right(g, s)
           Bad == { n \in Nat : ~ UpTo(n) }
<1>1. ASSUME NEW s \in SUBSET S
      PROVE  /\ IsFiniteSet(s) /\ Cardinality(s) \in Nat
             /\ Cardinality(s) <= Cardinality(S)
             /\ Cardinality(s) = 0 <=> s = {}
  BY FS_Subset, FS_CardinalityType, FS_EmptySet
<1>2. \A s \in SUBSET S : s # {} =>
        /\ pick[s] \in S /\ s \ {pick[s]} \in SUBSET S
        /\ Cardinality(s \ {pick[s]}) = Cardinality(s) - 1
  <2> SUFFICES ASSUME NEW s \in SUBSET S, s # {}
               PROVE  /\ pick[s] \in S /\ s \ {pick[s]} \in SUBSET S
                      /\ Cardinality(s \ {pick[s]}) = Cardinality(s) - 1
    OBVIOUS
  <2>1. IsFiniteSet(s) /\ pick[s] \in s
    BY <1>1
  <2>2. Cardinality(s \ {pick[s]}) = Cardinality(s) - 1
    BY <2>1, FS_RemoveElement
  <2> QED BY <2>1, <2>2
<1>3. UpTo(0)
  <2>1. [s \in SUBSET S |-> base] \in [SUBSET S -> V]
    OBVIOUS
  <2>2. ASSUME NEW s \in SUBSET S, Cardinality(s) <= 0
        PROVE  Right([t \in SUBSET S |-> base], s)
    <3>1. s = {}
      BY <1>1, <2>2
    <3> QED BY <3>1
  <2> QED BY <2>1, <2>2
<1>4. ASSUME NEW n \in Nat, UpTo(n) PROVE UpTo(n + 1)
  <2>1. PICK g \in [SUBSET S -> V] : \A s \in SUBSET S : Cardinality(s) <= n => Right(g, s)
    BY <1>4
  <2> DEFINE h == [s \in SUBSET S |->
                     IF s = {} THEN base ELSE step[<<pick[s], g[s \ {pick[s]}]>>]]
  <2>2. h \in [SUBSET S -> V]
    BY <1>2
  <2>3. \A s \in SUBSET S : Cardinality(s) <= n => h[s] = g[s]
    BY <2>1
  <2>4. ASSUME NEW s \in SUBSET S, Cardinality(s) <= n + 1 PROVE Right(h, s)
    <3>1. CASE s = {}
      BY <3>1
    <3>2. CASE s # {}
      <4>1. /\ s \ {pick[s]} \in SUBSET S
            /\ Cardinality(s \ {pick[s]}) = Cardinality(s) - 1
            /\ Cardinality(s) \in Nat
        BY <1>1, <1>2, <3>2, Zenon
      <4>2. Cardinality(s \ {pick[s]}) <= n
        BY <2>4, <4>1
      <4>3. h[s \ {pick[s]}] = g[s \ {pick[s]}]
        BY <2>3, <4>1, <4>2
      <4>4. h[s] = step[<<pick[s], g[s \ {pick[s]}]>>]
        BY <3>2
      <4> HIDE DEF h
      <4> QED BY <3>2, <4>3, <4>4
    <3> QED BY <3>1, <3>2
  <2> HIDE DEF h, Right
  <2> QED BY <2>2, <2>4
<1> HIDE DEF UpTo
<1>5. UpTo(Cardinality(S))
  <2> SUFFICES ASSUME ~ UpTo(Cardinality(S)) PROVE FALSE
    OBVIOUS
  <2>1. Cardinality(S) \in Nat
    BY FS_CardinalityType
  <2>2. PICK n \in Bad : \A m \in Nat : m < n => m \notin Bad
    BY <2>1, FirstNat
  <2>3. n # 0 /\ n \in Nat
    BY <1>3, <2>2
  <2>4. n - 1 \in Nat /\ n - 1 < n /\ (n - 1) + 1 = n
    BY <2>3
  <2>5. UpTo(n - 1)
    BY <2>2, <2>4
  <2> QED BY <1>4, <2>2, <2>4, <2>5
<1>6. PICK g \in [SUBSET S -> V] : \A s \in SUBSET S :
        Cardinality(s) <= Cardinality(S) => Right(g, s)
  BY <1>5 DEF UpTo
<1> QED BY <1>1, <1>6 DEF IsFold

-----------------------------------------------------------------------------
(* Sums of natural numbers over finite sets.                               *)

Chosen(s) == CHOOSE x \in s : TRUE

IsSum(f, S, g) ==
    \A s \in SUBSET S : g[s] = IF s = {} THEN 0 ELSE f[Chosen(s)] + g[s \ {Chosen(s)}]

\* The sums of two functions that agree are one.
LEMMA SumsAgree ==
  ASSUME NEW S, IsFiniteSet(S), NEW f, NEW e, \A x \in S : f[x] = e[x],
         NEW g, IsSum(f, S, g), NEW h, IsSum(e, S, h)
  PROVE  g[S] = h[S]
<1> DEFINE Bad == { n \in Nat : \E s \in SUBSET S : Cardinality(s) = n /\ g[s] # h[s] }
<1>1. ASSUME NEW s \in SUBSET S
      PROVE  /\ Cardinality(s) \in Nat
             /\ s # {} => /\ Chosen(s) \in S /\ s \ {Chosen(s)} \in SUBSET S
                          /\ Cardinality(s \ {Chosen(s)}) = Cardinality(s) - 1
  <2>1. IsFiniteSet(s) /\ Cardinality(s) \in Nat
    BY FS_Subset, FS_CardinalityType
  <2>2. CASE s # {}
    <3>1. Chosen(s) \in s
      BY <2>2 DEF Chosen
    <3>2. Cardinality(s \ {Chosen(s)}) = Cardinality(s) - 1
      BY <2>1, <3>1, FS_RemoveElement
    <3> QED BY <2>1, <3>1, <3>2
  <2> QED BY <2>1, <2>2
<1>2. SUFFICES ASSUME g[S] # h[S] PROVE FALSE
  OBVIOUS
<1>3. Bad # {}
  BY <1>1, <1>2
<1>4. PICK n \in Bad : \A m \in Nat : m < n => m \notin Bad
  BY <1>3, FirstNat
<1>5. PICK s \in SUBSET S : Cardinality(s) = n /\ g[s] # h[s]
  BY <1>4
<1>6. s # {}
  BY <1>5 DEF IsSum
<1>7. PICK t \in SUBSET S : t = s \ {Chosen(s)} /\ Cardinality(t) = n - 1 /\ n \in Nat /\ n - 1 \in Nat
  <2>1. /\ s \ {Chosen(s)} \in SUBSET S /\ Cardinality(s \ {Chosen(s)}) = n - 1
        /\ n \in Nat /\ n - 1 \in Nat
    BY <1>1, <1>5, <1>6
  <2> QED BY <2>1
<1>8. g[t] = h[t]
  <2>1. n - 1 < n
    BY <1>7
  <2>2. n - 1 \notin Bad
    BY <1>4, <1>7, <2>1
  <2> QED BY <1>7, <2>2
<1>9. g[s] = f[Chosen(s)] + g[t] /\ h[s] = e[Chosen(s)] + h[t] /\ f[Chosen(s)] = e[Chosen(s)]
  BY <1>1, <1>6, <1>7 DEF IsSum
<1> HIDE DEF Bad
<1> QED BY <1>5, <1>8, <1>9, Zenon

LEMMA SumExists ==
  ASSUME NEW S, IsFiniteSet(S), NEW f, \A x \in S : f[x] \in Nat
  PROVE  \E g \in [SUBSET S -> Nat] : IsSum(f, S, g) /\ SumFunctionOnSet(f, S) = g[S]
<1> DEFINE pick == [s \in SUBSET S |-> Chosen(s)]
           step == [p \in S \X Nat |-> f[p[1]] + p[2]]
           Is(g) == g = [s \in SUBSET S |-> IF s = {} THEN 0 ELSE f[Chosen(s)] + g[s \ {Chosen(s)}]]
<1>1. \A s \in SUBSET S : s # {} => Chosen(s) \in s /\ pick[s] = Chosen(s)
  BY DEF Chosen
<1>2. step \in [S \X Nat -> Nat]
  OBVIOUS
<1>3. PICK g \in [SUBSET S -> Nat] : IsFold(S, 0, pick, step, g)
  <2> HIDE DEF pick, step
  <2>1. 0 \in Nat /\ \A s \in SUBSET S : s # {} => pick[s] \in s
    BY <1>1
  <2> QED BY <1>2, <2>1, FoldExists, Zenon
<1>4. IsSum(f, S, g)
  <2> SUFFICES ASSUME NEW s \in SUBSET S
               PROVE  g[s] = IF s = {} THEN 0 ELSE f[Chosen(s)] + g[s \ {Chosen(s)}]
    BY DEF IsSum
  <2>1. CASE s = {}
    BY <1>3, <2>1 DEF IsFold
  <2>2. CASE s # {}
    <3>1. /\ pick[s] = Chosen(s) /\ Chosen(s) \in S /\ g[s \ {Chosen(s)}] \in Nat
      BY <1>1, <2>2
    <3>2. step[<<Chosen(s), g[s \ {Chosen(s)}]>>] = f[Chosen(s)] + g[s \ {Chosen(s)}]
      BY <3>1
    <3> HIDE DEF pick, step
    <3> QED BY <1>3, <2>2, <3>1, <3>2 DEF IsFold
  <2> QED BY <2>1, <2>2
<1> HIDE DEF pick, step
<1>5. Is(g)
  BY <1>4 DEF IsSum
<1>6. Is(CHOOSE h : Is(h))
  <2> HIDE DEF Is
  <2> QED BY <1>5
<1>7. PICK h : h = CHOOSE k : Is(k)
  OBVIOUS
<1>8. SumFunctionOnSet(f, S) = h[S]
  BY <1>7, Zenon DEF SumFunctionOnSet, FoldFunctionOnSet, MapThenFoldSet, Chosen
<1>9. Is(h)
  BY <1>6, <1>7
<1>10. h = [s \in SUBSET S |-> h[s]] /\ IsSum(f, S, h)
  BY <1>9 DEF IsSum
<1>11. ASSUME NEW s \in SUBSET S PROVE h[s] \in Nat
  <2>1. IsFiniteSet(s)
    BY FS_Subset
  <2>2. IsSum(f, s, g) /\ IsSum(f, s, h) /\ \A x \in s : f[x] = f[x]
    BY <1>4, <1>10 DEF IsSum
  <2>3. g[s] = h[s]
    BY <2>1, <2>2, SumsAgree, Zenon
  <2> QED BY <2>3
<1>12. h \in [SUBSET S -> Nat]
  BY <1>10, <1>11
<1> QED BY <1>8, <1>10, <1>12

LEMMA SumNatType ==
  ASSUME NEW S, IsFiniteSet(S), NEW f, \A x \in S : f[x] \in Nat
  PROVE  SumFunctionOnSet(f, S) \in Nat
<1>1. PICK g \in [SUBSET S -> Nat] : SumFunctionOnSet(f, S) = g[S]
  BY SumExists
<1> QED BY <1>1

\* Equal functions have equal sums.
LEMMA SumSame ==
  ASSUME NEW S, IsFiniteSet(S), NEW f, NEW e, \A x \in S : f[x] \in Nat /\ e[x] = f[x]
  PROVE  SumFunctionOnSet(e, S) = SumFunctionOnSet(f, S)
<1>1. PICK g : IsSum(f, S, g) /\ SumFunctionOnSet(f, S) = g[S]
  BY SumExists, Zenon
<1>2. PICK h : IsSum(e, S, h) /\ SumFunctionOnSet(e, S) = h[S]
  <2>1. \A x \in S : e[x] \in Nat
    BY Zenon
  <2> QED BY <2>1, SumExists, Zenon
<1>3. g[S] = h[S]
  <2>1. \A x \in S : f[x] = e[x]
    BY Zenon
  <2>2. IsSum(f, S, g) /\ IsSum(e, S, h)
    BY <1>1, <1>2
  <2> QED BY <2>1, <2>2, SumsAgree
<1> QED BY <1>1, <1>2, <1>3

\* The sum over the empty set; and the element taken out that is chosen first.
LEMMA SumAny ==
  ASSUME NEW S, IsFiniteSet(S), NEW f, \A x \in S : f[x] \in Nat
  PROVE  SumFunctionOnSet(f, S) =
           IF S = {} THEN 0 ELSE f[Chosen(S)] + SumFunctionOnSet(f, S \ {Chosen(S)})
<1>1. PICK g : IsSum(f, S, g) /\ SumFunctionOnSet(f, S) = g[S]
  BY SumExists, Zenon
<1>2. g[S] = IF S = {} THEN 0 ELSE f[Chosen(S)] + g[S \ {Chosen(S)}]
  BY <1>1 DEF IsSum
<1>3. PICK t : t = S \ {Chosen(S)}
  OBVIOUS
<1>4. IsFiniteSet(t) /\ t \in SUBSET S
  BY <1>3, FS_RemoveElement
<1>5. PICK h : IsSum(f, t, h) /\ SumFunctionOnSet(f, t) = h[t]
  <2>1. \A x \in t : f[x] \in Nat
    BY <1>4
  <2> QED BY <1>4, <2>1, SumExists, Zenon
<1>6. IsSum(f, t, g) /\ \A x \in t : f[x] = f[x]
  BY <1>1, <1>4 DEF IsSum
<1>7. g[t] = h[t]
  BY <1>4, <1>5, <1>6, SumsAgree, Zenon
<1> QED BY <1>1, <1>2, <1>3, <1>5, <1>7

LEMMA SumZero ==
  ASSUME NEW S, IsFiniteSet(S), NEW f, \A x \in S : f[x] = 0
  PROVE  SumFunctionOnSet(f, S) = 0
<1>1. PICK g : IsSum(f, S, g) /\ SumFunctionOnSet(f, S) = g[S]
  <2>1. \A x \in S : f[x] \in Nat
    OBVIOUS
  <2> QED BY <2>1, SumExists, Zenon
<1>2. PICK h : h = [s \in SUBSET S |-> 0]
  OBVIOUS
<1>3. IsSum(f, S, h) /\ h[S] = 0
  <2> SUFFICES ASSUME NEW s \in SUBSET S
               PROVE  h[s] = IF s = {} THEN 0 ELSE f[Chosen(s)] + h[s \ {Chosen(s)}]
    BY <1>2 DEF IsSum
  <2>1. s # {} => Chosen(s) \in S /\ s \ {Chosen(s)} \in SUBSET S
    BY DEF Chosen
  <2> QED BY <1>2, <2>1
<1>4. \A x \in S : f[x] = f[x]
  OBVIOUS
<1>5. g[S] = h[S]
  BY <1>1, <1>3, <1>4, SumsAgree, Zenon
<1> QED BY <1>1, <1>3, <1>5

\* Any element can be taken out of a sum.
LEMMA SumWithout ==
  ASSUME NEW S, IsFiniteSet(S), NEW f, \A x \in S : f[x] \in Nat, NEW c \in S
  PROVE  SumFunctionOnSet(f, S) = f[c] + SumFunctionOnSet(f, S \ {c})
<1> DEFINE Sum(s) == SumFunctionOnSet(f, s)
           Bad == { n \in Nat : \E s \in SUBSET S :
                      Cardinality(s) = n /\ \E x \in s : Sum(s) # f[x] + Sum(s \ {x}) }
<1>1. ASSUME NEW s \in SUBSET S
      PROVE  /\ IsFiniteSet(s) /\ Cardinality(s) \in Nat /\ Sum(s) \in Nat
             /\ \A x \in s : Cardinality(s \ {x}) = Cardinality(s) - 1
             /\ s # {} => Chosen(s) \in s /\ Sum(s) = f[Chosen(s)] + Sum(s \ {Chosen(s)})
  <2>1. IsFiniteSet(s) /\ Cardinality(s) \in Nat
    BY FS_Subset, FS_CardinalityType
  <2>2. \A x \in s : f[x] \in Nat
    OBVIOUS
  <2>3. Sum(s) \in Nat
    BY <2>1, <2>2, SumNatType
  <2>4. \A x \in s : Cardinality(s \ {x}) = Cardinality(s) - 1
    BY <2>1, FS_RemoveElement
  <2>5. s # {} => Chosen(s) \in s
    BY DEF Chosen
  <2>6. s # {} => Sum(s) = f[Chosen(s)] + Sum(s \ {Chosen(s)})
    BY <2>1, <2>2, SumAny
  <2> QED BY <2>1, <2>3, <2>4, <2>5, <2>6
<1> HIDE DEF Sum
<1>2. SUFFICES ASSUME Sum(S) # f[c] + Sum(S \ {c}) PROVE FALSE
  BY DEF Sum
<1>3. Bad # {}
  BY <1>1, <1>2
<1>4. PICK n \in Bad : \A m \in Nat : m < n => m \notin Bad
  BY <1>3, FirstNat
<1>5. PICK s \in SUBSET S : Cardinality(s) = n /\ \E x \in s : Sum(s) # f[x] + Sum(s \ {x})
  BY <1>4
<1>6. PICK x \in s : Sum(s) # f[x] + Sum(s \ {x})
  BY <1>5
<1>7. PICK d \in s : d = Chosen(s) /\ Sum(s) = f[d] + Sum(s \ {d})
  BY <1>1, <1>6
<1>8. x # d
  BY <1>6, <1>7
<1>9. ASSUME NEW t \in SUBSET S, Cardinality(t) = n - 1, NEW y \in t
      PROVE  Sum(t) = f[y] + Sum(t \ {y})
  <2>1. n - 1 \in Nat /\ n - 1 < n
    <3>1. n \in Nat /\ Cardinality(t) \in Nat
      BY <1>1, <1>4
    <3> QED BY <1>9, <3>1
  <2>2. n - 1 \notin Bad
    BY <1>4, <2>1
  <2> QED BY <1>9, <2>1, <2>2
<1> HIDE DEF Bad
<1>10. Sum(s \ {d}) = f[x] + Sum((s \ {d}) \ {x})
  BY <1>1, <1>5, <1>8, <1>9
<1>11. Sum(s \ {x}) = f[d] + Sum((s \ {x}) \ {d})
  BY <1>1, <1>5, <1>8, <1>9
<1>12. PICK t \in SUBSET S : t = (s \ {d}) \ {x} /\ t = (s \ {x}) \ {d}
  <2>1. (s \ {d}) \ {x} = (s \ {x}) \ {d} /\ (s \ {d}) \ {x} \in SUBSET S
    OBVIOUS
  <2> QED BY <2>1
<1>13. Sum(t) \in Nat /\ f[x] \in Nat /\ f[d] \in Nat
  BY <1>1
<1>14. Sum(s) = f[d] + (f[x] + Sum(t)) /\ f[x] + Sum(s \ {x}) = f[x] + (f[d] + Sum(t))
  BY <1>7, <1>10, <1>11, <1>12
<1> QED BY <1>6, <1>13, <1>14

\* More elements, and more of each, make no smaller sum.
LEMMA SumMonotone ==
  ASSUME NEW T, IsFiniteSet(T), NEW S \in SUBSET T,
         NEW f, NEW e, \A x \in T : f[x] \in Nat /\ e[x] \in Nat, \A x \in S : f[x] <= e[x]
  PROVE  SumFunctionOnSet(f, S) <= SumFunctionOnSet(e, T)
<1> DEFINE F(s) == SumFunctionOnSet(f, s)
           E(s) == SumFunctionOnSet(e, s)
           Bad == { n \in Nat : \E t \in SUBSET T :
                      Cardinality(t) = n /\ \E s \in SUBSET t : s \subseteq S /\ ~ (F(s) <= E(t)) }
<1>1. ASSUME NEW s \in SUBSET T
      PROVE  /\ IsFiniteSet(s) /\ Cardinality(s) \in Nat /\ F(s) \in Nat /\ E(s) \in Nat
             /\ \A x \in s : /\ Cardinality(s \ {x}) = Cardinality(s) - 1
                             /\ F(s) = f[x] + F(s \ {x}) /\ E(s) = e[x] + E(s \ {x})
             /\ s = {} => F(s) = 0
  <2>1. IsFiniteSet(s) /\ Cardinality(s) \in Nat
    BY FS_Subset, FS_CardinalityType
  <2>2. (\A x \in s : f[x] \in Nat) /\ (\A x \in s : e[x] \in Nat)
    OBVIOUS
  <2>3. F(s) \in Nat /\ E(s) \in Nat
    BY <2>1, <2>2, SumNatType
  <2>4. \A x \in s : Cardinality(s \ {x}) = Cardinality(s) - 1
    BY <2>1, FS_RemoveElement
  <2>5. \A x \in s : F(s) = f[x] + F(s \ {x})
    BY <2>1, <2>2, SumWithout
  <2>6. \A x \in s : E(s) = e[x] + E(s \ {x})
    BY <2>1, <2>2, SumWithout
  <2>7. s = {} => F(s) = 0
    BY <2>1, <2>2, SumAny
  <2> HIDE DEF F, E
  <2> QED BY <2>1, <2>3, <2>4, <2>5, <2>6, <2>7
<1> HIDE DEF F, E
<1>2. SUFFICES ASSUME ~ (F(S) <= E(T)) PROVE FALSE
  BY DEF F, E
<1>3. Bad # {}
  BY <1>1, <1>2
<1>4. PICK n \in Bad : \A m \in Nat : m < n => m \notin Bad
  BY <1>3, FirstNat
<1>5. PICK t \in SUBSET T : Cardinality(t) = n /\ \E s \in SUBSET t : s \subseteq S /\ ~ (F(s) <= E(t))
  BY <1>4
<1>6. PICK s \in SUBSET t : s \subseteq S /\ ~ (F(s) <= E(t))
  BY <1>5
<1>7. F(s) \in Nat /\ E(t) \in Nat /\ Cardinality(t) \in Nat /\ n \in Nat
  BY <1>1, <1>4
<1>8. t # {}
  <2>1. ASSUME t = {} PROVE FALSE
    <3>1. s = {} /\ F(s) = 0
      BY <1>1, <2>1
    <3> QED BY <1>6, <1>7, <3>1
  <2> QED BY <2>1
<1>9. PICK c \in t : TRUE
  BY <1>8
<1>10. PICK u \in SUBSET T : u = t \ {c} /\ Cardinality(u) = n - 1
  BY <1>1, <1>5
<1>11. ASSUME NEW r \in SUBSET u, r \subseteq S PROVE F(r) <= E(u)
  <2>1. n - 1 \in Nat /\ n - 1 < n
    <3>1. Cardinality(u) \in Nat
      BY <1>1
    <3> QED BY <1>7, <1>10, <3>1
  <2>2. n - 1 \notin Bad
    BY <1>4, <2>1
  <2> QED BY <1>10, <1>11, <2>1, <2>2
<1> HIDE DEF Bad
<1>12. E(t) = e[c] + E(u) /\ e[c] \in Nat /\ f[c] \in Nat /\ E(u) \in Nat
  BY <1>1, <1>10
<1>13. CASE c \in s
  <2>1. PICK r \in SUBSET u : r = s \ {c} /\ r \subseteq S /\ F(r) \in Nat
    <3>1. s \ {c} \in SUBSET u /\ s \ {c} \in SUBSET T /\ s \ {c} \subseteq S
      BY <1>6, <1>10
    <3>2. F(s \ {c}) \in Nat
      BY <1>1, <3>1
    <3> QED BY <3>1, <3>2
  <2>2. F(s) = f[c] + F(r)
    BY <1>1, <1>13, <2>1
  <2>3. F(r) <= E(u) /\ f[c] <= e[c]
    BY <1>6, <1>11, <1>13, <2>1
  <2> QED BY <1>6, <1>12, <2>1, <2>2, <2>3
<1>14. CASE c \notin s
  <2>1. s \in SUBSET u
    BY <1>10, <1>14
  <2>2. F(s) <= E(u)
    BY <1>6, <1>11, <2>1
  <2> QED BY <1>6, <1>7, <1>12, <2>2
<1> QED BY <1>13, <1>14

\* One of the numbers is counted up.
LEMMA SumPlusOne ==
  ASSUME NEW S, IsFiniteSet(S), NEW f, NEW e, NEW c \in S, \A x \in S : f[x] \in Nat,
         e[c] = f[c] + 1, \A x \in S \ {c} : e[x] = f[x]
  PROVE  SumFunctionOnSet(e, S) = SumFunctionOnSet(f, S) + 1
<1>1. PICK t : t = S \ {c}
  OBVIOUS
<1>2. IsFiniteSet(t) /\ \A x \in t : f[x] \in Nat /\ e[x] = f[x]
  BY <1>1, FS_RemoveElement
<1>3. SumFunctionOnSet(e, t) = SumFunctionOnSet(f, t)
  BY <1>2, SumSame
<1>4. SumFunctionOnSet(f, t) \in Nat
  BY <1>2, SumNatType
<1>5. SumFunctionOnSet(f, S) = f[c] + SumFunctionOnSet(f, t)
  BY <1>1, SumWithout
<1>6. \A x \in S : e[x] \in Nat
  <2>1. f[c] \in Nat /\ f[c] + 1 \in Nat
    OBVIOUS
  <2> QED BY <2>1
<1>7. SumFunctionOnSet(e, S) = e[c] + SumFunctionOnSet(e, t)
  BY <1>1, <1>6, SumWithout
<1> QED BY <1>3, <1>4, <1>5, <1>7

\* The sum of sums.
LEMMA SumPlus ==
  ASSUME NEW S, IsFiniteSet(S), NEW f, NEW e, NEW h,
         \A x \in S : f[x] \in Nat /\ e[x] \in Nat /\ h[x] = f[x] + e[x]
  PROVE  SumFunctionOnSet(h, S) = SumFunctionOnSet(f, S) + SumFunctionOnSet(e, S)
<1> DEFINE F(s) == SumFunctionOnSet(f, s)
           E(s) == SumFunctionOnSet(e, s)
           H(s) == SumFunctionOnSet(h, s)
           Bad == { n \in Nat : \E s \in SUBSET S : Cardinality(s) = n /\ H(s) # F(s) + E(s) }
<1>1. ASSUME NEW s \in SUBSET S
      PROVE  /\ IsFiniteSet(s) /\ Cardinality(s) \in Nat /\ F(s) \in Nat /\ E(s) \in Nat
             /\ \A x \in s : /\ Cardinality(s \ {x}) = Cardinality(s) - 1
                             /\ F(s) = f[x] + F(s \ {x}) /\ E(s) = e[x] + E(s \ {x})
                             /\ H(s) = h[x] + H(s \ {x})
             /\ s = {} => F(s) = 0 /\ E(s) = 0 /\ H(s) = 0
  <2>1. IsFiniteSet(s) /\ Cardinality(s) \in Nat
    BY FS_Subset, FS_CardinalityType
  <2>2. (\A x \in s : f[x] \in Nat) /\ (\A x \in s : e[x] \in Nat) /\ (\A x \in s : h[x] \in Nat)
    <3>1. \A m, n \in Nat : m + n \in Nat
      OBVIOUS
    <3> QED BY <3>1, Zenon
  <2>3. F(s) \in Nat /\ E(s) \in Nat
    BY <2>1, <2>2, SumNatType
  <2>4. \A x \in s : Cardinality(s \ {x}) = Cardinality(s) - 1
    BY <2>1, FS_RemoveElement
  <2>5. \A x \in s : F(s) = f[x] + F(s \ {x})
    BY <2>1, <2>2, SumWithout
  <2>6. \A x \in s : E(s) = e[x] + E(s \ {x})
    BY <2>1, <2>2, SumWithout
  <2>7. \A x \in s : H(s) = h[x] + H(s \ {x})
    BY <2>1, <2>2, SumWithout
  <2>8. s = {} => F(s) = 0 /\ E(s) = 0 /\ H(s) = 0
    BY <2>1, <2>2, SumAny
  <2> HIDE DEF F, E, H
  <2> QED BY <2>1, <2>3, <2>4, <2>5, <2>6, <2>7, <2>8, Zenon
<1> HIDE DEF F, E, H
<1>2. SUFFICES ASSUME H(S) # F(S) + E(S) PROVE FALSE
  BY DEF F, E, H
<1>3. Bad # {}
  BY <1>1, <1>2
<1>4. PICK n \in Bad : \A m \in Nat : m < n => m \notin Bad
  BY <1>3, FirstNat
<1>5. PICK s \in SUBSET S : Cardinality(s) = n /\ H(s) # F(s) + E(s)
  BY <1>4
<1>6. s # {}
  BY <1>1, <1>5
<1>7. PICK c \in s : TRUE
  BY <1>6
<1>8. PICK u \in SUBSET S : u = s \ {c} /\ Cardinality(u) = n - 1
  BY <1>1, <1>5
<1>9. H(u) = F(u) + E(u)
  <2>1. n \in Nat /\ Cardinality(u) \in Nat
    BY <1>1, <1>4
  <2>2. n - 1 \in Nat /\ n - 1 < n
    BY <1>8, <2>1
  <2>3. n - 1 \notin Bad
    BY <1>4, <2>2
  <2> QED BY <1>8, <2>2, <2>3
<1> HIDE DEF Bad
<1>10. /\ F(u) \in Nat /\ E(u) \in Nat /\ f[c] \in Nat /\ e[c] \in Nat /\ h[c] = f[c] + e[c]
       /\ F(s) = f[c] + F(u) /\ E(s) = e[c] + E(u) /\ H(s) = h[c] + H(u)
  BY <1>1, <1>8
<1> QED BY <1>5, <1>9, <1>10

\* The sum of multiples.
LEMMA SumTimes ==
  ASSUME NEW S, IsFiniteSet(S), NEW k \in Nat, NEW f, NEW h,
         \A x \in S : f[x] \in Nat /\ h[x] = k * f[x]
  PROVE  SumFunctionOnSet(h, S) = k * SumFunctionOnSet(f, S)
<1> DEFINE F(s) == SumFunctionOnSet(f, s)
           H(s) == SumFunctionOnSet(h, s)
           Bad == { n \in Nat : \E s \in SUBSET S : Cardinality(s) = n /\ H(s) # k * F(s) }
<1>1. ASSUME NEW s \in SUBSET S
      PROVE  /\ IsFiniteSet(s) /\ Cardinality(s) \in Nat /\ F(s) \in Nat
             /\ \A x \in s : /\ Cardinality(s \ {x}) = Cardinality(s) - 1
                             /\ F(s) = f[x] + F(s \ {x}) /\ H(s) = h[x] + H(s \ {x})
             /\ s = {} => F(s) = 0 /\ H(s) = 0
  <2>1. IsFiniteSet(s) /\ Cardinality(s) \in Nat
    BY FS_Subset, FS_CardinalityType
  <2>2. (\A x \in s : f[x] \in Nat) /\ (\A x \in s : h[x] \in Nat)
    <3>1. \A m, n \in Nat : m * n \in Nat
      OBVIOUS
    <3> QED BY <3>1, Zenon
  <2>3. F(s) \in Nat
    BY <2>1, <2>2, SumNatType
  <2>4. \A x \in s : Cardinality(s \ {x}) = Cardinality(s) - 1
    BY <2>1, FS_RemoveElement
  <2>5. \A x \in s : F(s) = f[x] + F(s \ {x})
    BY <2>1, <2>2, SumWithout
  <2>6. \A x \in s : H(s) = h[x] + H(s \ {x})
    BY <2>1, <2>2, SumWithout
  <2>7. s = {} => F(s) = 0 /\ H(s) = 0
    BY <2>1, <2>2, SumAny
  <2> HIDE DEF F, H
  <2> QED BY <2>1, <2>3, <2>4, <2>5, <2>6, <2>7, Zenon
<1> HIDE DEF F, H
<1>2. SUFFICES ASSUME H(S) # k * F(S) PROVE FALSE
  BY DEF F, H
<1>3. Bad # {}
  BY <1>1, <1>2
<1>4. PICK n \in Bad : \A m \in Nat : m < n => m \notin Bad
  BY <1>3, FirstNat
<1>5. PICK s \in SUBSET S : Cardinality(s) = n /\ H(s) # k * F(s)
  BY <1>4
<1>6. s # {}
  BY <1>1, <1>5
<1>7. PICK c \in s : TRUE
  BY <1>6
<1>8. PICK u \in SUBSET S : u = s \ {c} /\ Cardinality(u) = n - 1
  BY <1>1, <1>5
<1>9. H(u) = k * F(u)
  <2>1. n \in Nat /\ Cardinality(u) \in Nat
    BY <1>1, <1>4
  <2>2. n - 1 \in Nat /\ n - 1 < n
    BY <1>8, <2>1
  <2>3. n - 1 \notin Bad
    BY <1>4, <2>2
  <2> QED BY <1>8, <2>2, <2>3
<1> HIDE DEF Bad
<1>10. /\ F(u) \in Nat /\ f[c] \in Nat /\ h[c] = k * f[c]
       /\ F(s) = f[c] + F(u) /\ H(s) = h[c] + H(u)
  BY <1>1, <1>8
<1>11. k * (f[c] + F(u)) = k * f[c] + k * F(u)
  BY <1>10
<1> QED BY <1>5, <1>9, <1>10, <1>11

\* A sum that is zero has nothing else in it.
LEMMA SumNothing ==
  ASSUME NEW S, IsFiniteSet(S), NEW f, \A x \in S : f[x] \in Nat,
         SumFunctionOnSet(f, S) = 0, NEW c \in S
  PROVE  f[c] = 0
<1>1. SumFunctionOnSet(f, S) = f[c] + SumFunctionOnSet(f, S \ {c})
  BY SumWithout
<1>2. SumFunctionOnSet(f, S \ {c}) \in Nat
  <2>1. IsFiniteSet(S \ {c}) /\ \A x \in S \ {c} : f[x] \in Nat
    BY FS_RemoveElement
  <2> QED BY <2>1, SumNatType
<1>3. PICK m \in Nat : m = SumFunctionOnSet(f, S \ {c})
  BY <1>2
<1> QED BY <1>1, <1>3

\* A product of positive numbers is positive, and a multiple of each.
LEMMA ProductMultiple ==
  ASSUME NEW S \in SUBSET (Nat \ {0}), IsFiniteSet(S)
  PROVE  /\ ProductSet(S) \in Nat \ {0}
         /\ \A d \in S : \E m \in Nat : ProductSet(S) = d * m
<1> DEFINE pick == [s \in SUBSET S |-> Chosen(s)]
           step == [t \in S \X (Nat \ {0}) |-> t[1] * t[2]]
           Is(g) == g = [s \in SUBSET S |-> IF s = {} THEN 1 ELSE Chosen(s) * g[s \ {Chosen(s)}]]
<1>1. \A s \in SUBSET S : s # {} => Chosen(s) \in s /\ pick[s] = Chosen(s)
  BY DEF Chosen
<1>2. step \in [S \X (Nat \ {0}) -> Nat \ {0}]
  <2>1. \A m, n \in Nat \ {0} : m * n \in Nat \ {0}
    OBVIOUS
  <2>2. \A t \in S \X (Nat \ {0}) : t[1] \in Nat \ {0} /\ t[2] \in Nat \ {0}
    OBVIOUS
  <2>3. \A t \in S \X (Nat \ {0}) : t[1] * t[2] \in Nat \ {0}
    BY <2>1, <2>2, Zenon
  <2> QED BY <2>3, Zenon
<1>3. PICK f \in [SUBSET S -> Nat \ {0}] : IsFold(S, 1, pick, step, f)
  <2> HIDE DEF pick, step
  <2>1. 1 \in Nat \ {0} /\ \A s \in SUBSET S : s # {} => pick[s] \in s
    BY <1>1
  <2> QED BY <1>2, <2>1, FoldExists, Zenon
<1>4. Is(f)
  <2> SUFFICES ASSUME NEW s \in SUBSET S
               PROVE  f[s] = IF s = {} THEN 1 ELSE Chosen(s) * f[s \ {Chosen(s)}]
    OBVIOUS
  <2>1. CASE s = {}
    BY <1>3, <2>1 DEF IsFold
  <2>2. CASE s # {}
    <3>1. /\ pick[s] = Chosen(s) /\ Chosen(s) \in S /\ f[s \ {Chosen(s)}] \in Nat \ {0}
      BY <1>1, <2>2
    <3>2. step[<<Chosen(s), f[s \ {Chosen(s)}]>>] = Chosen(s) * f[s \ {Chosen(s)}]
      BY <3>1
    <3> HIDE DEF pick, step
    <3> QED BY <1>3, <2>2, <3>1, <3>2 DEF IsFold
  <2> QED BY <2>1, <2>2
<1> HIDE DEF pick, step
<1>5. PICK g : g = CHOOSE k : Is(k)
  OBVIOUS
<1>6. Is(g)
  <2> HIDE DEF Is
  <2> QED BY <1>4, <1>5
<1>7. ProductSet(S) = g[S]
  BY <1>5, Zenon DEF ProductSet, FoldSet, MapThenFoldSet, Chosen
<1>8. \A s \in SUBSET S : g[s] = IF s = {} THEN 1 ELSE Chosen(s) * g[s \ {Chosen(s)}]
  BY <1>6
<1> DEFINE Multiple(s) == g[s] \in Nat \ {0} /\ \A d \in s : \E m \in Nat : g[s] = d * m
           Bad == { n \in Nat : \E s \in SUBSET S : Cardinality(s) = n /\ ~ Multiple(s) }
<1>9. ASSUME Bad # {} PROVE FALSE
  <2>1. PICK n \in Bad : \A m \in Nat : m < n => m \notin Bad
    <3>1. Bad \in SUBSET Nat
      OBVIOUS
    <3> HIDE DEF Bad
    <3> QED BY <1>9, <3>1, FirstNat
  <2>2. PICK s \in SUBSET S : Cardinality(s) = n /\ ~ Multiple(s)
    BY <2>1
  <2>3. s # {}
    BY <1>8, <2>2
  <2>4. PICK c \in s : c = Chosen(s) /\ g[s] = c * g[s \ {c}]
    BY <1>1, <1>8, <2>3
  <2>5. PICK u \in SUBSET S : u = s \ {c} /\ Cardinality(u) = n - 1 /\ n - 1 \in Nat /\ n - 1 < n
    <3>1. IsFiniteSet(s) /\ s \ {c} \in SUBSET S
      BY FS_Subset
    <3>2. Cardinality(s \ {c}) = Cardinality(s) - 1
      BY <3>1, FS_RemoveElement
    <3>3. Cardinality(s) \in Nat /\ Cardinality(s \ {c}) \in Nat
      BY <3>1, FS_RemoveElement, FS_CardinalityType
    <3>4. n - 1 \in Nat /\ n - 1 < n
      BY <2>2, <3>2, <3>3
    <3> QED BY <2>2, <3>1, <3>2, <3>4
  <2>6. Multiple(u)
    <3> HIDE DEF Multiple
    <3>1. n - 1 \notin Bad
      BY <2>1, <2>5
    <3> QED BY <2>5, <3>1
  <2>7. PICK k \in Nat \ {0} : k = g[u] /\ g[s] = c * k
    BY <2>4, <2>5, <2>6
  <2>8. g[s] \in Nat \ {0}
    <3>1. c \in Nat \ {0}
      OBVIOUS
    <3> QED BY <2>7, <3>1
  <2>9. ASSUME NEW d \in s PROVE \E m \in Nat : g[s] = d * m
    <3>1. CASE d = c
      BY <2>7, <3>1
    <3>2. CASE d # c
      <4>1. PICK m \in Nat : k = d * m
        BY <2>5, <2>6, <2>7, <3>2
      <4>2. c \in Nat /\ d \in Nat
        OBVIOUS
      <4>3. c * (d * m) = d * (c * m) /\ c * m \in Nat
        BY <4>2
      <4> QED BY <2>7, <4>1, <4>3
    <3> QED BY <3>1, <3>2
  <2> QED BY <2>2, <2>8, <2>9
<1>10. Multiple(S)
  <2> HIDE DEF Multiple
  <2>1. Cardinality(S) \in Nat /\ S \in SUBSET S
    BY FS_CardinalityType
  <2> QED BY <1>9, <2>1
<1> QED BY <1>7, <1>10

-----------------------------------------------------------------------------
(* FoldLeft: a fold over 1 .. n that takes the largest index first off.    *)

IsOrderedFold(n, base, step, g) ==
    \A T \in SUBSET (1 .. n) :
      g[T] = IF T = {} THEN base ELSE step[<<Max(T), g[T \ {Max(T)}]>>]

LEMMA OrderedFold ==
  ASSUME NEW n \in Nat, NEW V, NEW base \in V, NEW step \in [(1 .. n) \X V -> V]
  PROVE  \E g \in [SUBSET (1 .. n) -> V] : IsOrderedFold(n, base, step, g)
<1> DEFINE S == 1 .. n
           pick == [T \in SUBSET S |-> Max(T)]
<1>1. IsFiniteSet(S)
  <2>1. \A lo, hi \in Int : IsFiniteSet(lo .. hi)
    BY FS_Interval
  <2>2. 1 \in Int /\ n \in Int
    OBVIOUS
  <2> QED BY <2>1, <2>2, Zenon
<1>2. \A T \in SUBSET S : T # {} => pick[T] \in T
  <2> SUFFICES ASSUME NEW T \in SUBSET S, T # {} PROVE Max(T) \in T
    OBVIOUS
  <2> QED BY MaxIndex
<1>3. \A T \in SUBSET S : pick[T] = Max(T)
  OBVIOUS
<1> HIDE DEF S, pick
<1>4. PICK g \in [SUBSET S -> V] : IsFold(S, base, pick, step, g)
  BY <1>1, <1>2, FoldExists, Zenon DEF S
<1>5. \A T \in SUBSET S : g[T] = IF T = {} THEN base ELSE step[<<Max(T), g[T \ {Max(T)}]>>]
  BY <1>3, <1>4, Zenon DEF IsFold
<1> QED BY <1>4, <1>5, Zenon DEF S, IsOrderedFold

\* The sets such a fold goes through.
LEMMA UpToNext ==
  ASSUME NEW n \in Nat, NEW k \in Nat, NEW m, m = k + 1, m <= n
  PROVE  /\ 1 .. m \in SUBSET (1 .. n) /\ 1 .. k \in SUBSET (1 .. n)
         /\ 1 .. m # {} /\ (1 .. m) \ {m} = 1 .. k /\ Max(1 .. m) = m
<1>1. PICK T : T = 1 .. m
  OBVIOUS
<1>2. T \in SUBSET Int /\ m \in T /\ (\A y \in T : y <= m) /\ T \ {m} = 1 .. k
  BY <1>1
<1>3. Max(T) = m
  BY <1>2, MaxIs
<1>4. 1 .. m \in SUBSET (1 .. n) /\ 1 .. k \in SUBSET (1 .. n)
  OBVIOUS
<1> QED BY <1>1, <1>2, <1>3, <1>4, Zenon

-----------------------------------------------------------------------------
(* Sums over the same things in other places.                              *)

\* A function of 0 .. n that recurs on its value before.
IsChain(n, base, step, f) ==
    f[0] = base /\ \A i \in 1 .. n : f[i] = step[<<i, f[i - 1]>>]

LEMMA ChainExists ==
  ASSUME NEW n \in Nat, NEW V, NEW base \in V, NEW step \in [(1 .. n) \X V -> V]
  PROVE  \E f \in [0 .. n -> V] : IsChain(n, base, step, f)
<1>1. PICK g \in [SUBSET (1 .. n) -> V] : IsOrderedFold(n, base, step, g)
  BY OrderedFold
<1> PICK f : f = [i \in 0 .. n |-> g[1 .. i]]
  OBVIOUS
<1>2. f \in [0 .. n -> V]
  <2>1. \A i \in 0 .. n : 1 .. i \in SUBSET (1 .. n)
    OBVIOUS
  <2> QED BY <1>1, <2>1, Zenon
<1>3. f[0] = base
  <2>1. 0 \in 0 .. n /\ 1 .. 0 = {} /\ 1 .. 0 \in SUBSET (1 .. n)
    OBVIOUS
  <2>2. f[0] = g[1 .. 0]
    BY <2>1, Zenon
  <2> QED BY <1>1, <2>1, <2>2, Zenon DEF IsOrderedFold
<1>4. ASSUME NEW i \in 1 .. n PROVE f[i] = step[<<i, f[i - 1]>>]
  <2> PICK k : k = i - 1
    OBVIOUS
  <2>1. k \in Nat /\ i \in Nat /\ i = k + 1 /\ i <= n /\ k \in 0 .. n /\ i \in 0 .. n
    OBVIOUS
  <2>2. /\ 1 .. i \in SUBSET (1 .. n) /\ 1 .. i # {}
        /\ (1 .. i) \ {i} = 1 .. k /\ Max(1 .. i) = i
    BY <2>1, UpToNext
  <2>3. f[i] = g[1 .. i] /\ f[k] = g[1 .. k]
    BY <2>1, Zenon
  <2>4. g[1 .. i] = step[<<i, g[1 .. k]>>]
    BY <1>1, <2>2, Zenon DEF IsOrderedFold
  <2> QED BY <2>3, <2>4, Zenon
<1> QED BY <1>2, <1>3, <1>4, Zenon DEF IsChain

\* What is zero adds nothing.
LEMMA SumSupport ==
  ASSUME NEW S, IsFiniteSet(S), NEW f, \A x \in S : f[x] \in Nat,
         NEW T \in SUBSET S, \A x \in S \ T : f[x] = 0
  PROVE  SumFunctionOnSet(f, T) = SumFunctionOnSet(f, S)
<1> DEFINE F(s) == SumFunctionOnSet(f, s)
           Between == { s \in SUBSET S : T \subseteq s /\ F(s) # F(T) }
           Bad == { Cardinality(s) : s \in Between }
<1>1. ASSUME NEW s \in SUBSET S
      PROVE  /\ Cardinality(s) \in Nat /\ F(s) \in Nat
             /\ \A x \in s : Cardinality(s \ {x}) = Cardinality(s) - 1 /\ F(s) = f[x] + F(s \ {x})
  <2>1. IsFiniteSet(s) /\ Cardinality(s) \in Nat
    BY FS_Subset, FS_CardinalityType
  <2>2. \A x \in s : Cardinality(s \ {x}) = Cardinality(s) - 1
    BY <2>1, FS_RemoveElement
  <2>3. \A x \in s : f[x] \in Nat
    OBVIOUS
  <2>4. \A x \in s : F(s) = f[x] + F(s \ {x})
    BY <2>1, <2>3, SumWithout
  <2>5. F(s) \in Nat
    BY <2>1, <2>3, SumNatType
  <2> HIDE DEF F
  <2> QED BY <2>1, <2>2, <2>4, <2>5, Zenon
<1> HIDE DEF F
<1> SUFFICES ASSUME F(T) # F(S) PROVE FALSE
  BY DEF F
<1>2. Bad # {} /\ Bad \in SUBSET Nat
  BY <1>1
<1>3. PICK n \in Bad : \A m \in Nat : m < n => m \notin Bad
  <2> HIDE DEF Bad
  <2> QED BY <1>2, FirstNat
<1>4. PICK s \in SUBSET S : T \subseteq s /\ F(s) # F(T) /\ Cardinality(s) = n
  OBVIOUS
<1>5. PICK c \in s \ T : TRUE
  BY <1>4
<1>6. PICK u \in SUBSET S : u = s \ {c} /\ T \subseteq u
  BY <1>4, <1>5
<1>7. Cardinality(u) = n - 1 /\ Cardinality(u) \in Nat /\ n \in Nat
  BY <1>1, <1>4, <1>5, <1>6
<1>8. F(u) = F(T)
  <2>1. Cardinality(u) < n
    BY <1>7
  <2>2. Cardinality(u) \notin Bad
    BY <1>3, <1>7, <2>1
  <2> QED BY <1>6, <2>2
<1>9. F(s) = f[c] + F(u) /\ f[c] = 0 /\ F(u) \in Nat
  BY <1>1, <1>5, <1>6
<1> QED BY <1>4, <1>8, <1>9

\* What o brings the indices S to.
ImageOf(o, S) == { o[j] : j \in S }

IsOneToOne(o, S) == \A i, j \in S : i # j => o[i] # o[j]

\* A sum may be taken over images.
LEMMA SumImage ==
  ASSUME NEW S, IsFiniteSet(S), NEW o, IsOneToOne(o, S),
         NEW T, IsFiniteSet(T), ImageOf(o, S) \subseteq T,
         NEW f, \A x \in T : f[x] \in Nat, NEW h, \A j \in S : h[j] = f[o[j]]
  PROVE  SumFunctionOnSet(h, S) = SumFunctionOnSet(f, ImageOf(o, S))
<1> DEFINE F(s) == SumFunctionOnSet(f, ImageOf(o, s))
           H(s) == SumFunctionOnSet(h, s)
           Wrong == { s \in SUBSET S : H(s) # F(s) }
           Bad == { Cardinality(s) : s \in Wrong }
<1>1. ASSUME NEW s \in SUBSET S
      PROVE  /\ Cardinality(s) \in Nat
             /\ \A j \in s : /\ Cardinality(s \ {j}) = Cardinality(s) - 1
                             /\ H(s) = h[j] + H(s \ {j}) /\ F(s) = f[o[j]] + F(s \ {j})
             /\ s = {} => H(s) = 0 /\ F(s) = 0
  <2>1. IsFiniteSet(s) /\ Cardinality(s) \in Nat
    BY FS_Subset, FS_CardinalityType
  <2>2. \A j \in s : Cardinality(s \ {j}) = Cardinality(s) - 1
    BY <2>1, FS_RemoveElement
  <2>3. \A j \in s : h[j] \in Nat
    BY DEF ImageOf
  <2>4. \A j \in s : H(s) = h[j] + H(s \ {j})
    BY <2>1, <2>3, SumWithout
  <2>5. PICK I : I = ImageOf(o, s)
    OBVIOUS
  <2>6. I \in SUBSET T
    BY <2>5 DEF ImageOf
  <2>7. IsFiniteSet(I) /\ \A x \in I : f[x] \in Nat
    BY <2>6, FS_Subset
  <2>8. ASSUME NEW j \in s
        PROVE  F(s) = f[o[j]] + F(s \ {j})
    <3>1. o[j] \in I /\ I \ {o[j]} = ImageOf(o, s \ {j})
      BY <2>5 DEF ImageOf, IsOneToOne
    <3>2. SumFunctionOnSet(f, I) = f[o[j]] + SumFunctionOnSet(f, I \ {o[j]})
      BY <2>7, <3>1, SumWithout
    <3> QED BY <2>5, <3>1, <3>2, Zenon
  <2>9. ASSUME s = {} PROVE H(s) = 0 /\ F(s) = 0
    <3>1. I = {}
      BY <2>5, <2>9 DEF ImageOf
    <3>2. H(s) = 0
      BY <2>1, <2>3, <2>9, SumAny
    <3>3. SumFunctionOnSet(f, I) = 0
      BY <2>7, <3>1, SumAny
    <3> QED BY <2>5, <3>2, <3>3, Zenon
  <2> HIDE DEF F, H
  <2> QED BY <2>1, <2>2, <2>4, <2>8, <2>9, Zenon
<1> HIDE DEF F, H
<1> SUFFICES ASSUME H(S) # F(S) PROVE FALSE
  BY DEF F, H
<1>2. Bad # {} /\ Bad \in SUBSET Nat
  BY <1>1
<1>3. PICK n \in Bad : \A m \in Nat : m < n => m \notin Bad
  <2> HIDE DEF Bad
  <2> QED BY <1>2, FirstNat
<1>4. PICK s \in SUBSET S : H(s) # F(s) /\ Cardinality(s) = n
  OBVIOUS
<1>5. s # {}
  BY <1>1, <1>4, Zenon
<1>6. PICK c \in s, u \in SUBSET S : u = s \ {c}
  BY <1>5
<1>7. Cardinality(u) = n - 1 /\ Cardinality(u) \in Nat /\ n \in Nat
  BY <1>1, <1>4, <1>6
<1>8. H(u) = F(u)
  <2>1. Cardinality(u) < n
    BY <1>7
  <2>2. Cardinality(u) \notin Bad
    BY <1>3, <1>7, <2>1
  <2> QED BY <2>2
<1>9. H(s) = h[c] + H(u) /\ F(s) = f[o[c]] + F(u) /\ h[c] = f[o[c]]
  BY <1>1, <1>6, Zenon
<1> QED BY <1>4, <1>8, <1>9, Zenon

\* An image has as many elements.
LEMMA ImageCount ==
  ASSUME NEW S, IsFiniteSet(S), NEW o, IsOneToOne(o, S)
  PROVE  IsFiniteSet(ImageOf(o, S)) /\ Cardinality(ImageOf(o, S)) = Cardinality(S)
<1> PICK I : I = ImageOf(o, S)
  OBVIOUS
<1> DEFINE b == [j \in S |-> o[j]]
<1>1. b \in [S -> I] /\ \A y \in I : \E j \in S : b[j] = y
  BY DEF ImageOf
<1>2. \A i, j \in S : b[i] = b[j] => i = j
  BY DEF IsOneToOne
<1> HIDE DEF b
<1>3. b \in Bijection(S, I)
  BY <1>1, <1>2 DEF Bijection, Injection, Surjection, IsInjective
<1>4. ExistsBijection(S, I)
  BY <1>3, Zenon DEF ExistsBijection
<1> QED BY <1>4, FS_Bijection, Zenon

=============================================================================
