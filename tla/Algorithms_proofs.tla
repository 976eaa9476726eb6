-------------------------- MODULE Algorithms_proofs -------------------------
(***************************************************************************)
(* The arithmetic parts, for every vocabulary, every number of shares and  *)
(* every input: what MCAlgorithms evaluates on bounded inputs.             *)
(***************************************************************************)
EXTENDS MCAlgorithms, Lemmas

-----------------------------------------------------------------------------
(* verify_and_accept: speculative sampling.                                *)

\* A row sums up to Shares.
LEMMA TotalIs ==
  ASSUME NEW row
  PROVE  Total(row) = SumFunctionOnSet(row, Tokens)
  BY Zenon DEF Total, MapThenSumSet, SumFunctionOnSet, FoldFunctionOnSet

LEMMA RowType ==
  ASSUME NEW row \in Rows
  PROVE  /\ \A t \in Tokens : row[t] \in Nat
         /\ SumFunctionOnSet(row, Tokens) = Shares /\ Shares \in Nat \ {0}
<1>1. Shares \in Nat \ {0}
  BY SamplingAssumption
<1>2. row \in [Tokens -> 0 .. Shares] /\ Total(row) = Shares
  BY DEF Rows
<1>3. \A t \in Tokens : row[t] \in Nat
  <2>1. \A n \in 0 .. Shares : n \in Nat
    BY <1>1
  <2> QED BY <1>2, <2>1, Zenon
<1> QED BY <1>1, <1>2, <1>3, TotalIs, Zenon

\* What is left of the target's row where the draft's is smaller.
Excess == [t \in Tokens |-> Max({0, p[t] - q[t]})]

\* What the two rows have in common.
Common == [t \in Tokens |-> Min({p[t], q[t]})]

LEMMA ExcessAndCommon ==
  ASSUME p \in Rows, q \in Rows, NEW t \in Tokens
  PROVE  /\ Excess[t] = IF p[t] <= q[t] THEN 0 ELSE p[t] - q[t]
         /\ Common[t] = IF p[t] <= q[t] THEN p[t] ELSE q[t]
         /\ Excess[t] \in Nat /\ Common[t] \in Nat /\ p[t] \in Nat /\ q[t] \in Nat
         /\ p[t] = Common[t] + Excess[t]
<1>1. p[t] \in Nat /\ q[t] \in Nat
  BY RowType
<1>2. PICK a \in Nat, b \in Nat : a = p[t] /\ b = q[t]
  BY <1>1
<1>3. a \in Int /\ b \in Int /\ 0 \in Int /\ a - b \in Int
  OBVIOUS
<1>4. Min({a, b}) = IF a <= b THEN a ELSE b
  BY <1>3, MinMaxPair
<1>5. Max({0, a - b}) = IF 0 <= a - b THEN a - b ELSE 0
  BY <1>3, MinMaxPair
<1>6. Excess[t] = Max({0, a - b}) /\ Common[t] = Min({a, b})
  BY <1>2, Zenon DEF Excess, Common
<1>7. Excess[t] = IF a <= b THEN 0 ELSE a - b
  BY <1>5, <1>6
<1> QED BY <1>2, <1>4, <1>6, <1>7

\* The draft cannot give every token more than the target does.
LEMMA ExcessSomewhere ==
  ASSUME p \in Rows, q \in Rows, NEW c \in Tokens, p[c] < q[c]
  PROVE  SumFunctionOnSet(Excess, Tokens) # 0
<1> SUFFICES ASSUME SumFunctionOnSet(Excess, Tokens) = 0 PROVE FALSE
  OBVIOUS
<1>0. IsFiniteSet(Tokens)
  BY SamplingAssumption
<1>1. \A t \in Tokens : p[t] \in Nat /\ q[t] \in Nat /\ Excess[t] \in Nat /\ Excess[t] = 0
  BY <1>0, ExcessAndCommon, SumNothing
<1>2. \A t \in Tokens : p[t] <= q[t]
  <2> SUFFICES ASSUME NEW t \in Tokens PROVE p[t] <= q[t]
    OBVIOUS
  <2>1. p[t] \in Nat /\ q[t] \in Nat /\ 0 = IF p[t] <= q[t] THEN 0 ELSE p[t] - q[t]
    BY <1>1, ExcessAndCommon
  <2> QED BY <2>1
<1>3. PICK rest : rest = Tokens \ {c}
  OBVIOUS
<1>4. IsFiniteSet(rest) /\ rest \in SUBSET Tokens
  BY <1>0, <1>3, FS_RemoveElement
<1>5. SumFunctionOnSet(p, Tokens) = p[c] + SumFunctionOnSet(p, rest)
  BY <1>0, <1>1, <1>3, SumWithout
<1>6. SumFunctionOnSet(q, Tokens) = q[c] + SumFunctionOnSet(q, rest)
  BY <1>0, <1>1, <1>3, SumWithout
<1>7. SumFunctionOnSet(p, rest) <= SumFunctionOnSet(q, rest)
  <2>1. /\ \A t \in rest : p[t] \in Nat /\ q[t] \in Nat
        /\ \A t \in rest : p[t] <= q[t]
    BY <1>1, <1>2, <1>4
  <2> QED BY <1>4, <2>1, SumMonotone
<1>8. SumFunctionOnSet(p, rest) \in Nat /\ SumFunctionOnSet(q, rest) \in Nat
  BY <1>1, <1>4, SumNatType
<1>9. SumFunctionOnSet(p, Tokens) = SumFunctionOnSet(q, Tokens)
  BY RowType
<1> QED BY <1>1, <1>5, <1>6, <1>7, <1>8, <1>9

LEMMA ResidualIs ==
  Residual = IF SumFunctionOnSet(Excess, Tokens) = 0 THEN p ELSE Excess
  BY TotalIs, Zenon DEF Residual, Excess

\* Which of the four values pc has, and what has been decided by then.
Verified ==
    /\ p \in Rows /\ q \in Rows
    /\ pc \in {"draft", "verify", "accepted", "rejected"}
    /\ pc = "verify" => x \in Support(q)
    /\ OutcomesAreSupports

LEMMA VerifiedInductive == Spec => []Verified
<1>1. Init => Verified
  BY DEF Init, Verified, OutcomesAreSupports
<1>2. Verified /\ [Next]_vars => Verified'
  <2> SUFFICES ASSUME Verified, [Next]_vars PROVE Verified'
    OBVIOUS
  <2>0. p \in Rows /\ q \in Rows
    BY DEF Verified
  <2>1. CASE Propose
    BY <2>1 DEF Propose, Verified, OutcomesAreSupports, Support
  <2>2. ASSUME pc = "verify" PROVE /\ x \in Tokens /\ q[x] > 0
                                   /\ AcceptOf(x) = <<Common[x], q[x]>>
    <3>1. x \in Support(q)
      BY <2>2 DEF Verified
    <3>2. x \in Tokens /\ q[x] > 0
      BY <3>1 DEF Support
    <3>3. Common[x] = Min({p[x], q[x]})
      BY <3>2, Zenon DEF Common
    <3>4. AcceptOf(x) = <<Min({p[x], q[x]}), q[x]>>
      BY <3>2, Zenon DEF AcceptOf
    <3> QED BY <3>2, <3>3, <3>4, Zenon
  <2>3. CASE Accept
    <3>1. pc = "verify" /\ AcceptOf(x)[1] > 0 /\ out' = x /\ pc' = "accepted" /\ UNCHANGED <<p, q, x>>
      BY <2>3 DEF Accept
    <3>2. x \in Tokens /\ Common[x] > 0
      BY <2>2, <3>1
    <3>3. p[x] > 0
      BY <2>0, <3>2, ExcessAndCommon
    <3> QED BY <2>0, <3>1, <3>2, <3>3 DEF Verified, OutcomesAreSupports, Support
  <2>4. CASE Reject
    <3>1. /\ pc = "verify" /\ AcceptOf(x)[1] < AcceptOf(x)[2]
          /\ out' \in Support(Residual) /\ pc' = "rejected" /\ UNCHANGED <<p, q, x>>
      BY <2>4 DEF Reject
    <3>2. x \in Tokens /\ Common[x] < q[x]
      BY <2>2, <3>1
    <3>3. p[x] < q[x] /\ Excess[x] = 0
      BY <2>0, <3>2, ExcessAndCommon
    <3>4. Residual = Excess
      BY <2>0, <3>2, <3>3, ExcessSomewhere, ResidualIs
    <3>5. out' \in Tokens /\ Excess[out'] > 0
      BY <3>1, <3>4 DEF Support
    <3>6. p[out'] > 0
      <4>1. PICK t \in Tokens : t = out'
        BY <3>5
      <4>2. p[t] > 0
        BY <2>0, <3>5, <4>1, ExcessAndCommon
      <4> QED BY <4>1, <4>2
    <3>7. out' # x
      BY <3>3, <3>5
    <3> QED BY <2>0, <3>1, <3>5, <3>6, <3>7 DEF Verified, OutcomesAreSupports, Support
  <2>5. CASE UNCHANGED vars
    BY <2>5 DEF vars, Verified, OutcomesAreSupports
  <2> QED BY <2>1, <2>3, <2>4, <2>5 DEF Next
<1> QED BY <1>1, <1>2, PTL DEF Spec

\* For every target and draft row: a draft token is kept only if the target may
\* give it, and a correction is another token the target may give.
THEOREM OutcomesAreSupportsHolds == Spec => []OutcomesAreSupports
<1>1. Verified => OutcomesAreSupports
  BY DEF Verified
<1> QED BY <1>1, VerifiedInductive, PTL

\* The common denominator of the acceptance probabilities.
LEMMA ScaleMultiple ==
  ASSUME p \in Rows, q \in Rows
  PROVE  /\ Scale \in Nat \ {0}
         /\ \A t \in Tokens : AcceptMass(t) = Scale * Common[t]
<1> DEFINE D == { AcceptOf(t)[2] : t \in Tokens }
<1>1. ASSUME NEW t \in Tokens
      PROVE  /\ q[t] \in Nat
             /\ q[t] > 0 => AcceptOf(t)[1] = Common[t] /\ AcceptOf(t)[2] = q[t]
             /\ ~ (q[t] > 0) => AcceptOf(t)[1] = 0 /\ AcceptOf(t)[2] = 1
  <2>1. Common[t] = Min({p[t], q[t]})
    BY Zenon DEF Common
  <2>2. AcceptOf(t) = IF q[t] > 0 THEN <<Common[t], q[t]>> ELSE <<0, 1>>
    BY <2>1, Zenon DEF AcceptOf
  <2> QED BY <2>2, RowType
<1>2. D \in SUBSET (Nat \ {0})
  BY <1>1
<1>3. IsFiniteSet(D)
  <2>1. IsFiniteSet(Tokens)
    BY SamplingAssumption
  <2>2. PICK f : f = [t \in Tokens |-> AcceptOf(t)[2]]
    OBVIOUS
  <2>3. f \in Surjection(Tokens, D)
    BY <2>2 DEF Surjection
  <2> HIDE DEF D
  <2> QED BY <2>1, <2>3, FS_Surjection
<1>4. Scale = ProductSet(D)
  BY Zenon DEF Scale
<1>5. Scale \in Nat \ {0} /\ \A d \in D : \E m \in Nat : Scale = d * m
  <2> HIDE DEF D
  <2> QED BY <1>2, <1>3, <1>4, ProductMultiple, Zenon
<1>6. ASSUME NEW t \in Tokens PROVE AcceptMass(t) = Scale * Common[t]
  <2>1. PICK c \in Nat : c = Common[t]
    BY ExcessAndCommon
  <2>2. PICK b \in Nat : b = q[t]
    BY <1>1
  <2>3. PICK k \in Nat \ {0} : k = Scale
    BY <1>5
  <2>4. AcceptMass(t) = b * AcceptOf(t)[1] * (k \div AcceptOf(t)[2])
    BY <2>2, <2>3 DEF AcceptMass
  <2>5. CASE b > 0
    <3>1. AcceptOf(t)[1] = c /\ AcceptOf(t)[2] = b /\ b \in D
      BY <1>1, <2>1, <2>2, <2>5
    <3>2. PICK m \in Nat : k = b * m
      BY <1>5, <2>3, <3>1
    <3>3. k \div b = m
      <4>1. /\ \A n \in Nat : n \div b \in Nat /\ n % b \in 0 .. b - 1
                              /\ n = b * (n \div b) + (n % b)
        BY <2>5, SMT
      <4>2. PICK d \in Nat, r \in 0 .. b - 1 : d = k \div b /\ b * m = b * d + r
        BY <3>2, <4>1
      <4>3. r = b * (m - d)
        BY <4>2
      <4>4. m = d
        BY <2>5, <4>2, <4>3
      <4> QED BY <4>2, <4>4
    <3>4. b * c * m = (b * m) * c
      OBVIOUS
    <3> QED BY <2>1, <2>3, <2>4, <3>1, <3>2, <3>3, <3>4
  <2>6. CASE ~ (b > 0)
    <3>1. b = 0 /\ AcceptOf(t)[1] = 0 /\ AcceptOf(t)[2] = 1
      BY <1>1, <2>2, <2>6
    <3>2. c = 0
      <4>1. p[t] \in Nat /\ c = IF p[t] <= 0 THEN p[t] ELSE 0
        BY <2>1, <2>2, <3>1, ExcessAndCommon, Zenon
      <4> QED BY <4>1
    <3>3. AcceptMass(t) = 0 /\ k * c = 0
      BY <2>4, <3>1, <3>2
    <3> QED BY <2>1, <2>3, <3>3
  <2> QED BY <2>5, <2>6
<1> QED BY <1>5, <1>6

\* A sum of the values of an operator is that of a function.
LEMMA AcceptSum ==
  ASSUME p \in Rows, q \in Rows
  PROVE  MapThenSumSet(AcceptMass, Tokens) = Scale * SumFunctionOnSet(Common, Tokens)
<1> PICK f : f = [t \in Tokens |-> AcceptMass(t)]
  OBVIOUS
<1> DEFINE Is(g) == g = [s \in SUBSET Tokens |->
                           IF s = {} THEN 0 ELSE AcceptMass(Chosen(s)) + g[s \ {Chosen(s)}]]
<1>0. IsFiniteSet(Tokens)
  BY SamplingAssumption
<1>1. \A t \in Tokens : f[t] = AcceptMass(t) /\ f[t] = Scale * Common[t] /\ Common[t] \in Nat
  BY ScaleMultiple, ExcessAndCommon
<1>2. Scale \in Nat
  BY ScaleMultiple
<1>3. \A t \in Tokens : f[t] \in Nat
  <2>1. \A m, n \in Nat : m * n \in Nat
    OBVIOUS
  <2> QED BY <1>1, <1>2, <2>1, Zenon
<1>4. PICK g \in [SUBSET Tokens -> Nat] : IsSum(f, Tokens, g) /\ SumFunctionOnSet(f, Tokens) = g[Tokens]
  BY <1>0, <1>3, SumExists, Zenon
<1>5. \A s \in SUBSET Tokens : s # {} => Chosen(s) \in Tokens /\ f[Chosen(s)] = AcceptMass(Chosen(s))
  BY <1>1 DEF Chosen
<1>6. ASSUME NEW h
      PROVE  /\ Is(h) => IsSum(f, Tokens, h)
             /\ IsSum(f, Tokens, h) /\ h \in [SUBSET Tokens -> Nat] => Is(h)
  BY <1>5 DEF IsSum
<1>7. Is(g)
  <2> HIDE DEF Is
  <2> QED BY <1>4, <1>6
<1>8. PICK h : h = CHOOSE k : Is(k)
  OBVIOUS
<1>9. IsSum(f, Tokens, h)
  <2> HIDE DEF Is
  <2> QED BY <1>6, <1>7, <1>8
<1>10. MapThenSumSet(AcceptMass, Tokens) = h[Tokens]
  BY <1>8, Zenon DEF MapThenSumSet, MapThenFoldSet, Chosen
<1>11. g[Tokens] = h[Tokens]
  <2>1. \A t \in Tokens : f[t] = f[t]
    OBVIOUS
  <2> QED BY <1>0, <1>4, <1>9, <2>1, SumsAgree, Zenon
<1>12. SumFunctionOnSet(f, Tokens) = Scale * SumFunctionOnSet(Common, Tokens)
  BY <1>0, <1>1, <1>2, SumTimes
<1> QED BY <1>4, <1>10, <1>11, <1>12

\* The arithmetic of the law: a token of target mass a gets what it has in common
\* with the draft, and its part of the rest.
LEMMA LawArithmetic ==
  ASSUME NEW k \in Nat, NEW common \in Nat, NEW rest \in Nat, NEW c \in Nat, NEW e \in Nat
  PROVE  (k * c) * rest + ((common + rest) * k - k * common) * e = (c + e) * k * rest
<1>1. (common + rest) * k - k * common = rest * k
  OBVIOUS
<1>2. (k * c) * rest + (rest * k) * e = (c + e) * k * rest
  OBVIOUS
<1> QED BY <1>1, <1>2

LEMMA LawHolds ==
  ASSUME p \in Rows, q \in Rows
  PROVE  LawIsTargets
<1> SUFFICES ASSUME NEW t \in Tokens
             PROVE  AcceptMass(t) * Total(Residual) + RejectMass * Residual[t]
                      = p[t] * Scale * Total(Residual)
  BY DEF LawIsTargets
<1>0. IsFiniteSet(Tokens)
  BY SamplingAssumption
<1>1. PICK common \in Nat : common = SumFunctionOnSet(Common, Tokens)
  BY <1>0, ExcessAndCommon, SumNatType
<1>2. PICK rest \in Nat : rest = SumFunctionOnSet(Excess, Tokens)
  BY <1>0, ExcessAndCommon, SumNatType
<1>3. Shares = common + rest
  <2>1. \A s \in Tokens : /\ Common[s] \in Nat /\ Excess[s] \in Nat
                          /\ p[s] = Common[s] + Excess[s]
    BY ExcessAndCommon
  <2>2. SumFunctionOnSet(p, Tokens)
          = SumFunctionOnSet(Common, Tokens) + SumFunctionOnSet(Excess, Tokens)
    BY <1>0, <2>1, SumPlus
  <2> QED BY <1>1, <1>2, <2>2, RowType
<1>4. PICK k \in Nat : k = Scale
  BY ScaleMultiple
<1>5. PICK c \in Nat, e \in Nat : c = Common[t] /\ e = Excess[t] /\ p[t] = c + e
  BY ExcessAndCommon
<1>6. AcceptMass(t) = k * c
  BY <1>4, <1>5, ScaleMultiple
<1>7. RejectMass = (common + rest) * k - k * common
  BY <1>1, <1>3, <1>4, AcceptSum DEF RejectMass
<1>8. CASE rest = 0
  <2>1. Residual = p /\ Total(Residual) = Shares
    BY <1>2, <1>8, ResidualIs, TotalIs, RowType
  <2>2. e = 0
    <3>1. \A s \in Tokens : Excess[s] \in Nat
      BY ExcessAndCommon
    <3> QED BY <1>0, <1>2, <1>5, <1>8, <3>1, SumNothing
  <2>3. RejectMass = 0 /\ p[t] = c /\ Shares = common
    BY <1>3, <1>5, <1>7, <1>8, <2>2
  <2>4. (k * c) * common + 0 * c = c * k * common
    OBVIOUS
  <2> QED BY <1>4, <1>6, <2>1, <2>3, <2>4
<1>9. CASE rest # 0
  <2>1. Residual = Excess /\ Total(Residual) = rest
    BY <1>2, <1>9, ResidualIs, TotalIs
  <2>2. (k * c) * rest + ((common + rest) * k - k * common) * e = (c + e) * k * rest
    BY LawArithmetic
  <2> QED BY <1>4, <1>5, <1>6, <1>7, <2>1, <2>2
<1> QED BY <1>8, <1>9

\* Speculative sampling preserves the distribution: for every finite vocabulary,
\* every granularity of the shares and any two rows, the token that comes out of
\* verify_and_accept has the law of the target's row.
THEOREM LawIsTargetsHolds == Spec => []LawIsTargets
<1>1. Verified => LawIsTargets
  BY LawHolds DEF Verified
<1> QED BY <1>1, VerifiedInductive, PTL

-----------------------------------------------------------------------------
(* quantize_per_channel: rounding a row of weights.                        *)

\* Floor division of any integer.
LEMMA IntDiv ==
  ASSUME NEW n \in Int, NEW d \in Nat \ {0}
  PROVE  /\ n \div d \in Int /\ n % d \in 0 .. d - 1
         /\ n = d * (n \div d) + (n % d)
  BY SMT

LEMMA RoundedIs ==
  ASSUME NEW n \in Int, NEW d \in Nat \ {0}
  PROVE  \E f \in Int, r \in 0 .. d - 1 :
           /\ n = d * f + r
           /\ Rounded(n, d) = IF 2 * r < d \/ (2 * r = d /\ f % 2 = 0) THEN f ELSE f + 1
<1>1. /\ n \div d \in Int /\ n % d \in 0 .. d - 1
      /\ n = d * (n \div d) + (n % d)
  BY IntDiv
<1>2. PICK f \in Int, r \in 0 .. d - 1 : f = n \div d /\ r = n % d
  BY <1>1
<1>3. Rounded(n, d) = IF 2 * r < d \/ (2 * r = d /\ f % 2 = 0) THEN f ELSE f + 1
  BY <1>2, Zenon DEF Rounded
<1> QED BY <1>1, <1>2, <1>3

\* Rounding moves a quotient by half at most, and a whole one not at all.
LEMMA RoundedNear ==
  ASSUME NEW n \in Int, NEW d \in Nat \ {0}
  PROVE  /\ Rounded(n, d) \in Int
         /\ 2 * (Rounded(n, d) * d - n) <= d
         /\ 2 * (n - Rounded(n, d) * d) <= d
<1>1. PICK f \in Int, r \in 0 .. d - 1 :
        /\ n = d * f + r
        /\ Rounded(n, d) = IF 2 * r < d \/ (2 * r = d /\ f % 2 = 0) THEN f ELSE f + 1
  BY RoundedIs
<1>2. PICK g \in Int : g = d * f
  OBVIOUS
<1>3. f * d = g /\ (f + 1) * d = g + d /\ n = g + r
  BY <1>1, <1>2
<1>4. CASE Rounded(n, d) = f /\ 2 * r <= d
  BY <1>3, <1>4
<1>5. CASE Rounded(n, d) = f + 1 /\ 2 * r >= d
  BY <1>3, <1>5
<1>6. \/ Rounded(n, d) = f /\ 2 * r <= d
      \/ Rounded(n, d) = f + 1 /\ 2 * r >= d
  <2>1. r \in Int /\ d \in Int
    OBVIOUS
  <2> QED BY <1>1, <2>1
<1> QED BY <1>4, <1>5, <1>6

\* Rounding keeps order.
LEMMA RoundedMonotone ==
  ASSUME NEW m \in Int, NEW n \in Int, NEW d \in Nat \ {0}, m <= n
  PROVE  Rounded(m, d) <= Rounded(n, d)
<1>1. PICK f \in Int, r \in 0 .. d - 1 :
        /\ m = d * f + r
        /\ Rounded(m, d) = IF 2 * r < d \/ (2 * r = d /\ f % 2 = 0) THEN f ELSE f + 1
  BY RoundedIs
<1>2. PICK g \in Int, s \in 0 .. d - 1 :
        /\ n = d * g + s
        /\ Rounded(n, d) = IF 2 * s < d \/ (2 * s = d /\ g % 2 = 0) THEN g ELSE g + 1
  BY RoundedIs
<1>3. f <= g
  <2> SUFFICES ASSUME g + 1 <= f PROVE FALSE
    OBVIOUS
  <2>1. d * (g + 1) <= d * f
    OBVIOUS
  <2>2. d * (g + 1) = d * g + d
    OBVIOUS
  <2>3. PICK a \in Int, b \in Int : a = d * f /\ b = d * g
    OBVIOUS
  <2> QED BY <1>1, <1>2, <2>1, <2>2, <2>3
<1>4. CASE f = g
  <2>1. r <= s
    <3>1. PICK a \in Int : a = d * f
      OBVIOUS
    <3> QED BY <1>1, <1>2, <1>4, <3>1
  <2>2. PICK even \in BOOLEAN : even = (f % 2 = 0)
    OBVIOUS
  <2>3. /\ Rounded(m, d) = IF 2 * r < d \/ (2 * r = d /\ even) THEN f ELSE f + 1
        /\ Rounded(n, d) = IF 2 * s < d \/ (2 * s = d /\ even) THEN f ELSE f + 1
    BY <1>1, <1>2, <1>4, <2>2
  <2> QED BY <2>1, <2>3
<1>5. CASE f + 1 <= g
  BY <1>1, <1>2, <1>5
<1> QED BY <1>3, <1>4, <1>5

\* The largest magnitude of a row.
LEMMA AMaxIs ==
  ASSUME NEW D, IsFiniteSet(D), D # {}, NEW w \in [D -> Int]
  PROVE  /\ AMax(w) \in Nat
         /\ \A i \in D : Abs(w[i]) \in Nat /\ Abs(w[i]) <= AMax(w)
<1> DEFINE M == { Abs(w[i]) : i \in D }
<1>1. \A i \in D : Abs(w[i]) \in Nat
  BY DEF Abs
<1>2. IsFiniteSet(M)
  <2>1. PICK f : f = [i \in D |-> Abs(w[i])]
    OBVIOUS
  <2>2. f \in Surjection(D, M)
    BY <2>1 DEF Surjection
  <2> HIDE DEF M
  <2> QED BY <2>2, FS_Surjection
<1>3. M \in SUBSET Int /\ M # {} /\ \A i \in D : Abs(w[i]) \in M
  BY <1>1
<1>4. AMax(w) = Max(M)
  BY DEF AMax
<1>5. \A y \in M : y \in Nat
  BY <1>1
<1> HIDE DEF M
<1>6. Max(M) \in M /\ \A y \in M : y <= Max(M)
  BY <1>2, <1>3, MaxFinite
<1> QED BY <1>1, <1>3, <1>4, <1>5, <1>6, Zenon

\* The code of a weight is its rounded quotient: the clamp to int8 changes
\* nothing, for the scale is that of the row.
LEMMA NoClamp ==
  ASSUME NEW v \in Int, NEW a \in Nat \ {0}, NEW k \in Nat \ {0}, v <= a, -v <= a
  PROVE  LET r == Rounded(v * k, a)
         IN  /\ r \in Int /\ -k <= r /\ r <= k
             /\ Max({-k, Min({k, r})}) = r
<1>1. PICK n \in Int : n = v * k
  OBVIOUS
<1>2. PICK r \in Int : r = Rounded(n, a)
  BY RoundedNear
<1>3. n <= a * k /\ -(a * k) <= n
  <2>1. v * k <= a * k /\ (-a) * k <= v * k
    OBVIOUS
  <2>2. (-a) * k = -(a * k)
    OBVIOUS
  <2> QED BY <1>1, <2>1, <2>2
<1>4. 2 * (r * a - n) <= a /\ 2 * (n - r * a) <= a
  BY <1>2, RoundedNear
<1>5. r <= k
  <2> SUFFICES ASSUME k + 1 <= r PROVE FALSE
    OBVIOUS
  <2>1. (k + 1) * a <= r * a /\ (k + 1) * a = a * k + a
    OBVIOUS
  <2>2. PICK s \in Int, t \in Int : s = r * a /\ t = a * k
    OBVIOUS
  <2> QED BY <1>3, <1>4, <2>1, <2>2
<1>6. -k <= r
  <2> SUFFICES ASSUME r <= -k - 1 PROVE FALSE
    OBVIOUS
  <2>1. r * a <= (-k - 1) * a /\ (-k - 1) * a = -(a * k) - a
    OBVIOUS
  <2>2. PICK s \in Int, t \in Int : s = r * a /\ t = a * k
    OBVIOUS
  <2> QED BY <1>3, <1>4, <2>1, <2>2
<1>7. Min({k, r}) = r
  BY <1>5, MinMaxPair
<1>8. Max({-k, r}) = r
  BY <1>6, MinMaxPair
<1> QED BY <1>1, <1>2, <1>5, <1>6, <1>7, <1>8, Zenon

\* Quantizing moves no weight by more than half a step, keeps order and keeps the
\* largest weight: for every row of integers, finite and not empty, and for every
\* width of the codes.
THEOREM HalfStep ==
  ASSUME NEW D, IsFiniteSet(D), D # {}, NEW w \in [D -> Int]
  PROVE  WithinHalfStep(w)
<1> DEFINE a == AMax(w)
           code(i) == QuantizePerChannel(w)[i]
           back(i) == DequantizePerChannel(w)[i]
<1>1. /\ a \in Nat
      /\ \A i \in D : Abs(w[i]) \in Nat /\ Abs(w[i]) <= a
  BY AMaxIs
<1>2. QMax \in Nat \ {0}
  BY Int8Assumption
<1>3. ASSUME NEW i \in D
      PROVE  /\ back(i) = code(i) * a
             /\ code(i) = IF a = 0 THEN 0 ELSE Max({-QMax, Min({QMax, Rounded(w[i] * QMax, a)})})
  BY Zenon DEF QuantizePerChannel, DequantizePerChannel
<1> HIDE DEF a, code, back
<1>4. ASSUME NEW i \in D
      PROVE  \E v \in Int : v = w[i] /\ v <= a /\ -v <= a /\ (Abs(v) = a => v = a \/ v = -a)
  <2>1. PICK v \in Int : v = w[i]
    OBVIOUS
  <2>2. Abs(v) <= a /\ Abs(v) = IF v < 0 THEN -v ELSE v
    BY <1>1, <2>1 DEF Abs
  <2> QED BY <1>1, <2>1, <2>2
<1>c. ASSUME NEW i \in D, a # 0
      PROVE  code(i) = Rounded(w[i] * QMax, a)
  <2>1. PICK v \in Int : v = w[i] /\ v <= a /\ -v <= a
    BY <1>4
  <2>2. Max({-QMax, Min({QMax, Rounded(v * QMax, a)})}) = Rounded(v * QMax, a)
    BY <1>1, <1>2, <1>c, <2>1, NoClamp
  <2> QED BY <1>3, <1>c, <2>1, <2>2, Zenon
<1>5. ASSUME NEW i \in D
      PROVE  2 * Abs(back(i) - w[i] * QMax) <= a
  <2>1. PICK v \in Int : v = w[i] /\ v <= a /\ -v <= a
    BY <1>4
  <2>2. CASE a = 0
    <3>1. v = 0 /\ code(i) = 0
      BY <1>3, <2>1, <2>2
    <3>2. back(i) = 0 /\ v * QMax = 0
      BY <1>2, <1>3, <2>2, <3>1
    <3> QED BY <2>1, <2>2, <3>2 DEF Abs
  <2>3. CASE a # 0
    <3>1. PICK n \in Int, r \in Int : n = v * QMax /\ r = Rounded(n, a)
      BY <1>1, <1>2, <2>3, RoundedNear
    <3>2. code(i) = r
      BY <1>c, <2>1, <2>3, <3>1, Zenon
    <3>3. 2 * (r * a - n) <= a /\ 2 * (n - r * a) <= a
      BY <1>1, <2>3, <3>1, RoundedNear
    <3>4. PICK s \in Int : s = r * a
      BY <1>1
    <3>5. 2 * Abs(s - n) <= a
      BY <1>1, <3>3, <3>4 DEF Abs
    <3> QED BY <1>3, <2>1, <3>1, <3>2, <3>4, <3>5
  <2> QED BY <2>2, <2>3
<1>6. ASSUME NEW i \in D, Abs(w[i]) = a
      PROVE  back(i) = w[i] * QMax
  <2>1. PICK v \in Int : v = w[i] /\ v <= a /\ -v <= a /\ (v = a \/ v = -a)
    BY <1>4, <1>6
  <2>2. CASE a = 0
    BY <1>2, <1>3, <2>1, <2>2
  <2>3. CASE a # 0
    <3>1. PICK n \in Int, r \in Int : n = v * QMax /\ r = Rounded(n, a)
      BY <1>1, <1>2, <2>3, RoundedNear
    <3>2. code(i) = r
      BY <1>c, <2>1, <2>3, <3>1, Zenon
    <3>3. 2 * (r * a - n) <= a /\ 2 * (n - r * a) <= a
      BY <1>1, <2>3, <3>1, RoundedNear
    <3>4. PICK c \in Int : n = c * a
      <4>1. QMax \in Int /\ -QMax \in Int /\ a \in Int /\ a * QMax = QMax * a
            /\ (-a) * QMax = (-QMax) * a
        BY <1>1, <1>2
      <4> QED BY <2>1, <3>1, <4>1
    <3>5. r = c
      <4>1. PICK e \in Int : e = r - c
        OBVIOUS
      <4>2. e * a = r * a - n
        BY <1>1, <3>4, <4>1
      <4>3. ASSUME e >= 1 PROVE FALSE
        <5>1. e * a >= a
          BY <1>1, <4>3
        <5>2. PICK s \in Int, u \in Int : s = e * a /\ u = r * a
          BY <1>1
        <5> QED BY <1>1, <2>3, <3>3, <4>2, <5>1, <5>2
      <4>4. ASSUME e <= -1 PROVE FALSE
        <5>1. e * a <= -a
          BY <1>1, <4>4
        <5>2. PICK s \in Int, u \in Int : s = e * a /\ u = r * a
          BY <1>1
        <5> QED BY <1>1, <2>3, <3>3, <4>2, <5>1, <5>2
      <4> QED BY <4>1, <4>3, <4>4
    <3> QED BY <1>3, <2>1, <3>1, <3>2, <3>4, <3>5
  <2> QED BY <2>2, <2>3
<1>7. ASSUME NEW i \in D, NEW j \in D, w[i] <= w[j]
      PROVE  back(i) <= back(j)
  <2>1. PICK u \in Int, v \in Int : u = w[i] /\ v = w[j] /\ u <= v /\ u <= a /\ -u <= a /\ v <= a /\ -v <= a
    BY <1>4, <1>7
  <2>2. CASE a = 0
    <3>1. code(i) = 0 /\ code(j) = 0
      BY <1>3, <2>2
    <3> QED BY <1>3, <2>2, <3>1
  <2>3. CASE a # 0
    <3>1. PICK m \in Int, n \in Int : m = u * QMax /\ n = v * QMax
      BY <1>2
    <3>2. m <= n
      BY <1>2, <2>1, <3>1
    <3>3. PICK r \in Int, s \in Int : r = Rounded(m, a) /\ s = Rounded(n, a)
      BY <1>1, <2>3, RoundedNear
    <3>4. code(i) = r /\ code(j) = s
      BY <1>c, <2>1, <2>3, <3>1, <3>3, Zenon
    <3>5. r <= s
      BY <1>1, <2>3, <3>2, <3>3, RoundedMonotone
    <3>6. r * a <= s * a
      BY <1>1, <3>5
    <3> QED BY <1>3, <3>4, <3>6
  <2> QED BY <2>2, <2>3
<1>8. DOMAIN w = D
  OBVIOUS
<1> QED BY <1>5, <1>6, <1>7, <1>8, Zenon DEF WithinHalfStep, a, back

\* The input of a run is the one it began with.
LEMMA InputsStay == MCSpec => [](input \in Inputs \cup {<<"verify", None>>})
<1>1. MCInit => input \in Inputs \cup {<<"verify", None>>}
  BY Zenon DEF MCInit
<1>2. input \in Inputs \cup {<<"verify", None>>} /\ [MCNext]_<<vars, input>>
        => (input \in Inputs \cup {<<"verify", None>>})'
  <2> SUFFICES ASSUME input \in Inputs \cup {<<"verify", None>>}, [MCNext]_<<vars, input>>
               PROVE  (input \in Inputs \cup {<<"verify", None>>})'
    OBVIOUS
  <2>1. input' = input
    BY DEF MCNext
  <2>2. Inputs' = Inputs /\ None' = None
    BY DEF Inputs, None
  <2> QED BY <2>1, <2>2
<1> QED BY <1>1, <1>2, PTL DEF MCSpec

\* An input of one kind is what that module is called with.
LEMMA InputKinds ==
  ASSUME input \in Inputs \cup {<<"verify", None>>}
  PROVE  /\ input[1] = "weights" => input[2] \in WeightRows
         /\ input[1] = "gemv" => input[2] \in Shapes
         /\ input[1] = "loader" => input[2] \in Checkpoints
         /\ input[1] = "graph" => input[2] \in Runners
         /\ input[1] = "sampling" => input[2] \in Sampled
         /\ input[1] = "text" => input[2] \in Texts
  BY DEF Inputs

\* And so for the rows of the run, whatever its bound on the weights.
THEOREM QuantizationIsCloseHolds == MCSpec => []QuantizationIsClose
<1>1. input \in Inputs \cup {<<"verify", None>>} => QuantizationIsClose
  <2> SUFFICES ASSUME input \in Inputs \cup {<<"verify", None>>}, input[1] = "weights"
               PROVE  WithinHalfStep(input[2])
    BY DEF QuantizationIsClose, Given
  <2>1. PICK w : w = input[2] /\ w \in WeightRows
    BY InputKinds
  <2>2. w \in [1 .. 3 -> Int]
    <3>1. -MaxWeight .. MaxWeight \in SUBSET Int
      OBVIOUS
    <3> QED BY <2>1, <3>1 DEF WeightRows
  <2>3. IsFiniteSet(1 .. 3) /\ 1 .. 3 # {}
    <3>1. \A lo, hi \in Int : IsFiniteSet(lo .. hi)
      BY FS_Interval
    <3>2. 1 \in Int /\ 3 \in Int
      OBVIOUS
    <3>3. 1 .. 3 # {}
      <4>1. 1 \in 1 .. 3
        OBVIOUS
      <4> QED BY <4>1
    <3> QED BY <3>1, <3>2, <3>3, Zenon
  <2>4. WithinHalfStep(w)
    BY <2>2, <2>3, HalfStep, Zenon
  <2> QED BY <2>1, <2>4, Zenon
<1> QED BY <1>1, InputsStay, PTL

-----------------------------------------------------------------------------
(* The tiles of the fused kernel.                                          *)

\* Column k is lane l of the tile that begins at c.
IsSplit(b, k, c, l) == c = b * (k \div b) /\ l = k % b /\ c + l = k /\ c % b = 0

LEMMA ColumnSplit ==
  ASSUME NEW n \in Nat, NEW b \in Nat \ {0}, NEW k \in 0 .. n - 1
  PROVE  \E c \in 0 .. n - 1, l \in 0 .. b - 1 : IsSplit(b, k, c, l)
<1>0. k \in Nat /\ k < n
  OBVIOUS
<1>1. PICK q0 \in Nat, l \in 0 .. b - 1 : q0 = k \div b /\ l = k % b /\ k = b * q0 + l
  BY <1>0, DivMod
<1>2. PICK c \in Nat : c = b * q0
  OBVIOUS
<1>3. c \in 0 .. n - 1 /\ c + l = k
  BY <1>0, <1>1, <1>2
<1>4. PICK q1 \in Nat, m \in 0 .. b - 1 : q1 = c \div b /\ m = c % b /\ c = b * q1 + m
  BY DivMod
<1>5. q0 * b + 0 = q1 * b + m /\ 0 \in 0 .. b - 1
  <2>1. q0 * b = b * q0 /\ q1 * b = b * q1 /\ q0 * b \in Nat
    OBVIOUS
  <2> QED BY <1>2, <1>4, <2>1
<1>6. m = 0
  BY <1>5, SlotParts
<1> QED BY <1>1, <1>2, <1>3, <1>4, <1>6 DEF IsSplit

LEMMA ColumnJoin ==
  ASSUME NEW n \in Nat, NEW b \in Nat \ {0}, NEW c \in 0 .. n - 1, c % b = 0,
         NEW l \in 0 .. b - 1, NEW k \in 0 .. n - 1, k = c + l
  PROVE  IsSplit(b, k, c, l)
<1>0. c \in Nat /\ k \in Nat
  OBVIOUS
<1>1. PICK q0 \in Nat : c = b * q0
  <2>1. PICK u \in Nat, v \in 0 .. b - 1 : v = c % b /\ c = b * u + v
    <3>1. c \div b \in Nat /\ c % b \in 0 .. b - 1 /\ c = b * (c \div b) + (c % b)
      BY <1>0, DivMod, Zenon
    <3> QED BY <3>1, Zenon
  <2>2. v = 0 /\ b * u + 0 = b * u
    BY <2>1
  <2> QED BY <2>1, <2>2
<1>2. PICK q1 \in Nat, m \in 0 .. b - 1 : q1 = k \div b /\ m = k % b /\ k = b * q1 + m
  BY <1>0, DivMod
<1>3. q0 * b + l = q1 * b + m
  <2>1. q0 * b = b * q0 /\ q1 * b = b * q1
    OBVIOUS
  <2> QED BY <1>1, <1>2, <2>1
<1>4. q0 = q1 /\ l = m
  BY <1>3, SlotParts
<1> QED BY <1>1, <1>2, <1>4 DEF IsSplit

IsShape(g) ==
    /\ g.n_out \in Nat \ {0} /\ g.K \in Nat \ {0}
    /\ g.BLOCK_O \in Nat \ {0} /\ g.BLOCK_K \in Nat \ {0}

\* One lane of one program stores an output.
LEMMA StoredOnce ==
  ASSUME NEW g, IsShape(g), NEW o \in 0 .. g.n_out - 1
  PROVE  Cardinality({ s \in Stores(g) : s.o_block * g.BLOCK_O + s.lane = o }) = 1
<1> PICK b \in Nat \ {0}, n \in Nat \ {0} : b = g.BLOCK_O /\ n = g.n_out
  BY DEF IsShape
<1>1. PICK x0 \in Nat, y0 \in 0 .. b - 1 : o = b * x0 + y0
  <2>1. o \in Nat
    OBVIOUS
  <2>2. o \div b \in Nat /\ o % b \in 0 .. b - 1 /\ o = b * (o \div b) + (o % b)
    BY <2>1, DivMod, Zenon
  <2> QED BY <2>2, Zenon
<1>2. PICK k \in Nat : k = CDiv(n, b) /\ n <= k * b
  <2>1. /\ (n + b - 1) \div b \in Nat /\ (n + b - 1) % b \in 0 .. b - 1
        /\ n + b - 1 = b * ((n + b - 1) \div b) + ((n + b - 1) % b)
    <3>1. n + b - 1 \in Nat
      OBVIOUS
    <3> QED BY <3>1, DivMod
  <2>2. PICK k \in Nat, r \in 0 .. b - 1 : k = (n + b - 1) \div b /\ n + b - 1 = b * k + r
    BY <2>1
  <2>3. n <= k * b
    <3>1. PICK m \in Nat : m = k * b /\ m = b * k
      OBVIOUS
    <3> QED BY <2>2, <3>1
  <2> QED BY <2>2, <2>3 DEF CDiv
<1>3. x0 \in 0 .. k - 1
  <2> SUFFICES ASSUME k <= x0 PROVE FALSE
    OBVIOUS
  <2>1. k * b <= x0 * b /\ x0 * b = b * x0
    OBVIOUS
  <2>2. PICK l \in Nat, m \in Nat : l = b * x0 /\ m = k * b
    OBVIOUS
  <2> QED BY <1>1, <1>2, <2>1, <2>2
<1>4. OBlocks(g) = 0 .. k - 1 /\ g.BLOCK_O = b /\ g.n_out = n
  BY <1>2 DEF OBlocks
<1> DEFINE it == [o_block |-> x0, lane |-> y0]
<1>5. it \in Stores(g) /\ it.o_block * b + it.lane = o
  <2>1. x0 * b + y0 = o /\ o < n
    BY <1>1
  <2>2. it \in [o_block : OBlocks(g), lane : 0 .. b - 1]
    BY <1>3, <1>4
  <2> QED BY <1>4, <2>1, <2>2 DEF Stores
<1>6. ASSUME NEW s \in Stores(g), s.o_block * b + s.lane = o
      PROVE  s = it
  <2>1. s \in [o_block : 0 .. k - 1, lane : 0 .. b - 1]
    BY <1>4 DEF Stores
  <2>2. PICK u \in Nat, v \in 0 .. b - 1 : s.o_block = u /\ s.lane = v
    BY <2>1
  <2>3. u * b + v = x0 * b + y0
    BY <1>1, <1>6, <2>2
  <2>4. u = x0 /\ v = y0
    BY <2>3, SlotParts
  <2> QED BY <2>1, <2>2, <2>4
<1> HIDE DEF it
<1>7. { s \in Stores(g) : s.o_block * g.BLOCK_O + s.lane = o } = {it}
  BY <1>4, <1>5, <1>6
<1> QED BY <1>7, FS_Singleton

\* The inner loop takes each column of the row once.
LEMMA ColumnsOnce ==
  ASSUME NEW g, IsShape(g), NEW o \in 0 .. g.n_out - 1
  PROVE  /\ Cardinality(Products(g, o)) = g.K
         /\ { <<t.w, t.x>> : t \in Products(g, o) } = { <<o * g.K + k, k>> : k \in 0 .. g.K - 1 }
<1> PICK b \in Nat \ {0}, n \in Nat \ {0} : b = g.BLOCK_K /\ n = g.K
  BY DEF IsShape
<1> PICK row \in Nat : row = o * n
  <2>1. o \in Nat
    OBVIOUS
  <2> QED BY <2>1
<1> DEFINE At(k, l) == [k0 |-> k, lane |-> l, w |-> row + k + l, x |-> k + l]
           Pairs == { u \in KStarts(g) \X (0 .. b - 1) : KMask(g, u[1] + u[2]) }
           f == [k \in 0 .. n - 1 |-> At(b * (k \div b), k % b)]
<1>1. Products(g, o) = { At(u[1], u[2]) : u \in Pairs }
  BY Zenon DEF Products
<1>2. ASSUME NEW k \in 0 .. n - 1
      PROVE  \E c \in 0 .. n - 1, l \in 0 .. b - 1 : IsSplit(b, k, c, l) /\ <<c, l>> \in Pairs
  <2>1. PICK c \in 0 .. n - 1, l \in 0 .. b - 1 : IsSplit(b, k, c, l)
    <3>1. n \in Nat
      OBVIOUS
    <3> QED BY <3>1, ColumnSplit, Zenon
  <2>2. c + l = k /\ c + l < n /\ c % b = 0
    <3>1. c + l = k /\ c % b = 0
      BY <2>1, Zenon DEF IsSplit
    <3>2. k < n
      OBVIOUS
    <3> QED BY <3>1, <3>2, Zenon
  <2>3. <<c, l>> \in Pairs
    BY <2>2 DEF KStarts, KMask
  <2> QED BY <2>1, <2>3
<1>3. ASSUME NEW u \in Pairs
      PROVE  \E k \in 0 .. n - 1 : u = <<b * (k \div b), k % b>> /\ u[1] + u[2] = k
  <2>1. u \in KStarts(g) \X (0 .. b - 1) /\ u[1] + u[2] < n
    BY DEF KMask
  <2>2. PICK c \in 0 .. n - 1, l \in 0 .. b - 1 : u = <<c, l>> /\ c % b = 0 /\ c + l < n
    BY <2>1 DEF KStarts
  <2>3. PICK k \in 0 .. n - 1 : k = c + l
    BY <2>2
  <2>4. IsSplit(b, k, c, l)
    <3>1. n \in Nat
      OBVIOUS
    <3> QED BY <2>2, <2>3, <3>1, ColumnJoin, Zenon
  <2>5. u = <<b * (k \div b), k % b>>
    BY <2>2, <2>4, Zenon DEF IsSplit
  <2>6. u[1] + u[2] = k
    BY <2>2, <2>3
  <2> QED BY <2>5, <2>6, Zenon
<1>4. \A k \in 0 .. n - 1 : f[k] = At(b * (k \div b), k % b)
  BY Zenon
<1>5. \A k \in 0 .. n - 1 : f[k] \in Products(g, o) /\ f[k].x = k /\ f[k].w = row + k
  <2> SUFFICES ASSUME NEW k \in 0 .. n - 1
               PROVE  f[k] \in Products(g, o) /\ f[k].x = k /\ f[k].w = row + k
    OBVIOUS
  <2>1. PICK c \in 0 .. n - 1, l \in 0 .. b - 1 : IsSplit(b, k, c, l) /\ <<c, l>> \in Pairs
    BY <1>2
  <2>2. f[k] = At(c, l) /\ c + l = k
    BY <1>4, <2>1, Zenon DEF IsSplit
  <2>3. At(c, l).x = k /\ At(c, l).w = row + k
    <3>1. At(c, l).x = c + l /\ At(c, l).w = row + c + l
      BY Zenon
    <3>2. row + c + l = row + (c + l)
      OBVIOUS
    <3> QED BY <2>2, <3>1, <3>2, Zenon
  <2>4. <<c, l>>[1] = c /\ <<c, l>>[2] = l
    OBVIOUS
  <2> HIDE DEF At, Pairs, f
  <2>5. At(c, l) \in Products(g, o)
    BY <1>1, <2>1, <2>4, Zenon
  <2> QED BY <2>2, <2>3, <2>5
<1>6. \A t \in Products(g, o) : \E k \in 0 .. n - 1 : f[k] = t
  <2> SUFFICES ASSUME NEW t \in Products(g, o) PROVE \E k \in 0 .. n - 1 : f[k] = t
    OBVIOUS
  <2> HIDE DEF At, Pairs, f
  <2>1. PICK u \in Pairs : t = At(u[1], u[2])
    BY <1>1, Zenon
  <2>2. PICK k \in 0 .. n - 1 : u = <<b * (k \div b), k % b>>
    BY <1>3
  <2>3. u[1] = b * (k \div b) /\ u[2] = k % b
    BY <2>2
  <2> QED BY <1>4, <2>1, <2>3, Zenon
<1>7. DOMAIN f = 0 .. n - 1 /\ f = [k \in 0 .. n - 1 |-> f[k]]
  OBVIOUS
<1> HIDE DEF f
<1>8. f \in Bijection(0 .. n - 1, Products(g, o))
  <2>1. f \in [0 .. n - 1 -> Products(g, o)]
    BY <1>5, <1>7, Zenon
  <2>2. \A k, l \in 0 .. n - 1 : f[k] = f[l] => k = l
    <3> SUFFICES ASSUME NEW k \in 0 .. n - 1, NEW l \in 0 .. n - 1, f[k] = f[l]
                 PROVE  k = l
      OBVIOUS
    <3>1. f[k].x = k /\ f[l].x = l
      BY <1>5
    <3> QED BY <3>1
  <2> QED BY <1>6, <1>7, <2>1, <2>2 DEF Bijection, Injection, Surjection, IsInjective
<1>9. IsFiniteSet(0 .. n - 1) /\ Cardinality(0 .. n - 1) = n
  <2>1. 0 \in Int /\ n - 1 \in Int
    OBVIOUS
  <2>2. \A hi \in Int : /\ IsFiniteSet(0 .. hi)
                        /\ Cardinality(0 .. hi) = IF 0 > hi THEN 0 ELSE hi - 0 + 1
    BY <2>1, FS_Interval, Zenon
  <2>3. ~ (0 > n - 1) /\ (n - 1) - 0 + 1 = n
    OBVIOUS
  <2> QED BY <2>1, <2>2, <2>3, Zenon
<1>10. Cardinality(Products(g, o)) = n
  <2>1. PICK S, T : S = 0 .. n - 1 /\ T = Products(g, o)
    OBVIOUS
  <2>2. ExistsBijection(S, T)
    BY <1>8, <2>1, Zenon DEF ExistsBijection
  <2> QED BY <1>9, <2>1, <2>2, FS_Bijection, Zenon
<1>11. { <<t.w, t.x>> : t \in Products(g, o) } = { <<row + k, k>> : k \in 0 .. n - 1 }
  <2>1. ASSUME NEW k \in 0 .. n - 1
        PROVE  <<row + k, k>> \in { <<t.w, t.x>> : t \in Products(g, o) }
    BY <1>5
  <2>2. ASSUME NEW t \in Products(g, o)
        PROVE  <<t.w, t.x>> \in { <<row + k, k>> : k \in 0 .. n - 1 }
    <3>1. PICK k \in 0 .. n - 1 : f[k] = t
      BY <1>6
    <3> QED BY <1>5, <3>1
  <2> QED BY <2>1, <2>2
<1> QED BY <1>10, <1>11

\* For shapes and tile sizes of all kinds, whether they divide or not, an output
\* is stored once and adds up the products of its own row of codes with x.
THEOREM TilesCover ==
  ASSUME NEW g, IsShape(g)
  PROVE  GemvIsLinear(g)
  BY StoredOnce, ColumnsOnce DEF GemvIsLinear

\* And so for the shapes of the run, whatever its bound on them.
THEOREM TilesCoverProductHolds == MCSpec => []TilesCoverProduct
<1>1. input \in Inputs \cup {<<"verify", None>>} => TilesCoverProduct
  <2> SUFFICES ASSUME input \in Inputs \cup {<<"verify", None>>}, input[1] = "gemv"
               PROVE  GemvIsLinear(input[2])
    BY DEF TilesCoverProduct, Given
  <2>1. PICK g : g = input[2] /\ g \in Shapes
    BY InputKinds
  <2>2. IsShape(g)
    BY <2>1, BoundsAssumption DEF Shapes, IsShape
  <2>3. GemvIsLinear(g)
    BY <2>2, TilesCover
  <2> QED BY <2>1, <2>3, Zenon
<1> QED BY <1>1, InputsStay, PTL

-----------------------------------------------------------------------------
(* load_model and quantize_model.                                          *)

IsCheckpoint(c) ==
    c.wrappers \in Seq(Wrappers) /\ c.n_layer \in Nat /\ c.says \in BOOLEAN

\* The prefixes that stripping leaves of the wrappers ws.
Without(ws, prefix) == IF ws # << >> /\ Head(ws) = prefix THEN Tail(ws) ELSE ws
Rest(ws) == Without(Without(ws, "module."), "_orig_mod.")

\* Nothing is left of exactly four sequences of wrappers.
LEMMA RestEmpty ==
  ASSUME NEW ws \in Seq(Wrappers)
  PROVE  Rest(ws) = << >> <=>
           ws \in {<< >>, <<"module.">>, <<"_orig_mod.">>, <<"module.", "_orig_mod.">>}
<1> DEFINE m == "module."
           o == "_orig_mod."
<1>1. m # o /\ Wrappers = {m, o}
  BY DEF Wrappers
<1>2. \A s \in Seq(Wrappers) : s # << >> =>
        Head(s) \in Wrappers /\ Tail(s) \in Seq(Wrappers) /\ Len(s) \in Nat \ {0}
        /\ Len(Tail(s)) = Len(s) - 1 /\ Head(s) = s[1]
        /\ \A i \in 1 .. Len(s) - 1 : Tail(s)[i] = s[i + 1]
  OBVIOUS
<1>0. Len(<< >>) = 0 /\ \A d : Len(<<d>>) = 1 /\ <<d>>[1] = d
  OBVIOUS
<1> HIDE DEF m, o
<1>3. \A s \in Seq(Wrappers), e \in Wrappers :
        s # << >> /\ Head(s) = e /\ Tail(s) = << >> => s = <<e>>
  <2> SUFFICES ASSUME NEW s \in Seq(Wrappers), NEW e \in Wrappers,
                      s # << >>, Head(s) = e, Tail(s) = << >>
               PROVE  s = <<e>>
    OBVIOUS
  <2>0. Len(s) \in Nat \ {0} /\ Len(Tail(s)) = Len(s) - 1 /\ Head(s) = s[1]
    BY <1>2, Zenon
  <2>1. Len(s) = 1 /\ s[1] = e
    <3>1. Len(Tail(s)) = 0
      BY <1>0, Zenon
    <3>2. PICK k, j : k = Len(s) /\ j = Len(Tail(s))
      OBVIOUS
    <3>3. k \in Nat \ {0} /\ j = k - 1 /\ j = 0
      BY <2>0, <3>1, <3>2, Zenon
    <3>4. k = 1
      BY <3>3
    <3> QED BY <2>0, <3>2, <3>4, Zenon
  <2> QED BY <2>1
<1>4. \A s \in Seq(Wrappers), e, d \in Wrappers :
        s # << >> /\ Head(s) = e /\ Tail(s) = <<d>> => s = <<e, d>>
  <2> SUFFICES ASSUME NEW s \in Seq(Wrappers), NEW e \in Wrappers, NEW d \in Wrappers,
                      s # << >>, Head(s) = e, Tail(s) = <<d>>
               PROVE  s = <<e, d>>
    OBVIOUS
  <2>0. /\ Len(s) \in Nat \ {0} /\ Len(Tail(s)) = Len(s) - 1 /\ Head(s) = s[1]
        /\ \A i \in 1 .. Len(s) - 1 : Tail(s)[i] = s[i + 1]
    BY <1>2, Zenon
  <2>1. Len(s) = 2 /\ s[1] = e /\ s[2] = d
    <3>1. Len(Tail(s)) = 1 /\ Tail(s)[1] = d
      BY <1>0, Zenon
    <3>2. PICK k, j : k = Len(s) /\ j = Len(Tail(s))
      OBVIOUS
    <3>3. k \in Nat \ {0} /\ j = k - 1 /\ j = 1
      BY <2>0, <3>1, <3>2, Zenon
    <3>4. k = 2 /\ 1 \in 1 .. k - 1 /\ 1 + 1 = 2
      BY <3>3
    <3>5. Tail(s)[1] = s[2]
      BY <2>0, <3>2, <3>4, Zenon
    <3> QED BY <2>0, <3>1, <3>2, <3>4, <3>5, Zenon
  <2> QED BY <2>1
<1>5. \A s \in Seq(Wrappers) : Without(s, o) = << >> <=> s \in {<< >>, <<o>>}
  <2> SUFFICES ASSUME NEW s \in Seq(Wrappers) PROVE Without(s, o) = << >> <=> s \in {<< >>, <<o>>}
    OBVIOUS
  <2>1. o \in Wrappers
    BY <1>1
  <2>2. <<o>> # << >> /\ Head(<<o>>) = o /\ Tail(<<o>>) = << >>
    OBVIOUS
  <2> QED BY <1>3, <2>1, <2>2, Zenon DEF Without
<1>6. Without(ws, m) \in Seq(Wrappers)
  BY <1>2 DEF Without
<1>7. Rest(ws) = << >> <=> Without(ws, m) \in {<< >>, <<o>>}
  BY <1>5, <1>6, Zenon DEF Rest, m, o
<1>8. Without(ws, m) = << >> <=> ws \in {<< >>, <<m>>}
  <2>1. m \in Wrappers
    BY <1>1
  <2>2. <<m>> # << >> /\ Head(<<m>>) = m /\ Tail(<<m>>) = << >>
    OBVIOUS
  <2> QED BY <1>3, <2>1, <2>2, Zenon DEF Without
<1>9. Without(ws, m) = <<o>> <=> ws \in {<<o>>, <<m, o>>}
  <2>1. m \in Wrappers /\ o \in Wrappers
    BY <1>1
  <2>2. <<m, o>> # << >> /\ Head(<<m, o>>) = m /\ Tail(<<m, o>>) = <<o>>
    OBVIOUS
  <2>3. <<o>> # << >> /\ Head(<<o>>) = o
    OBVIOUS
  <2> QED BY <1>1, <1>4, <2>1, <2>2, <2>3, Zenon DEF Without
<1> QED BY <1>7, <1>8, <1>9 DEF m, o

\* The keys of the names S behind the prefixes ws.
KeysOf(ws, S) == { Key(ws, n) : n \in S }

\* All keys of a checkpoint lose the same prefixes.
LEMMA StrippedKeys ==
  ASSUME NEW c
  PROVE  Stripped(StateDict(c)) = KeysOf(Rest(c.wrappers), Names(c.n_layer))
<1>1. ASSUME NEW S, NEW ws, NEW prefix
      PROVE  StripPrefix(KeysOf(ws, S), prefix) = KeysOf(Without(ws, prefix), S)
  <2> DEFINE strip(k) == IF StartsWith(k, prefix) THEN Key(Tail(k.prefixes), k.name) ELSE k
  <2>1. \A n \in S : strip(Key(ws, n)) = Key(Without(ws, prefix), n)
    <3> SUFFICES ASSUME NEW n \in S PROVE strip(Key(ws, n)) = Key(Without(ws, prefix), n)
      OBVIOUS
    <3>1. Key(ws, n).prefixes = ws /\ Key(ws, n).name = n
      BY DEF Key
    <3> QED BY <3>1, Zenon DEF StartsWith, Without
  <2>2. StripPrefix(KeysOf(ws, S), prefix) = { strip(k) : k \in KeysOf(ws, S) }
    BY Zenon DEF StripPrefix
  <2> HIDE DEF strip
  <2> QED BY <2>1, <2>2 DEF KeysOf
<1>2. StateDict(c) = KeysOf(c.wrappers, Names(c.n_layer))
  BY DEF StateDict, KeysOf
<1> PICK v, N : v = c.wrappers /\ N = Names(c.n_layer)
  OBVIOUS
<1>3. StripPrefix(KeysOf(v, N), "module.") = KeysOf(Without(v, "module."), N)
  BY <1>1
<1>4. StripPrefix(KeysOf(Without(v, "module."), N), "_orig_mod.")
        = KeysOf(Without(Without(v, "module."), "_orig_mod."), N)
  BY <1>1
<1> QED BY <1>2, <1>3, <1>4, Zenon DEF Stripped, Rest

\* Models of different depths have different names.
LEMMA NamesDiffer ==
  ASSUME NEW m \in Nat, NEW n \in Nat, Names(m) = Names(n)
  PROVE  m = n
<1>1. ASSUME NEW k \in Nat, NEW j \in Nat
      PROVE  <<k, "ln1">> \in Names(j) <=> k \in 1 .. j
  BY DEF Names
<1>2. m <= n
  <2>1. CASE m = 0
    BY <2>1
  <2>2. CASE m # 0
    <3>1. m \in 1 .. m
      BY <2>2
    <3>2. m \in 1 .. n
      BY <1>1, <3>1, Zenon
    <3> QED BY <3>2
  <2> QED BY <2>1, <2>2
<1>3. n <= m
  <2>1. CASE n = 0
    BY <2>1
  <2>2. CASE n # 0
    <3>1. n \in 1 .. n
      BY <2>2
    <3>2. n \in 1 .. m
      BY <1>1, <3>1, Zenon
    <3> QED BY <3>2
  <2> QED BY <2>1, <2>2
<1> QED BY <1>2, <1>3

LEMMA LoadsIff ==
  ASSUME NEW c, IsCheckpoint(c)
  PROVE  Loads(c) <=> Rest(c.wrappers) = << >> /\ ReconstructConfig(c) = c.n_layer
<1> PICK v, N, R : v = Rest(c.wrappers) /\ N = Names(c.n_layer) /\ R = Names(ReconstructConfig(c))
  OBVIOUS
<1>1. Stripped(StateDict(c)) = KeysOf(v, N)
  BY StrippedKeys, Zenon
<1>2. \A w, u, n, m : Key(w, n) = Key(u, m) <=> w = u /\ n = m
  BY DEF Key
<1>3. \A w, n : Key(w, n).prefixes = w /\ Key(w, n).name = n
  BY DEF Key
<1>4. Unexpected(c) = {} <=> \A n \in N : v = << >> /\ n \in R
  <2>1. Unexpected(c) = { k \in KeysOf(v, N) : k.prefixes # << >> \/ k.name \notin R }
    BY <1>1, Zenon DEF Unexpected
  <2>2. { k \in KeysOf(v, N) : k.prefixes # << >> \/ k.name \notin R } = {}
          <=> \A n \in N : v = << >> /\ n \in R
    <3>1. (\A n \in N : v = << >> /\ n \in R)
            <=> \A k \in KeysOf(v, N) : k.prefixes = << >> /\ k.name \in R
      <4>1. \A n \in N : Key(v, n) \in KeysOf(v, N)
        BY DEF KeysOf
      <4>2. \A k \in KeysOf(v, N) : \E n \in N : k = Key(v, n)
        BY DEF KeysOf
      <4>3. ASSUME \A n \in N : v = << >> /\ n \in R, NEW k \in KeysOf(v, N)
            PROVE  k.prefixes = << >> /\ k.name \in R
        <5>1. PICK n \in N : k = Key(v, n)
          BY <4>2
        <5>2. k.prefixes = v /\ k.name = n /\ v = << >> /\ n \in R
          BY <1>3, <4>3, <5>1
        <5> QED BY <5>2, Zenon
      <4>4. ASSUME \A k \in KeysOf(v, N) : k.prefixes = << >> /\ k.name \in R, NEW n \in N
            PROVE  v = << >> /\ n \in R
        <5>1. PICK k : k = Key(v, n)
          OBVIOUS
        <5>2. k \in KeysOf(v, N) /\ k.prefixes = v /\ k.name = n
          BY <1>3, <4>1, <5>1
        <5> QED BY <4>4, <5>2, Zenon
      <4> QED BY <4>3, <4>4, Zenon
    <3> QED BY <3>1, Zenon
  <2> QED BY <2>1, <2>2, Zenon
<1>5. Missing(c) = {} <=> \A n \in R : v = << >> /\ n \in N
  <2>1. Missing(c) = { n \in R : Key(<< >>, n) \notin KeysOf(v, N) }
    BY <1>1, Zenon DEF Missing
  <2>2. \A n : Key(<< >>, n) \in KeysOf(v, N) <=> v = << >> /\ n \in N
    <3>1. \A k : k \in KeysOf(v, N) <=> \E n \in N : k = Key(v, n)
      BY DEF KeysOf
    <3>2. ASSUME NEW n, Key(<< >>, n) \in KeysOf(v, N)
          PROVE  v = << >> /\ n \in N
      <4>1. PICK j \in N : Key(<< >>, n) = Key(v, j)
        BY <3>1, <3>2, Zenon
      <4>2. << >> = v /\ n = j
        BY <4>1 DEF Key
      <4> QED BY <4>2, Zenon
    <3> QED BY <3>1, <3>2, Zenon
  <2> QED BY <2>1, <2>2, Zenon
<1>6. <<0, "tok_emb">> \in N
  BY DEF Names
<1>7. Loads(c) <=> v = << >> /\ N = R
  BY <1>4, <1>5, <1>6 DEF Loads
<1>8. N = R <=> ReconstructConfig(c) = c.n_layer
  <2>1. ReconstructConfig(c) \in Nat /\ c.n_layer \in Nat
    BY LayersAssumption DEF ReconstructConfig, IsCheckpoint
  <2> QED BY <2>1, NamesDiffer, Zenon
<1> QED BY <1>7, <1>8, Zenon

\* Four tensors of each block are quantized.
LEMMA QuantizedCount ==
  ASSUME NEW n \in Nat
  PROVE  /\ IsFiniteSet((1 .. n) \X QuantizedParts)
         /\ Cardinality((1 .. n) \X QuantizedParts) = 4 * n
<1>1. IsFiniteSet(1 .. n) /\ Cardinality(1 .. n) = n
  <2>1. 1 \in Int /\ n \in Int
    OBVIOUS
  <2>2. PICK k : k = Cardinality(1 .. n)
    OBVIOUS
  <2>3. IsFiniteSet(1 .. n) /\ k = IF 1 > n THEN 0 ELSE n - 1 + 1
    BY <2>1, <2>2, FS_Interval, Zenon
  <2>4. k = n
    BY <2>3
  <2> QED BY <2>2, <2>3, <2>4, Zenon
<1>2. IsFiniteSet(QuantizedParts) /\ Cardinality(QuantizedParts) = 4
  <2>1. /\ IsFiniteSet({"attn.qkv"}) /\ Cardinality({"attn.qkv"}) = 1
    BY FS_Singleton
  <2>2. /\ IsFiniteSet({"attn.qkv"} \cup {"attn.proj"})
        /\ Cardinality({"attn.qkv"} \cup {"attn.proj"}) = 2
    BY <2>1, FS_AddElement
  <2>3. /\ IsFiniteSet(({"attn.qkv"} \cup {"attn.proj"}) \cup {"mlp.fc"})
        /\ Cardinality(({"attn.qkv"} \cup {"attn.proj"}) \cup {"mlp.fc"}) = 3
    BY <2>2, FS_AddElement
  <2>4. /\ IsFiniteSet((({"attn.qkv"} \cup {"attn.proj"}) \cup {"mlp.fc"}) \cup {"mlp.proj"})
        /\ Cardinality((({"attn.qkv"} \cup {"attn.proj"}) \cup {"mlp.fc"}) \cup {"mlp.proj"}) = 4
    BY <2>3, FS_AddElement
  <2>5. QuantizedParts = (({"attn.qkv"} \cup {"attn.proj"}) \cup {"mlp.fc"}) \cup {"mlp.proj"}
    BY DEF QuantizedParts
  <2> QED BY <2>4, <2>5
<1>3. IsFiniteSet((1 .. n) \X QuantizedParts) /\ Cardinality((1 .. n) \X QuantizedParts) = n * 4
  <2>1. PICK A, B : A = 1 .. n /\ B = QuantizedParts
    OBVIOUS
  <2>2. IsFiniteSet(A) /\ IsFiniteSet(B) /\ Cardinality(A) = n /\ Cardinality(B) = 4
    BY <1>1, <1>2, <2>1, Zenon
  <2>3. IsFiniteSet(A \X B) /\ Cardinality(A \X B) = Cardinality(A) * Cardinality(B)
    BY <2>2, FS_Product, Zenon
  <2> QED BY <2>1, <2>2, <2>3, Zenon
<1>4. n * 4 = 4 * n
  OBVIOUS
<1> QED BY <1>3, <1>4, Zenon

\* What quantizing takes from a model, in bytes.
LEMMA QuantizedBytes ==
  ASSUME NEW n \in Nat
  PROVE  LET model == QuantizeModel(n)
             plain == [m \in Names(n) |-> "float"]
         IN  /\ EmbeddingBytes(model) = EmbeddingBytes(plain)
             /\ OtherBytes(model) = OtherBytes(plain) - 3 * 4 * n
<1> PICK model, plain : model = QuantizeModel(n) /\ plain = [m \in Names(n) |-> "float"]
  OBVIOUS
<1>1. /\ DOMAIN model = Names(n) /\ DOMAIN plain = Names(n)
      /\ \A m \in Names(n) : plain[m] = "float"
      /\ \A m \in Names(n) : model[m] = IF m[2] \in QuantizedParts THEN "int8" ELSE "float"
  BY DEF QuantizeModel
<1> PICK others : others = { Storage(m) : m \in Names(n) } \ {<<0, "tok_emb">>}
  OBVIOUS
<1> DEFINE parts == (1 .. n) \X QuantizedParts
           kept == { m \in others : m \notin parts }
<1>2. <<0, "tok_emb">> \in Names(n) /\ <<0, "tok_emb">>[2] \notin QuantizedParts
  BY DEF Names, QuantizedParts
<1>3. others \in SUBSET Names(n) /\ parts \in SUBSET others
  BY DEF Names, Storage, QuantizedParts
<1>4. \A m \in Names(n) : m[2] \in QuantizedParts <=> m \in parts
  BY DEF Names, QuantizedParts
<1>5. IsFiniteSet(others)
  <2>1. IsFiniteSet((0 .. n) \X (QuantizedParts \cup {"tok_emb", "pos_emb", "ln_f", "lm_head", "ln1", "ln2"}))
    <3>1. IsFiniteSet(0 .. n)
      <4>1. 0 \in Int /\ n \in Int
        OBVIOUS
      <4> QED BY <4>1, FS_Interval, Zenon
    <3>2. IsFiniteSet(QuantizedParts)
      <4>1. QuantizedParts = ({"attn.qkv"} \cup {"attn.proj"}) \cup ({"mlp.fc"} \cup {"mlp.proj"})
        BY DEF QuantizedParts
      <4>2. \A e : IsFiniteSet({e})
        BY FS_Singleton
      <4>3. IsFiniteSet({"attn.qkv"} \cup {"attn.proj"}) /\ IsFiniteSet({"mlp.fc"} \cup {"mlp.proj"})
        BY <4>2, FS_Union, Zenon
      <4> QED BY <4>1, <4>3, FS_Union, Zenon
    <3>3. IsFiniteSet({"tok_emb", "pos_emb", "ln_f", "lm_head", "ln1", "ln2"})
      <4>1. {"tok_emb", "pos_emb", "ln_f", "lm_head", "ln1", "ln2"}
              = (({"tok_emb"} \cup {"pos_emb"}) \cup ({"ln_f"} \cup {"lm_head"})) \cup ({"ln1"} \cup {"ln2"})
        OBVIOUS
      <4>2. \A e : IsFiniteSet({e})
        BY FS_Singleton
      <4>3. /\ IsFiniteSet({"tok_emb"} \cup {"pos_emb"}) /\ IsFiniteSet({"ln_f"} \cup {"lm_head"})
            /\ IsFiniteSet({"ln1"} \cup {"ln2"})
        BY <4>2, FS_Union, Zenon
      <4>4. IsFiniteSet(({"tok_emb"} \cup {"pos_emb"}) \cup ({"ln_f"} \cup {"lm_head"}))
        BY <4>3, FS_Union, Zenon
      <4>5. IsFiniteSet((({"tok_emb"} \cup {"pos_emb"}) \cup ({"ln_f"} \cup {"lm_head"})) \cup ({"ln1"} \cup {"ln2"}))
        BY <4>3, <4>4, FS_Union, Zenon
      <4> QED BY <4>1, <4>5
    <3>4. IsFiniteSet(QuantizedParts \cup {"tok_emb", "pos_emb", "ln_f", "lm_head", "ln1", "ln2"})
      BY <3>2, <3>3, FS_Union, Zenon
    <3> QED BY <3>1, <3>4, FS_Product, Zenon
  <2>2. Names(n) \in SUBSET ((0 .. n) \X (QuantizedParts \cup {"tok_emb", "pos_emb", "ln_f", "lm_head", "ln1", "ln2"}))
    BY DEF Names
  <2> QED BY <1>3, <2>1, <2>2, FS_Subset
<1> HIDE DEF parts
<1>6. /\ { m \in others : model[m] = "int8" } = parts
      /\ { m \in others : model[m] = "float" } = kept
      /\ { m \in others : plain[m] = "int8" } = {}
      /\ { m \in others : plain[m] = "float" } = others
  BY <1>1, <1>3, <1>4
<1>7. Cardinality(parts) = 4 * n /\ IsFiniteSet(parts)
  BY QuantizedCount DEF parts
<1>8. IsFiniteSet(kept) /\ kept \cup parts = others /\ kept \cap parts = {}
  BY <1>3, <1>5, FS_Subset
<1> HIDE DEF kept
<1>9. PICK k \in Nat : k = Cardinality(kept) /\ Cardinality(others) = k + 4 * n
  <2>1. Cardinality(kept) \in Nat
    BY <1>8, FS_CardinalityType
  <2>2. Cardinality(kept \cup parts) = Cardinality(kept) + Cardinality(parts) - Cardinality({})
    BY <1>7, <1>8, FS_Union
  <2>3. Cardinality({}) = 0
    BY FS_EmptySet
  <2>4. PICK k \in Nat, j \in {Cardinality(others)} : k = Cardinality(kept) /\ j = Cardinality(others)
    BY <2>1
  <2>5. j = k + 4 * n - 0
    BY <1>7, <1>8, <2>2, <2>3, <2>4, Zenon
  <2>6. j = k + 4 * n
    BY <2>5
  <2> QED BY <2>4, <2>6, Zenon
<1>10. OtherBytes(model) = 4 * n + 4 * k
  BY <1>1, <1>6, <1>7, <1>9, Zenon DEF OtherBytes
<1>11. OtherBytes(plain) = 0 + 4 * (k + 4 * n)
  BY <1>1, <1>6, <1>9, FS_EmptySet, Zenon DEF OtherBytes
<1>12. OtherBytes(model) = OtherBytes(plain) - 3 * 4 * n
  BY <1>10, <1>11
<1>13. EmbeddingBytes(model) = EmbeddingBytes(plain)
  BY <1>1, <1>2 DEF EmbeddingBytes
<1> QED BY <1>12, <1>13, Zenon

\* For checkpoints of every depth and every nesting of wrappers: the whole model under
\* its own names or refused; which ones must load; and what quantizing then saves.
THEOREM LoaderFits ==
  ASSUME NEW c, IsCheckpoint(c)
  PROVE  LoadsWhatFits(c)
<1>1. ReconstructConfig(c) = c.n_layer <=> DepthKnown(c)
  BY Zenon DEF ReconstructConfig, DepthKnown, IsCheckpoint
<1>2. Rest(c.wrappers) = << >> <=>
        c.wrappers \in {<< >>, <<"module.">>, <<"_orig_mod.">>, <<"module.", "_orig_mod.">>}
  BY RestEmpty, Zenon DEF IsCheckpoint
<1>3. Loads(c) <=> Rest(c.wrappers) = << >> /\ ReconstructConfig(c) = c.n_layer
  BY LoadsIff
<1>4. ASSUME Loads(c)
      PROVE  Stripped(StateDict(c)) = { Key(<< >>, n) : n \in Names(c.n_layer) }
  <2>1. Stripped(StateDict(c)) = KeysOf(<< >>, Names(c.n_layer))
    BY <1>3, <1>4, StrippedKeys, Zenon
  <2> QED BY <2>1, Zenon DEF KeysOf
<1>5. LET model == QuantizeModel(c.n_layer)
          plain == [n \in Names(c.n_layer) |-> "float"]
      IN  /\ EmbeddingBytes(model) = EmbeddingBytes(plain)
          /\ OtherBytes(model) = OtherBytes(plain) - 3 * 4 * c.n_layer
  BY QuantizedBytes, Zenon DEF IsCheckpoint
<1> QED BY <1>1, <1>2, <1>3, <1>4, <1>5, Zenon DEF LoadsWhatFits

\* And so for the checkpoints of the run.
THEOREM LoaderIsExactHolds == MCSpec => []LoaderIsExact
<1>1. input \in Inputs \cup {<<"verify", None>>} => LoaderIsExact
  <2> SUFFICES ASSUME input \in Inputs \cup {<<"verify", None>>}, input[1] = "loader"
               PROVE  LoadsWhatFits(input[2])
    BY DEF LoaderIsExact, Given
  <2>1. PICK c : c = input[2] /\ c \in Checkpoints
    BY InputKinds
  <2>2. IsCheckpoint(c)
    <3>1. c.wrappers \in SeqOf(Wrappers, 2) /\ c.n_layer \in 1 .. 3 /\ c.says \in BOOLEAN
      BY <2>1 DEF Checkpoints
    <3>2. c.wrappers \in Seq(Wrappers)
      <4>1. PICK k \in 0 .. 2 : c.wrappers \in [1 .. k -> Wrappers]
        BY <3>1 DEF SeqOf
      <4>2. k \in Nat
        OBVIOUS
      <4> QED BY <4>1, <4>2, SeqDef
    <3> QED BY <3>1, <3>2 DEF IsCheckpoint
  <2> QED BY <2>1, <2>2, LoaderFits, Zenon
<1> QED BY <1>1, InputsStay, PTL

-----------------------------------------------------------------------------
(* CUDAGraphRunner: any history of captures and replays.                   *)

\* Calls whose ids are in Ids.
HistoryOf(Ids) == Seq([op : {"capture", "replay"}, ids : Ids])

Context(kv_length, ids) == [c \in 1 .. kv_length |-> Noise] \o <<ids>>

RunnersOf(Ids, kv_length) ==
    [kv_length : {kv_length}, static_input_ids : Ids \cup {"zeros"}, slot : Ids \cup {"zeros", Noise},
     static_outputs : Seq({Unset} \cup { Context(kv_length, a) : a \in Ids }), raised : BOOLEAN]

\* The runner after any set of calls, made in order.
History(kv_length, calls, g) ==
    g = [T \in SUBSET DOMAIN calls |->
           IF T = {} THEN FreshRunner(kv_length) ELSE Called(g[T \ {Max(T)}], calls[Max(T)])]

LEMMA AfterUnfolds ==
  ASSUME NEW kv_length, NEW calls
  PROVE  After(kv_length, calls) = (CHOOSE g : History(kv_length, calls, g))[DOMAIN calls]
  BY Zenon DEF After, FoldLeft, MapThenFoldSet, History

\* What a call does to the runner r.
LEMMA ReplacedType ==
  ASSUME NEW S, NEW s \in Seq(S), NEW e \in S, NEW n
  PROVE  [s EXCEPT ![n] = e] \in Seq(S)
<1>1. PICK k \in Nat : s \in [1 .. k -> S]
  BY SeqDef
<1>2. [s EXCEPT ![n] = e] \in [1 .. k -> S]
  BY <1>1
<1> QED BY <1>2, SeqDef

LEMMA CalledType ==
  ASSUME NEW Ids, NEW kv_length \in Nat, NEW r \in RunnersOf(Ids, kv_length),
         NEW call \in [op : {"capture", "replay"}, ids : Ids]
  PROVE  Called(r, call) \in RunnersOf(Ids, kv_length)
<1> PICK Outs : Outs = {Unset} \cup { Context(kv_length, a) : a \in Ids }
  OBVIOUS
<1> PICK ctx, ids : ctx = ReadCache(kv_length, call.ids) /\ ids = call.ids
  OBVIOUS
<1>1. ctx \in Outs /\ Unset \in Outs /\ ids \in Ids
  BY DEF ReadCache, Context
<1>2. RunnersOf(Ids, kv_length) =
        [kv_length : {kv_length}, static_input_ids : Ids \cup {"zeros"}, slot : Ids \cup {"zeros", Noise},
         static_outputs : Seq(Outs), raised : BOOLEAN]
  BY Zenon DEF RunnersOf
<1> PICK outs : outs = r.static_outputs
  OBVIOUS
<1>3. outs \in Seq(Outs) /\ r.kv_length = kv_length
  BY <1>2
<1>4. Append(outs, Unset) \in Seq(Outs)
  BY <1>1, <1>3
<1>5. [outs EXCEPT ![Len(outs)] = ctx] \in Seq(Outs)
  BY <1>1, <1>3, ReplacedType
<1> PICK R, A, E : R = Seq(Outs) /\ A = Append(outs, Unset) /\ E = [outs EXCEPT ![Len(outs)] = ctx]
  OBVIOUS
<1>6. r \in [kv_length : {kv_length}, static_input_ids : Ids \cup {"zeros"},
             slot : Ids \cup {"zeros", Noise}, static_outputs : R, raised : BOOLEAN]
      /\ A \in R /\ E \in R
  BY <1>2, <1>4, <1>5, Zenon
<1>7. Capture(r) = IF kv_length >= PositionTable THEN [r EXCEPT !.raised = TRUE]
                   ELSE [r EXCEPT !.slot = r.static_input_ids, !.static_outputs = A]
  BY <1>3, Zenon DEF Capture
<1>8. Replay(r, ids) = IF outs = << >> THEN [r EXCEPT !.raised = TRUE]
                       ELSE [r EXCEPT !.static_input_ids = ids, !.slot = ids, !.static_outputs = E]
  <2>1. Replay(r, ids) = IF outs = << >> THEN [r EXCEPT !.raised = TRUE]
                         ELSE [r EXCEPT !.static_input_ids = ids, !.slot = ids,
                                        !.static_outputs = [@ EXCEPT ![Len(outs)] = ctx]]
    BY <1>3, Zenon DEF Replay
  <2>2. [r EXCEPT !.static_input_ids = ids, !.slot = ids,
                  !.static_outputs = [@ EXCEPT ![Len(outs)] = ctx]]
          = [r EXCEPT !.static_input_ids = ids, !.slot = ids, !.static_outputs = E]
    BY <1>6
  <2> QED BY <2>1, <2>2, Zenon
<1>9. Capture(r) \in [kv_length : {kv_length}, static_input_ids : Ids \cup {"zeros"},
                      slot : Ids \cup {"zeros", Noise}, static_outputs : R, raised : BOOLEAN]
  BY <1>6, <1>7
<1>10. Replay(r, ids) \in [kv_length : {kv_length}, static_input_ids : Ids \cup {"zeros"},
                           slot : Ids \cup {"zeros", Noise}, static_outputs : R, raised : BOOLEAN]
  BY <1>1, <1>6, <1>8
<1> QED BY <1>2, <1>9, <1>10, Zenon DEF Called

OffTable(kv_length) == kv_length >= PositionTable

\* What a call makes of the runner r.
CallMakes(kv_length, r, call, after) ==
    /\ r.raised => after = r
    /\ ~ r.raised /\ call.op = "capture" /\ OffTable(kv_length) => after.raised
    /\ ~ r.raised /\ call.op = "capture" /\ ~ OffTable(kv_length) =>
         ~ after.raised /\ after.static_outputs = Append(r.static_outputs, Unset)
    /\ ~ r.raised /\ call.op = "replay" /\ r.static_outputs = << >> => after.raised
    /\ ~ r.raised /\ call.op = "replay" /\ r.static_outputs # << >> =>
         /\ ~ after.raised
         /\ after.static_outputs =
              [r.static_outputs EXCEPT ![Len(r.static_outputs)] = Context(kv_length, call.ids)]

LEMMA CalledEffect ==
  ASSUME NEW Ids, NEW kv_length \in Nat, NEW r \in RunnersOf(Ids, kv_length),
         NEW call \in [op : {"capture", "replay"}, ids : Ids]
  PROVE  CallMakes(kv_length, r, call, Called(r, call))
<1>1. r = [kv_length |-> r.kv_length, static_input_ids |-> r.static_input_ids, slot |-> r.slot,
           static_outputs |-> r.static_outputs, raised |-> r.raised]
      /\ r.kv_length = kv_length
  BY DEF RunnersOf
<1>2. "capture" # "replay"
  OBVIOUS
<1>3. Capture(r).raised = IF OffTable(kv_length) THEN TRUE ELSE r.raised
  BY <1>1 DEF Capture, OffTable
<1>4. ~ OffTable(kv_length) => Capture(r).static_outputs = Append(r.static_outputs, Unset)
  BY <1>1 DEF Capture, OffTable
<1>5. Replay(r, call.ids).raised = IF r.static_outputs = << >> THEN TRUE ELSE r.raised
  BY <1>1 DEF Replay
<1>6. r.static_outputs # << >> =>
        Replay(r, call.ids).static_outputs =
          [r.static_outputs EXCEPT ![Len(r.static_outputs)] = Context(kv_length, call.ids)]
  BY <1>1 DEF Replay, ReadCache, Context
<1> QED BY <1>2, <1>3, <1>4, <1>5, <1>6, Zenon DEF Called, CallMakes

LEMMA HistoryExists ==
  ASSUME NEW Ids, NEW kv_length \in Nat, NEW calls \in HistoryOf(Ids)
  PROVE  \E g : History(kv_length, calls, g)
<1>0. PICK C : C = [op : {"capture", "replay"}, ids : Ids] /\ calls \in Seq(C)
  BY DEF HistoryOf
<1>1. PICK n \in Nat : DOMAIN calls = 1 .. n /\ \A i \in 1 .. n : calls[i] \in C
  <2>1. \A s \in Seq(C) : Len(s) \in Nat /\ DOMAIN s = 1 .. Len(s) /\ \A i \in 1 .. Len(s) : s[i] \in C
    OBVIOUS
  <2> QED BY <1>0, <2>1, Zenon
<1> DEFINE S == 1 .. n
           W == RunnersOf(Ids, kv_length)
           step == [u \in S \X W |-> Called(u[2], calls[u[1]])]
<1>2. FreshRunner(kv_length) \in W
  BY DEF FreshRunner, RunnersOf
<1> HIDE DEF S, W
<1>3. \A u \in S \X W : u[1] \in S /\ u[2] \in W
  OBVIOUS
<1>4. \A i \in S, r \in W : Called(r, calls[i]) \in W
  BY <1>0, <1>1, CalledType, Zenon DEF S, W
<1>5. step \in [S \X W -> W]
  BY <1>3, <1>4, Zenon
<1>6. \A i \in S, r \in W : step[<<i, r>>] = Called(r, calls[i])
  <2> SUFFICES ASSUME NEW i \in S, NEW r \in W PROVE step[<<i, r>>] = Called(r, calls[i])
    OBVIOUS
  <2>1. <<i, r>> \in S \X W /\ <<i, r>>[1] = i /\ <<i, r>>[2] = r
    OBVIOUS
  <2> QED BY <2>1, Zenon
<1> HIDE DEF step
<1>7. PICK g \in [SUBSET S -> W] : IsOrderedFold(n, FreshRunner(kv_length), step, g)
  BY <1>2, <1>5, OrderedFold, Zenon DEF S
<1>10. \A T \in SUBSET S :
         g[T] = IF T = {} THEN FreshRunner(kv_length) ELSE step[<<Max(T), g[T \ {Max(T)}]>>]
  BY <1>7, Zenon DEF S, IsOrderedFold
<1>8. ASSUME NEW T \in SUBSET S
      PROVE  g[T] = IF T = {} THEN FreshRunner(kv_length) ELSE Called(g[T \ {Max(T)}], calls[Max(T)])
  <2>1. CASE T = {}
    BY <1>10, <2>1, Zenon
  <2>2. CASE T # {}
    <3>1. Max(T) \in T
      BY <2>2, MaxIndex DEF S
    <3>2. PICK i \in S : i = Max(T)
      BY <3>1
    <3>3. T \ {i} \in SUBSET S
      OBVIOUS
    <3>4. PICK r \in W : r = g[T \ {i}]
      BY <1>7, <3>3, Zenon
    <3> QED BY <1>6, <1>10, <2>2, <3>2, <3>4, Zenon
  <2> QED BY <2>1, <2>2
<1>9. g = [T \in SUBSET S |-> IF T = {} THEN FreshRunner(kv_length)
                              ELSE Called(g[T \ {Max(T)}], calls[Max(T)])]
  BY <1>7, <1>8, Zenon
<1> QED BY <1>1, <1>9, Zenon DEF History, S

\* How many captures there are among the first calls.
LEMMA BufferCount ==
  ASSUME NEW calls, NEW i \in Nat, NEW k \in Nat, i <= k
  PROVE  BufferOf(calls, i) \in Nat /\ BufferOf(calls, i) <= BufferOf(calls, k) /\ BufferOf(calls, k) <= k
<1> DEFINE C(n) == { j \in 1 .. n : calls[j].op = "capture" }
<1>1. ASSUME NEW n \in Nat
      PROVE  IsFiniteSet(1 .. n) /\ Cardinality(1 .. n) = n
  <2>1. 1 \in Int /\ n \in Int
    OBVIOUS
  <2>2. PICK m : m = Cardinality(1 .. n)
    OBVIOUS
  <2>3. IsFiniteSet(1 .. n) /\ m = IF 1 > n THEN 0 ELSE n - 1 + 1
    BY <2>1, <2>2, FS_Interval, Zenon
  <2>4. m = n
    BY <2>3
  <2> QED BY <2>2, <2>3, <2>4, Zenon
<1>2. C(k) \in SUBSET (1 .. k) /\ C(i) \in SUBSET C(k)
  OBVIOUS
<1>3. BufferOf(calls, i) = Cardinality(C(i)) /\ BufferOf(calls, k) = Cardinality(C(k))
  BY Zenon DEF BufferOf
<1> HIDE DEF C
<1>4. IsFiniteSet(C(k)) /\ Cardinality(C(k)) <= Cardinality(1 .. k)
  BY <1>1, <1>2, FS_Subset, Zenon
<1>5. IsFiniteSet(C(i)) /\ Cardinality(C(i)) <= Cardinality(C(k))
  BY <1>2, <1>4, FS_Subset, Zenon
<1>6. Cardinality(C(i)) \in Nat
  BY <1>5, FS_CardinalityType
<1>7. Cardinality(C(k)) <= k
  BY <1>1, <1>4, Zenon
<1> QED BY <1>3, <1>5, <1>6, <1>7, Zenon

LEMMA BufferNext ==
  ASSUME NEW calls, NEW k \in Nat, NEW m, m = k + 1
  PROVE  /\ BufferOf(calls, 0) = 0
         /\ calls[m].op = "capture" => BufferOf(calls, m) = BufferOf(calls, k) + 1
         /\ calls[m].op # "capture" => BufferOf(calls, m) = BufferOf(calls, k)
<1> DEFINE C(n) == { j \in 1 .. n : calls[j].op = "capture" }
<1>1. IsFiniteSet(C(k))
  <2>1. \A lo, hi \in Int : IsFiniteSet(lo .. hi)
    BY FS_Interval
  <2>2. 1 \in Int /\ k \in Int
    OBVIOUS
  <2>3. C(k) \in SUBSET (1 .. k)
    OBVIOUS
  <2> HIDE DEF C
  <2>4. IsFiniteSet(1 .. k)
    BY <2>1, <2>2, Zenon
  <2> QED BY <2>3, <2>4, FS_Subset, Zenon
<1>2. /\ calls[m].op = "capture" => C(m) = C(k) \cup {m}
      /\ calls[m].op # "capture" => C(m) = C(k)
      /\ m \notin C(k) /\ C(0) = {}
  OBVIOUS
<1>3. \A n : BufferOf(calls, n) = Cardinality(C(n))
  BY Zenon DEF BufferOf
<1> HIDE DEF C
<1>4. Cardinality(C(k) \cup {m}) = Cardinality(C(k)) + 1
  BY <1>1, <1>2, FS_AddElement
<1> QED BY <1>2, <1>3, <1>4, FS_EmptySet, Zenon

ReplaysTo(calls, k) == { i \in 1 .. k : calls[i].op = "replay" }

\* The latest of the first k calls that replayed the same graph as call i.
LatestTo(calls, k, i) ==
    Max({ j \in ReplaysTo(calls, k) : BufferOf(calls, j) = BufferOf(calls, i) })

AllReplayed(calls, k) == \A i \in ReplaysTo(calls, k) : BufferOf(calls, i) # 0

Misused(kv_length, calls, k) == ~ AllReplayed(calls, k) \/ (OffTable(kv_length) /\ k > 0)

\* Each buffer shows its latest replay.
BuffersHold(kv_length, calls, k, outs) ==
    /\ Len(outs) = BufferOf(calls, k)
    /\ \A i \in ReplaysTo(calls, k) :
         outs[BufferOf(calls, i)] = Context(kv_length, calls[LatestTo(calls, k, i)].ids)

\* What is true of the runner r after the first k calls.
RunnerIs(kv_length, calls, k, r) ==
    /\ r.raised <=> Misused(kv_length, calls, k)
    /\ ~ r.raised => BuffersHold(kv_length, calls, k, r.static_outputs)

\* A capture adds a buffer; those of the graphs before stay as they are.
LEMMA CaptureKeeps ==
  ASSUME NEW calls, NEW kv_length \in Nat, NEW k \in Nat, NEW m, m = k + 1,
         calls[m].op = "capture", NEW O, NEW outs \in Seq(O), NEW e \in O,
         AllReplayed(calls, k), BuffersHold(kv_length, calls, k, outs)
  PROVE  AllReplayed(calls, m) /\ BuffersHold(kv_length, calls, m, Append(outs, e))
<1> USE DEF AllReplayed, BuffersHold
<1>1. ReplaysTo(calls, m) = ReplaysTo(calls, k)
  BY DEF ReplaysTo
<1>2. Len(outs) \in Nat /\ Len(Append(outs, e)) = Len(outs) + 1
      /\ \A b \in 1 .. Len(outs) : Append(outs, e)[b] = outs[b]
  OBVIOUS
<1>3. ASSUME NEW i \in ReplaysTo(calls, k)
      PROVE  BufferOf(calls, i) \in 1 .. Len(outs)
  <2>1. i \in Nat /\ i <= k
    BY DEF ReplaysTo
  <2>2. PICK b, c : b = BufferOf(calls, i) /\ c = BufferOf(calls, k)
    OBVIOUS
  <2>3. b \in Nat /\ b <= c /\ b # 0 /\ c \in Nat
    BY <1>2, <2>1, <2>2, BufferCount, Zenon
  <2>4. b \in 1 .. c
    BY <2>3
  <2> QED BY <2>2, <2>4, Zenon
<1>4. \A i : LatestTo(calls, m, i) = LatestTo(calls, k, i)
  BY <1>1, Zenon DEF LatestTo
<1>5. Len(Append(outs, e)) = BufferOf(calls, m)
  <2>1. BufferOf(calls, m) = BufferOf(calls, k) + 1
    BY BufferNext
  <2> QED BY <1>2, <2>1, Zenon
<1> QED BY <1>1, <1>2, <1>3, <1>4, <1>5, Zenon

\* A replay writes the newest buffer.
LEMMA ReplayWrites ==
  ASSUME NEW calls, NEW kv_length \in Nat, NEW k \in Nat, NEW m, m = k + 1,
         calls[m].op = "replay", NEW O, NEW outs \in Seq(O), outs # << >>,
         AllReplayed(calls, k), BuffersHold(kv_length, calls, k, outs),
         NEW new, new = [outs EXCEPT ![Len(outs)] = Context(kv_length, calls[m].ids)]
  PROVE  AllReplayed(calls, m) /\ BuffersHold(kv_length, calls, m, new)
<1> USE DEF AllReplayed, BuffersHold
<1> PICK n, c : n = Len(outs) /\ c = Context(kv_length, calls[m].ids)
  OBVIOUS
<1>1. n \in Nat \ {0} /\ DOMAIN outs = 1 .. n /\ outs \in [1 .. n -> O]
  <2>1. outs # << >> => Len(outs) # 0
    OBVIOUS
  <2> QED BY <2>1
<1>2. new = [outs EXCEPT ![n] = c]
  BY Zenon
<1>3. DOMAIN new = 1 .. n /\ new[n] = c /\ \A b \in 1 .. n : b # n => new[b] = outs[b]
  BY <1>1, <1>2
<1>4. Len(new) = n
  <2>1. new \in [1 .. n -> O \cup {c}]
    BY <1>1, <1>2
  <2>2. n \in Nat
    BY <1>1
  <2>3. new \in Seq(O \cup {c})
    <3>1. PICK P : P = O \cup {c}
      OBVIOUS
    <3>2. \E l \in Nat : new \in [1 .. l -> P]
      BY <2>1, <2>2, <3>1, Zenon
    <3>3. \A s : (\E l \in Nat : s \in [1 .. l -> P]) => s \in Seq(P)
      BY SeqDef
    <3> QED BY <3>1, <3>2, <3>3, Zenon
  <2>4. \A S : \A s \in Seq(S) : Len(s) \in Nat /\ DOMAIN s = 1 .. Len(s)
    OBVIOUS
  <2>5. PICK l \in Nat : l = Len(new) /\ 1 .. l = 1 .. n
    BY <1>3, <2>3, <2>4, Zenon
  <2>6. l = n
    BY <1>1, <2>5
  <2> QED BY <2>5, <2>6
<1>5. BufferOf(calls, m) = n /\ BufferOf(calls, k) = n
  <2>1. "replay" # "capture"
    OBVIOUS
  <2> QED BY <2>1, BufferNext, Zenon
<1>6. ReplaysTo(calls, m) = ReplaysTo(calls, k) \cup {m} /\ m \notin ReplaysTo(calls, k)
  BY DEF ReplaysTo
<1>7. ASSUME NEW i \in ReplaysTo(calls, k)
      PROVE  BufferOf(calls, i) \in 1 .. n
  <2>1. i \in Nat /\ i <= k
    BY DEF ReplaysTo
  <2>2. PICK b : b = BufferOf(calls, i)
    OBVIOUS
  <2>3. b \in Nat /\ b <= n /\ b # 0
    BY <1>5, <2>1, <2>2, BufferCount, Zenon
  <2>4. b \in 1 .. n
    BY <1>1, <2>3
  <2> QED BY <2>2, <2>4, Zenon
<1>8. ASSUME NEW i, BufferOf(calls, i) = n
      PROVE  LatestTo(calls, m, i) = m
  <2>1. PICK T : T = { j \in ReplaysTo(calls, m) : BufferOf(calls, j) = BufferOf(calls, i) }
    OBVIOUS
  <2>2. m \in T
    BY <1>5, <1>6, <1>8, <2>1, Zenon
  <2>3. T \in SUBSET Int /\ \A j \in T : j <= m
    BY <2>1 DEF ReplaysTo
  <2>4. Max(T) = m
    BY <2>2, <2>3, MaxIs
  <2> QED BY <2>1, <2>4, Zenon DEF LatestTo
<1>9. ASSUME NEW i, BufferOf(calls, i) # n
      PROVE  LatestTo(calls, m, i) = LatestTo(calls, k, i)
  <2>1. { j \in ReplaysTo(calls, m) : BufferOf(calls, j) = BufferOf(calls, i) }
          = { j \in ReplaysTo(calls, k) : BufferOf(calls, j) = BufferOf(calls, i) }
    BY <1>5, <1>6, <1>9
  <2> QED BY <2>1, Zenon DEF LatestTo
<1>10. \A i \in ReplaysTo(calls, m) : BufferOf(calls, i) # 0
  BY <1>1, <1>5, <1>6
<1>11. ASSUME NEW i \in ReplaysTo(calls, m)
       PROVE  new[BufferOf(calls, i)] = Context(kv_length, calls[LatestTo(calls, m, i)].ids)
  <2>1. CASE BufferOf(calls, i) = n
    BY <1>3, <1>8, <2>1, Zenon
  <2>2. CASE BufferOf(calls, i) # n
    <3>1. i \in ReplaysTo(calls, k)
      BY <1>5, <1>6, <2>2
    <3> QED BY <1>3, <1>7, <1>9, <2>2, <3>1, Zenon
  <2> QED BY <2>1, <2>2
<1> QED BY <1>4, <1>5, <1>10, <1>11, Zenon

\* A call takes what is true after k calls to what is true after k + 1.
LEMMA CallStep ==
  ASSUME NEW Ids, NEW kv_length \in Nat, NEW calls, NEW k \in Nat, NEW m, m = k + 1,
         calls[m] \in [op : {"capture", "replay"}, ids : Ids],
         NEW r \in RunnersOf(Ids, kv_length), RunnerIs(kv_length, calls, k, r)
  PROVE  RunnerIs(kv_length, calls, m, Called(r, calls[m]))
<1> PICK call, after : call = calls[m] /\ after = Called(r, call)
  OBVIOUS
<1> PICK outs : outs = r.static_outputs
  OBVIOUS
<1>1. /\ r.raised => after = r
      /\ ~ r.raised /\ call.op = "capture" /\ OffTable(kv_length) => after.raised
      /\ ~ r.raised /\ call.op = "capture" /\ ~ OffTable(kv_length) =>
           ~ after.raised /\ after.static_outputs = Append(outs, Unset)
      /\ ~ r.raised /\ call.op = "replay" /\ outs = << >> => after.raised
      /\ ~ r.raised /\ call.op = "replay" /\ outs # << >> =>
           /\ ~ after.raised
           /\ after.static_outputs = [outs EXCEPT ![Len(outs)] = Context(kv_length, call.ids)]
  <2>1. CallMakes(kv_length, r, call, after)
    BY CalledEffect, Zenon
  <2> QED BY <2>1, Zenon DEF CallMakes
<1>2. PICK O : O = {Unset} \cup { Context(kv_length, a) : a \in Ids }
  OBVIOUS
<1>3. outs \in Seq(O) /\ Unset \in O
  BY <1>2 DEF RunnersOf
<1>4. m > 0 /\ ReplaysTo(calls, k) \subseteq ReplaysTo(calls, m) /\ m \in 1 .. m
  BY DEF ReplaysTo
<1>5. CASE r.raised
  <2>1. Misused(kv_length, calls, m)
    BY <1>4, <1>5, Zenon DEF RunnerIs, Misused, AllReplayed
  <2> QED BY <1>1, <1>5, <2>1, Zenon DEF RunnerIs
<1>6. ASSUME ~ r.raised
      PROVE  /\ AllReplayed(calls, k) /\ ~ (OffTable(kv_length) /\ k > 0)
             /\ BuffersHold(kv_length, calls, k, outs)
  BY <1>6, Zenon DEF RunnerIs, Misused
<1>7. CASE ~ r.raised /\ call.op = "capture"
  <2>1. CASE OffTable(kv_length)
    <3>1. Misused(kv_length, calls, m)
      BY <1>4, <2>1, Zenon DEF Misused
    <3> QED BY <1>1, <1>7, <2>1, <3>1, Zenon DEF RunnerIs
  <2>2. CASE ~ OffTable(kv_length)
    <3>1. AllReplayed(calls, m) /\ BuffersHold(kv_length, calls, m, Append(outs, Unset))
      BY <1>3, <1>6, <1>7, CaptureKeeps
    <3>2. ~ Misused(kv_length, calls, m)
      BY <2>2, <3>1, Zenon DEF Misused
    <3> QED BY <1>1, <1>7, <2>2, <3>1, <3>2, Zenon DEF RunnerIs
  <2> QED BY <2>1, <2>2
<1>8. CASE ~ r.raised /\ call.op = "replay"
  <2>1. CASE outs = << >>
    <3>1. BufferOf(calls, m) = 0
      <4>1. Len(<< >>) = 0
        OBVIOUS
      <4>2. BufferOf(calls, k) = 0
        BY <1>6, <1>8, <2>1, <4>1, Zenon DEF BuffersHold
      <4>3. BufferOf(calls, m) = BufferOf(calls, k)
        BY <1>8, BufferNext
      <4> QED BY <4>2, <4>3, Zenon
    <3>2. m \in ReplaysTo(calls, m)
      BY <1>4, <1>8, Zenon DEF ReplaysTo
    <3>3. Misused(kv_length, calls, m)
      BY <3>1, <3>2, Zenon DEF Misused, AllReplayed
    <3> QED BY <1>1, <1>8, <2>1, <3>3, Zenon DEF RunnerIs
  <2>2. CASE outs # << >>
    <3>1. PICK new : new = [outs EXCEPT ![Len(outs)] = Context(kv_length, calls[m].ids)]
      OBVIOUS
    <3>2. AllReplayed(calls, m) /\ BuffersHold(kv_length, calls, m, new)
      BY <1>3, <1>6, <1>8, <2>2, <3>1, ReplayWrites
    <3>3. ~ OffTable(kv_length)
      <4>1. Len(outs) \in Nat /\ Len(outs) # 0
        BY <1>3, <2>2
      <4>2. PICK b : b = BufferOf(calls, k)
        OBVIOUS
      <4>3. k <= k
        OBVIOUS
      <4>4. b \in Nat /\ b # 0 /\ b <= k
        BY <1>6, <1>8, <4>1, <4>2, <4>3, BufferCount, Zenon DEF BuffersHold
      <4>5. k > 0
        BY <4>4
      <4> QED BY <1>6, <1>8, <4>5, Zenon
    <3>4. ~ Misused(kv_length, calls, m)
      BY <3>2, <3>3, Zenon DEF Misused
    <3> QED BY <1>1, <1>8, <2>2, <3>1, <3>2, <3>4, Zenon DEF RunnerIs
  <2> QED BY <2>1, <2>2
<1>9. call.op = "capture" \/ call.op = "replay"
  OBVIOUS
<1> QED BY <1>5, <1>7, <1>8, <1>9, Zenon

\* A replay yields what a forward of its own ids yields, after any history of
\* captures and replays, of any length and with ids of any kind; it raises without
\* a capture, and no graph is ever made of a position outside the table.
THEOREM ReplaysAreForwards ==
  ASSUME NEW Ids, NEW kv_length \in Nat, NEW calls \in HistoryOf(Ids)
  PROVE  ReplayIsForward(kv_length, calls)
<1>1. PICK g : History(kv_length, calls, g) /\ After(kv_length, calls) = g[DOMAIN calls]
  BY HistoryExists, AfterUnfolds, Zenon
<1>2. PICK C : C = [op : {"capture", "replay"}, ids : Ids] /\ calls \in Seq(C)
  BY DEF HistoryOf
<1>3. PICK n \in Nat : n = Len(calls) /\ DOMAIN calls = 1 .. n /\ \A i \in 1 .. n : calls[i] \in C
  <2>1. \A s \in Seq(C) : Len(s) \in Nat /\ DOMAIN s = 1 .. Len(s) /\ \A i \in 1 .. Len(s) : s[i] \in C
    OBVIOUS
  <2> QED BY <1>2, <2>1, Zenon
<1>4. \A T \in SUBSET (1 .. n) :
        g[T] = IF T = {} THEN FreshRunner(kv_length) ELSE Called(g[T \ {Max(T)}], calls[Max(T)])
  <2>1. g = [T \in SUBSET (1 .. n) |->
               IF T = {} THEN FreshRunner(kv_length) ELSE Called(g[T \ {Max(T)}], calls[Max(T)])]
    BY <1>1, <1>3, Zenon DEF History
  <2> QED BY <2>1, Zenon
<1> DEFINE Good(k) == /\ g[1 .. k] \in RunnersOf(Ids, kv_length)
                      /\ RunnerIs(kv_length, calls, k, g[1 .. k])
           Bad == { k \in Nat : k <= n /\ ~ Good(k) }
<1>5. Good(0)
  <2>1. 1 .. 0 = {} /\ {} \in SUBSET (1 .. n)
    OBVIOUS
  <2>2. g[1 .. 0] = FreshRunner(kv_length)
    BY <1>4, <2>1, Zenon
  <2>3. FreshRunner(kv_length) \in RunnersOf(Ids, kv_length)
    BY DEF FreshRunner, RunnersOf
  <2>4. ~ FreshRunner(kv_length).raised /\ Len(FreshRunner(kv_length).static_outputs) = 0
    BY DEF FreshRunner
  <2>5. ReplaysTo(calls, 0) = {} /\ ~ (0 > 0)
    BY DEF ReplaysTo
  <2>6. BufferOf(calls, 0) = 0
    BY BufferNext, 0 \in Nat
  <2>7. RunnerIs(kv_length, calls, 0, FreshRunner(kv_length))
    BY <2>4, <2>5, <2>6, Zenon DEF RunnerIs, Misused, AllReplayed, BuffersHold
  <2> QED BY <2>2, <2>3, <2>7, Zenon
<1>6. ASSUME NEW k \in Nat, NEW m, m = k + 1, m <= n, Good(k)
      PROVE  Good(m)
  <2>1. /\ 1 .. m \in SUBSET (1 .. n) /\ 1 .. m # {} /\ Max(1 .. m) = m /\ (1 .. m) \ {m} = 1 .. k
    BY <1>6, UpToNext
  <2>2. g[1 .. m] = Called(g[1 .. k], calls[m])
    BY <1>4, <2>1, Zenon
  <2>3. m \in 1 .. n
    BY <1>6
  <2>4. calls[m] \in [op : {"capture", "replay"}, ids : Ids]
    BY <1>2, <1>3, <2>3, Zenon
  <2>5. Called(g[1 .. k], calls[m]) \in RunnersOf(Ids, kv_length)
    BY <1>6, <2>4, CalledType, Zenon
  <2>6. RunnerIs(kv_length, calls, m, Called(g[1 .. k], calls[m]))
    BY <1>6, <2>4, CallStep, Zenon
  <2> QED BY <2>2, <2>5, <2>6, Zenon
<1>7. Bad = {}
  <2> SUFFICES ASSUME Bad # {} PROVE FALSE
    OBVIOUS
  <2>1. Bad \in SUBSET Nat
    OBVIOUS
  <2> HIDE DEF Good
  <2>2. PICK m \in Bad : \A k \in Nat : k < m => k \notin Bad
    <3> HIDE DEF Bad
    <3> QED BY <2>1, FirstNat
  <2>3. m \in Nat /\ m <= n /\ ~ Good(m)
    OBVIOUS
  <2>4. m # 0
    BY <1>5, <2>3
  <2>5. PICK k \in Nat : m = k + 1
    <3>1. m - 1 \in Nat /\ m = (m - 1) + 1
      BY <2>3, <2>4
    <3> QED BY <3>1
  <2>6. k < m /\ k <= n
    BY <2>3, <2>5
  <2>7. Good(k)
    BY <2>2, <2>6
  <2> QED BY <1>6, <2>3, <2>5, <2>7
<1>8. Good(n)
  <2> HIDE DEF Good
  <2>1. n <= n
    OBVIOUS
  <2> QED BY <1>7, <2>1, Zenon
<1> PICK r : r = After(kv_length, calls)
  OBVIOUS
<1>9. RunnerIs(kv_length, calls, n, r) /\ r \in RunnersOf(Ids, kv_length)
  BY <1>1, <1>3, <1>8, Zenon
<1>10. PICK replays : replays = { i \in 1 .. Len(calls) : calls[i].op = "replay" }
  OBVIOUS
<1>11. ReplaysTo(calls, n) = replays
  BY <1>3, <1>10, Zenon DEF ReplaysTo
<1>12. n > 0 <=> calls # << >>
  BY <1>2, <1>3
<1>13. r.raised = (\/ \E i \in replays : BufferOf(calls, i) = 0
                   \/ kv_length >= PositionTable /\ calls # << >>)
  <2>1. r.raised \in BOOLEAN
    BY <1>9 DEF RunnersOf
  <2>2. r.raised <=> \/ \E i \in replays : BufferOf(calls, i) = 0
                     \/ kv_length >= PositionTable /\ calls # << >>
    BY <1>9, <1>11, <1>12, Zenon DEF RunnerIs, Misused, AllReplayed, OffTable
  <2> QED BY <2>1, <2>2, Zenon
<1>14. \A i : LatestTo(calls, n, i) = Max({ j \in replays : BufferOf(calls, j) = BufferOf(calls, i) })
  BY <1>11, Zenon DEF LatestTo
<1>15. ~ r.raised => \A i \in replays :
         r.static_outputs[BufferOf(calls, i)] =
           [c \in 1 .. kv_length |-> Noise]
             \o <<calls[Max({ j \in replays : BufferOf(calls, j) = BufferOf(calls, i) })].ids>>
  BY <1>9, <1>11, <1>14, Zenon DEF RunnerIs, BuffersHold, Context
<1> QED BY <1>10, <1>13, <1>15, Zenon DEF ReplayIsForward

\* And so for the histories of the run, whatever its bound on the calls.
THEOREM GraphsAreFaithfulHolds == MCSpec => []GraphsAreFaithful
<1>1. input \in Inputs \cup {<<"verify", None>>} => GraphsAreFaithful
  <2> SUFFICES ASSUME input \in Inputs \cup {<<"verify", None>>}, input[1] = "graph"
               PROVE  ReplayIsForward(input[2].kv_length, input[2].calls)
    BY DEF GraphsAreFaithful, Given
  <2>1. PICK c : c = input[2] /\ c \in Runners
    BY InputKinds
  <2>2. c.kv_length \in Nat /\ c.calls \in SeqOf(Calls, MaxCalls)
    BY <2>1, GraphAssumption DEF Runners
  <2>3. Calls \in SUBSET [op : {"capture", "replay"}, ids : {"none", "a", "b"}]
    BY DEF Calls
  <2>4. c.calls \in HistoryOf({"none", "a", "b"})
    <3>1. PICK k \in 0 .. MaxCalls : c.calls \in [1 .. k -> Calls]
      BY <2>2 DEF SeqOf
    <3>2. k \in Nat
      BY BoundsAssumption
    <3>3. PICK C : C = [op : {"capture", "replay"}, ids : {"none", "a", "b"}] /\ Calls \in SUBSET C
      BY <2>3
    <3>4. c.calls \in [1 .. k -> C]
      BY <3>1, <3>3
    <3>5. c.calls \in Seq(C)
      BY <3>2, <3>4, SeqDef
    <3> QED BY <3>3, <3>5, Zenon DEF HistoryOf
  <2> QED BY <2>1, <2>2, <2>4, ReplaysAreForwards, Zenon
<1> QED BY <1>1, InputsStay, PTL

-----------------------------------------------------------------------------
(* top-k, top-p and the drivers of generation.                             *)

\* o lists the n tokens of S, the likelier ones first.
IsRanking(row, o, S, n) ==
    /\ o \in [1 .. n -> S] /\ IsOneToOne(o, 1 .. n)
    /\ \A i, j \in 1 .. n : i < j => row[o[i]] >= row[o[j]]

LEMMA VocabularySize == V \in Nat \ {0} /\ V = Cardinality(Tokens)
<1>1. IsFiniteSet(Tokens) /\ Tokens # {}
  BY SamplingAssumption
<1>2. Cardinality(Tokens) \in Nat /\ Cardinality(Tokens) # 0
  BY <1>1, FS_CardinalityType, FS_EmptySet, Zenon
<1> QED BY <1>2 DEF V

LEMMA PositionsFinite ==
  ASSUME NEW n \in Int
  PROVE  IsFiniteSet(1 .. n)
<1>1. \A lo, hi \in Int : IsFiniteSet(lo .. hi)
  BY FS_Interval
<1>2. 1 \in Int
  OBVIOUS
<1> QED BY <1>1, <1>2, Zenon

\* The least likely token goes to the end.
LEMMA RankingGrows ==
  ASSUME NEW row, NEW S, NEW t \in S, \A u \in S : row[u] \in Nat /\ row[t] <= row[u],
         NEW m \in Nat, NEW n, n = m + 1, NEW s, IsRanking(row, s, S \ {t}, m)
  PROVE  \E o : IsRanking(row, o, S, n)
<1> DEFINE o == [i \in 1 .. n |-> IF i = n THEN t ELSE s[i]]
<1>1. s \in [1 .. m -> S \ {t}] /\ IsOneToOne(s, 1 .. m)
      /\ \A i, j \in 1 .. m : i < j => row[s[i]] >= row[s[j]]
  BY DEF IsRanking
<1>2. n \in 1 .. n /\ \A i \in 1 .. n : i # n => i \in 1 .. m
  OBVIOUS
<1>3. o \in [1 .. n -> S] /\ o[n] = t /\ \A i \in 1 .. n : i # n => o[i] = s[i] /\ o[i] \in S \ {t}
  BY <1>1, <1>2
<1> HIDE DEF o
<1>4. IsOneToOne(o, 1 .. n)
  <2> SUFFICES ASSUME NEW i \in 1 .. n, NEW j \in 1 .. n, i # j PROVE o[i] # o[j]
    BY DEF IsOneToOne
  <2>1. CASE i = n
    BY <1>3, <2>1
  <2>2. CASE j = n
    BY <1>3, <2>2
  <2>3. CASE i # n /\ j # n
    BY <1>1, <1>2, <1>3, <2>3 DEF IsOneToOne
  <2> QED BY <2>1, <2>2, <2>3
<1>5. ASSUME NEW i \in 1 .. n, NEW j \in 1 .. n, i < j
      PROVE  row[o[i]] >= row[o[j]]
  <2>1. i # n
    BY <1>5
  <2>2. CASE j = n
    BY <1>3, <2>1, <2>2
  <2>3. CASE j # n
    BY <1>1, <1>2, <1>3, <1>5, <2>1, <2>3
  <2> QED BY <2>2, <2>3
<1> QED BY <1>3, <1>4, <1>5, Zenon DEF IsRanking

LEMMA RankingExists ==
  ASSUME NEW row \in [Tokens -> Nat]
  PROVE  \E o : IsRanking(row, o, Tokens, V)
<1> DEFINE Unranked == { S \in SUBSET Tokens : ~ \E o : IsRanking(row, o, S, Cardinality(S)) }
           Bad == { Cardinality(S) : S \in Unranked }
<1>1. ASSUME NEW S \in SUBSET Tokens
      PROVE  /\ IsFiniteSet(S) /\ Cardinality(S) \in Nat
             /\ \A t \in S : Cardinality(S \ {t}) = Cardinality(S) - 1
  <2>1. IsFiniteSet(S)
    BY SamplingAssumption, FS_Subset, Zenon
  <2> QED BY <2>1, FS_CardinalityType, FS_RemoveElement
<1> SUFFICES ASSUME ~ \E o : IsRanking(row, o, Tokens, V) PROVE FALSE
  OBVIOUS
<1>2. Tokens \in Unranked
  BY VocabularySize, Zenon
<1>3. Bad # {} /\ Bad \in SUBSET Nat
  BY <1>1, <1>2
<1>4. PICK n \in Bad : \A m \in Nat : m < n => m \notin Bad
  <2> HIDE DEF Bad
  <2> QED BY <1>3, FirstNat
<1>5. PICK S \in SUBSET Tokens : n = Cardinality(S) /\ ~ \E o : IsRanking(row, o, S, n)
  OBVIOUS
<1> HIDE DEF Bad, Unranked
<1>6. n # 0
  <2> SUFFICES ASSUME n = 0 PROVE FALSE
    OBVIOUS
  <2>1. PICK o : o = [i \in 1 .. 0 |-> 0]
    OBVIOUS
  <2>2. o \in [1 .. 0 -> S] /\ \A i \in 1 .. 0 : FALSE
    BY <2>1
  <2>3. IsRanking(row, o, S, 0)
    BY <2>2, Zenon DEF IsRanking, IsOneToOne
  <2> QED BY <1>5, <2>3, Zenon
<1>7. S # {}
  BY <1>5, <1>6, FS_EmptySet, Zenon
<1>8. PICK t \in S : \A u \in S : row[u] \in Nat /\ row[t] <= row[u]
  <2>1. PICK R : R = { row[u] : u \in S }
    OBVIOUS
  <2>2. R \in SUBSET Nat /\ R # {}
    BY <1>7, <2>1
  <2>3. Min(R) \in R /\ \A y \in R : Min(R) <= y
    BY <2>2, MinNat
  <2>4. PICK t \in S : row[t] = Min(R)
    BY <2>1, <2>3
  <2> QED BY <2>1, <2>2, <2>3, <2>4
<1>9. PICK m : m = Cardinality(S \ {t}) /\ m \in Nat /\ n = m + 1 /\ n \in Nat
  <2>1. S \ {t} \in SUBSET Tokens
    OBVIOUS
  <2>2. PICK c : c = Cardinality(S \ {t}) /\ c \in Nat
    BY <1>1, <2>1, Zenon
  <2>3. c = n - 1 /\ n \in Nat
    BY <1>1, <1>5, <2>2, Zenon
  <2>4. n = c + 1
    BY <2>2, <2>3
  <2> QED BY <2>2, <2>3, <2>4
<1>10. PICK o : IsRanking(row, o, S \ {t}, m)
  <2>1. m \notin Bad
    <3>1. m < n
      BY <1>9
    <3> QED BY <1>4, <1>9, <3>1, Zenon
  <2>2. S \ {t} \notin Unranked
    BY <1>9, <2>1 DEF Bad
  <2>3. S \ {t} \in SUBSET Tokens
    OBVIOUS
  <2> QED BY <1>9, <2>2, <2>3, Zenon DEF Unranked
<1>11. \E r : IsRanking(row, r, S, n)
  BY <1>8, <1>9, <1>10, RankingGrows
<1> QED BY <1>5, <1>11, Zenon

LEMMA OrdersAre ==
  ASSUME NEW row
  PROVE  \A o : o \in SortedOrders(row) <=> IsRanking(row, o, Tokens, V)
  BY Zenon DEF SortedOrders, SetToSeqs, IsRanking, IsOneToOne, V

\* A ranking has every token at one place.
LEMMA RankingCovers ==
  ASSUME NEW row, NEW o, IsRanking(row, o, Tokens, V)
  PROVE  /\ ImageOf(o, 1 .. V) = Tokens
         /\ \A t \in Tokens : \E i \in 1 .. V : o[i] = t
         /\ \A i, j \in 1 .. V : o[i] = o[j] => i = j
<1>1. o \in [1 .. V -> Tokens] /\ IsOneToOne(o, 1 .. V)
  BY DEF IsRanking
<1>2. IsFiniteSet(1 .. V) /\ Cardinality(1 .. V) = V
  <2>1. PICK n \in Nat : n = V
    BY VocabularySize
  <2>2. 1 \in Int /\ n \in Int
    OBVIOUS
  <2>3. PICK c : c = Cardinality(1 .. n)
    OBVIOUS
  <2>4. IsFiniteSet(1 .. n) /\ c = IF 1 > n THEN 0 ELSE n - 1 + 1
    BY <2>2, <2>3, FS_Interval, Zenon
  <2>5. c = n
    BY <2>4
  <2> QED BY <2>1, <2>3, <2>4, <2>5, Zenon
<1>3. PICK I : I = ImageOf(o, 1 .. V)
  OBVIOUS
<1>4. IsFiniteSet(I) /\ Cardinality(I) = V
  BY <1>1, <1>2, <1>3, ImageCount, Zenon
<1>5. I \in SUBSET Tokens
  BY <1>1, <1>3 DEF ImageOf
<1>6. I = Tokens
  BY <1>4, <1>5, VocabularySize, SamplingAssumption, FS_Subset, Zenon
<1>7. \A t \in Tokens : \E i \in 1 .. V : o[i] = t
  BY <1>3, <1>6 DEF ImageOf
<1>8. \A i, j \in 1 .. V : o[i] = o[j] => i = j
  BY <1>1, Zenon DEF IsOneToOne
<1> QED BY <1>3, <1>6, <1>7, <1>8, Zenon

\* Tokens likelier than t.
Likelier(row, t) == { u \in Tokens : row[u] > row[t] }

\* Where sampling.py finds the threshold.
ClampK(k) == Min({Max({k, 1}), V})

LEMMA ClampIs ==
  ASSUME NEW k \in Nat
  PROVE  /\ ClampK(k) \in 1 .. V
         /\ ClampK(k) = IF k = 0 THEN 1 ELSE IF k <= V THEN k ELSE V
         /\ Max({k, 1}) = IF k = 0 THEN 1 ELSE k
         /\ k >= 1 => ClampK(k) = Min({k, V})
<1>1. V \in Nat \ {0}
  BY VocabularySize
<1> PICK n \in Nat \ {0} : n = V
  BY <1>1
<1>2. PICK m : m = Max({k, 1})
  OBVIOUS
<1>3. m = IF k <= 1 THEN 1 ELSE k
  BY <1>2, MinMaxPair
<1>4. m \in Nat \ {0} /\ m = IF k = 0 THEN 1 ELSE k
  BY <1>3
<1>5. PICK c : c = Min({m, n})
  OBVIOUS
<1>6. c = IF m <= n THEN m ELSE n
  BY <1>4, <1>5, MinMaxPair
<1>7. c \in 1 .. n /\ c = IF k = 0 THEN 1 ELSE IF k <= n THEN k ELSE n
  BY <1>4, <1>6
<1>8. ClampK(k) = c
  BY <1>2, <1>5, Zenon DEF ClampK
<1>9. k >= 1 => m = k
  BY <1>4
<1> QED BY <1>2, <1>4, <1>5, <1>7, <1>8, <1>9, Zenon

\* Fewer than K tokens are likelier than t just when t reaches the K-th largest.
LEMMA ThresholdCounts ==
  ASSUME NEW row \in [Tokens -> Nat], NEW o, IsRanking(row, o, Tokens, V),
         NEW K \in 1 .. V, NEW t \in Tokens
  PROVE  row[t] >= row[o[K]] <=> Cardinality(Likelier(row, t)) < K
<1> PICK n \in Nat \ {0} : n = V
  BY VocabularySize
<1>1. /\ o \in [1 .. n -> Tokens] /\ IsOneToOne(o, 1 .. n)
      /\ \A i, j \in 1 .. n : i < j => row[o[i]] >= row[o[j]]
  BY DEF IsRanking
<1>2. \A u \in Tokens : \E i \in 1 .. n : o[i] = u
  BY RankingCovers, Zenon
<1>3. ASSUME NEW m \in 0 .. n
      PROVE  IsFiniteSet(ImageOf(o, 1 .. m)) /\ Cardinality(ImageOf(o, 1 .. m)) = m
  <2>1. IsFiniteSet(1 .. m) /\ Cardinality(1 .. m) = m
    <3>1. 1 \in Int /\ m \in Int
      OBVIOUS
    <3>2. PICK c : c = Cardinality(1 .. m)
      OBVIOUS
    <3>3. IsFiniteSet(1 .. m) /\ c = IF 1 > m THEN 0 ELSE m - 1 + 1
      BY <3>1, <3>2, FS_Interval, Zenon
    <3>4. c = m
      BY <3>3
    <3> QED BY <3>2, <3>3, <3>4, Zenon
  <2>2. IsOneToOne(o, 1 .. m)
    BY <1>1 DEF IsOneToOne
  <2> QED BY <2>1, <2>2, ImageCount, Zenon
<1>4. IsFiniteSet(Likelier(row, t)) /\ Cardinality(Likelier(row, t)) \in Nat
  <2>1. Likelier(row, t) \in SUBSET Tokens
    BY DEF Likelier
  <2>2. IsFiniteSet(Likelier(row, t))
    BY <2>1, SamplingAssumption, FS_Subset, Zenon
  <2> QED BY <2>2, FS_CardinalityType
<1>5. PICK L : L = Likelier(row, t) /\ L = { u \in Tokens : row[u] > row[t] }
  BY DEF Likelier
<1>6. ASSUME row[t] >= row[o[K]]
      PROVE  Cardinality(L) < K
  <2>1. PICK m \in 0 .. n : m = K - 1
    OBVIOUS
  <2>2. ASSUME NEW u \in L
        PROVE  u \in ImageOf(o, 1 .. m)
    <3>1. PICK i \in 1 .. n : o[i] = u
      BY <1>2, <1>5
    <3>2. row[o[i]] > row[o[K]] /\ row[o[i]] \in Nat /\ row[o[K]] \in Nat /\ row[t] \in Nat
      BY <1>1, <1>5, <1>6, <3>1
    <3>3. i < K
      <4>1. CASE i = K
        BY <3>2, <4>1
      <4>2. CASE K < i
        BY <1>1, <3>2, <4>2
      <4> QED BY <4>1, <4>2
    <3>4. i \in 1 .. m
      BY <2>1, <3>3
    <3> QED BY <3>1, <3>4 DEF ImageOf
  <2>3. L \in SUBSET ImageOf(o, 1 .. m)
    BY <2>2
  <2>4. Cardinality(L) <= m
    <3>1. PICK I : I = ImageOf(o, 1 .. m) /\ IsFiniteSet(I) /\ Cardinality(I) = m
      BY <1>3, Zenon
    <3>2. L \in SUBSET I
      BY <2>3, <3>1
    <3>3. Cardinality(L) <= Cardinality(I)
      BY <3>1, <3>2, FS_Subset, Zenon
    <3> QED BY <3>1, <3>3
  <2> QED BY <1>4, <1>5, <2>1, <2>4
<1>7. ASSUME ~ (row[t] >= row[o[K]])
      PROVE  ~ (Cardinality(L) < K)
  <2>1. K \in 0 .. n
    OBVIOUS
  <2>2. ASSUME NEW j \in 1 .. K
        PROVE  o[j] \in L
    <3>1. j \in 1 .. n /\ o[j] \in Tokens /\ o[K] \in Tokens
      BY <1>1
    <3>2. row[o[j]] >= row[o[K]]
      <4>1. CASE j = K
        BY <3>1, <4>1
      <4>2. CASE j # K
        BY <1>1, <3>1, <4>2
      <4> QED BY <4>1, <4>2
    <3>3. row[o[j]] \in Nat /\ row[o[K]] \in Nat /\ row[t] \in Nat
      BY <3>1
    <3>4. row[o[j]] > row[t]
      BY <1>7, <3>2, <3>3
    <3> QED BY <1>5, <3>1, <3>4
  <2>3. ImageOf(o, 1 .. K) \in SUBSET L
    BY <2>2 DEF ImageOf
  <2>4. Cardinality(ImageOf(o, 1 .. K)) <= Cardinality(L)
    BY <1>4, <1>5, <2>3, FS_Subset, Zenon
  <2>5. PICK c : c = Cardinality(L) /\ c \in Nat
    BY <1>4, <1>5, Zenon
  <2>6. K <= c
    BY <1>3, <2>1, <2>4, <2>5, Zenon
  <2>7. ~ (c < K)
    BY <2>5, <2>6
  <2> QED BY <2>5, <2>7, Zenon
<1> QED BY <1>5, <1>6, <1>7, Zenon

\* Nobody is likelier than the likeliest, and never all are.
LEMMA LikelierFew ==
  ASSUME NEW row \in [Tokens -> Nat], NEW t \in Tokens
  PROVE  Cardinality(Likelier(row, t)) \in Nat /\ Cardinality(Likelier(row, t)) < V
<1>1. PICK L : L = Likelier(row, t)
  OBVIOUS
<1>2. L \in SUBSET Tokens /\ L # Tokens
  BY <1>1 DEF Likelier
<1>3. IsFiniteSet(Tokens) /\ V = Cardinality(Tokens) /\ V \in Nat
  BY SamplingAssumption, VocabularySize
<1>4. IsFiniteSet(L) /\ Cardinality(L) <= V /\ Cardinality(L) # V
  BY <1>2, <1>3, FS_Subset, Zenon
<1>5. PICK c : c = Cardinality(L) /\ c \in Nat
  BY <1>4, FS_CardinalityType
<1>6. c < V
  BY <1>3, <1>4, <1>5
<1> QED BY <1>1, <1>5, <1>6, Zenon

\* top-k keeps the tokens that fewer than k are likelier than, and so does the
\* filter of the reference.
LEMMA TopKIs ==
  ASSUME NEW row \in [Tokens -> Nat], NEW k \in Nat
  PROVE  /\ ApplyTopK(row, k) = [t \in Tokens |-> IF t \in AmongTop(row, k) THEN row[t] ELSE 0]
         /\ k >= 1 => ReferenceTopK(row, k) = ApplyTopK(row, k)
<1>1. PICK o : IsRanking(row, o, Tokens, V) /\ o = CHOOSE s \in SortedOrders(row) : TRUE
  <2>1. \E s : s \in SortedOrders(row)
    BY RankingExists, OrdersAre, Zenon
  <2>2. (CHOOSE s \in SortedOrders(row) : TRUE) \in SortedOrders(row)
    BY <2>1, Zenon
  <2> QED BY <2>2, OrdersAre, Zenon
<1>2. PICK K \in 1 .. V : K = ClampK(k)
  BY ClampIs
<1>3. ApplyTopK(row, k) = [t \in Tokens |-> IF row[t] < row[o[K]] THEN 0 ELSE row[t]]
  BY <1>1, <1>2, Zenon DEF ApplyTopK, ClampK
<1>4. ASSUME NEW t \in Tokens
      PROVE  /\ row[t] < row[o[K]] <=> ~ (Cardinality(Likelier(row, t)) < K)
             /\ t \in AmongTop(row, k) <=> Cardinality(Likelier(row, t)) < K
  <2>1. row[t] >= row[o[K]] <=> Cardinality(Likelier(row, t)) < K
    BY <1>1, ThresholdCounts, Zenon
  <2>2. o[K] \in Tokens
    BY <1>1 DEF IsRanking
  <2>3. row[t] \in Nat /\ row[o[K]] \in Nat
    BY <2>2
  <2>4. row[t] < row[o[K]] <=> ~ (row[t] >= row[o[K]])
    BY <2>3
  <2>5. t \in AmongTop(row, k) <=> Cardinality(Likelier(row, t)) < Max({k, 1})
    BY Zenon DEF AmongTop, Likelier
  <2>6. PICK c, n, m : c = Cardinality(Likelier(row, t)) /\ n = V /\ m = Max({k, 1})
    OBVIOUS
  <2>7. c \in Nat /\ c < n /\ n \in Nat
    BY <2>6, LikelierFew, VocabularySize, Zenon
  <2>8. K = (IF k = 0 THEN 1 ELSE IF k <= n THEN k ELSE n) /\ m = IF k = 0 THEN 1 ELSE k
    BY <1>2, <2>6, ClampIs, Zenon
  <2>9. c < m <=> c < K
    BY <2>7, <2>8
  <2> QED BY <2>1, <2>4, <2>5, <2>6, <2>9, Zenon
<1>5. [t \in Tokens |-> IF row[t] < row[o[K]] THEN 0 ELSE row[t]]
        = [t \in Tokens |-> IF t \in AmongTop(row, k) THEN row[t] ELSE 0]
  BY <1>4, Zenon
<1>6. ASSUME k >= 1
      PROVE  ReferenceTopK(row, k) = [t \in Tokens |-> IF row[t] < row[o[K]] THEN 0 ELSE row[t]]
  <2>1. Min({k, V}) = K
    BY <1>2, <1>6, ClampIs, Zenon
  <2>2. ReferenceTopK(row, k) =
          [t \in Tokens |-> IF Cardinality(Likelier(row, t)) < K THEN row[t] ELSE 0]
    BY <2>1, Zenon DEF ReferenceTopK, Likelier
  <2> QED BY <1>4, <2>2, Zenon
<1> QED BY <1>3, <1>5, <1>6, Zenon

LEMMA TimesMonotone ==
  ASSUME NEW a \in Nat, NEW b \in Nat, NEW c \in Nat, a <= b
  PROVE  c * a \in Nat /\ c * b \in Nat /\ c * a <= c * b
<1>1. b = a + (b - a) /\ b - a \in Nat
  OBVIOUS
<1> PICK d \in Nat : b = a + d
  BY <1>1
<1>2. c * a \in Nat /\ c * d \in Nat /\ c * (a + d) = c * a + c * d
  OBVIOUS
<1>3. PICK m \in Nat, n \in Nat : m = c * a /\ n = c * d /\ c * b = m + n
  BY <1>2
<1> QED BY <1>3

\* The mass before a place is that of the tokens listed before it.
LEMMA BeforeIs ==
  ASSUME NEW g \in [Tokens -> Nat], NEW o, IsRanking(g, o, Tokens, V), NEW n \in 0 .. V
  PROVE  /\ SumFunctionOnSet([j \in 1 .. V |-> g[o[j]]], 1 .. n) = SumFunctionOnSet(g, ImageOf(o, 1 .. n))
         /\ SumFunctionOnSet(g, ImageOf(o, 1 .. n)) \in Nat
         /\ IsFiniteSet(ImageOf(o, 1 .. n)) /\ ImageOf(o, 1 .. n) \in SUBSET Tokens
<1>1. V \in Nat
  BY VocabularySize
<1>2. o \in [1 .. V -> Tokens] /\ IsOneToOne(o, 1 .. V)
  BY DEF IsRanking
<1>3. 1 .. n \in SUBSET (1 .. V)
  BY <1>1
<1>4. IsOneToOne(o, 1 .. n) /\ ImageOf(o, 1 .. n) \in SUBSET Tokens
  BY <1>2, <1>3 DEF IsOneToOne, ImageOf
<1>5. IsFiniteSet(1 .. n)
  BY PositionsFinite
<1>6. IsFiniteSet(Tokens) /\ \A t \in Tokens : g[t] \in Nat
  BY SamplingAssumption
<1>7. IsFiniteSet(ImageOf(o, 1 .. n))
  BY <1>4, <1>6, FS_Subset, Zenon
<1> PICK h : h = [j \in 1 .. V |-> g[o[j]]]
  OBVIOUS
<1>8. \A j \in 1 .. n : h[j] = g[o[j]]
  BY <1>3
<1>9. ImageOf(o, 1 .. n) \subseteq Tokens
  BY <1>4
<1>10. SumFunctionOnSet(h, 1 .. n) = SumFunctionOnSet(g, ImageOf(o, 1 .. n))
  BY <1>4, <1>5, <1>6, <1>8, <1>9, SumImage, Zenon
<1>11. SumFunctionOnSet(g, ImageOf(o, 1 .. n)) \in Nat
  <2>1. PICK I : I = ImageOf(o, 1 .. n)
    OBVIOUS
  <2>2. \A t \in I : g[t] \in Nat
    BY <1>4, <1>6, <2>1
  <2>3. SumFunctionOnSet(g, I) \in Nat
    BY <1>7, <2>1, <2>2, SumNatType, Zenon
  <2> QED BY <2>1, <2>3, Zenon
<1> QED BY <1>4, <1>7, <1>10, <1>11, Zenon

\* The places before and with n.
MassTo(g, o, n) == SumFunctionOnSet(g, ImageOf(o, 1 .. n))

LEMMA MassesGrow ==
  ASSUME NEW g \in [Tokens -> Nat], NEW o, IsRanking(g, o, Tokens, V),
         NEW m \in 0 .. V, NEW n \in 0 .. V, m <= n
  PROVE  /\ MassTo(g, o, m) \in Nat /\ MassTo(g, o, n) \in Nat /\ MassTo(g, o, m) <= MassTo(g, o, n)
         /\ MassTo(g, o, V) = Total(g) /\ Total(g) \in Nat /\ MassTo(g, o, n) <= Total(g)
<1>1. V \in Nat
  BY VocabularySize
<1> PICK A, B, C : A = ImageOf(o, 1 .. m) /\ B = ImageOf(o, 1 .. n) /\ C = ImageOf(o, 1 .. V)
  OBVIOUS
<1>2. A \in SUBSET B /\ B \in SUBSET C
  BY <1>1 DEF ImageOf
<1>3. V \in 0 .. V
  BY <1>1
<1>4. /\ IsFiniteSet(B) /\ IsFiniteSet(C) /\ B \in SUBSET Tokens /\ C \in SUBSET Tokens
      /\ SumFunctionOnSet(g, A) \in Nat /\ SumFunctionOnSet(g, B) \in Nat /\ SumFunctionOnSet(g, C) \in Nat
  BY <1>3, BeforeIs, Zenon
<1>5. \A T \in SUBSET Tokens : \A t \in T : g[t] \in Nat /\ g[t] <= g[t]
  OBVIOUS
<1>6. SumFunctionOnSet(g, A) <= SumFunctionOnSet(g, B)
  <2>1. (\A t \in B : g[t] \in Nat /\ g[t] \in Nat) /\ \A t \in A : g[t] <= g[t]
    BY <1>2, <1>4, <1>5
  <2> QED BY <1>2, <1>4, <2>1, SumMonotone
<1>7. SumFunctionOnSet(g, B) <= SumFunctionOnSet(g, C)
  <2>1. (\A t \in C : g[t] \in Nat /\ g[t] \in Nat) /\ \A t \in B : g[t] <= g[t]
    BY <1>2, <1>4, <1>5
  <2> QED BY <1>2, <1>4, <2>1, SumMonotone
<1>8. C = Tokens
  BY RankingCovers, Zenon
<1> QED BY <1>4, <1>6, <1>7, <1>8, TotalIs, Zenon DEF MassTo

\* Places are removed from one on, and what is before it is enough.
IsCut(g, o, top_p, m) ==
    /\ m \in 2 .. V + 1
    /\ \A i \in 1 .. V : Removed(g, o, i, top_p) <=> m <= i
    /\ Shares * MassTo(g, o, m - 1) >= top_p * Total(g)
    /\ \A i \in 2 .. m - 1 : Shares * MassTo(g, o, i - 1) <= top_p * Total(g)

LEMMA CutExists ==
  ASSUME NEW g \in [Tokens -> Nat], NEW o, IsRanking(g, o, Tokens, V), NEW top_p \in 0 .. Shares
  PROVE  \E m : IsCut(g, o, top_p, m)
<1> PICK v \in Nat \ {0} : v = V
  BY VocabularySize
<1>1. Shares \in Nat \ {0} /\ top_p \in Nat /\ top_p <= Shares
  BY SamplingAssumption
<1> PICK goal, all \in Nat : goal = top_p * all /\ all = Total(g)
  <2>1. Total(g) \in Nat
    <3>1. 0 \in 0 .. V /\ 0 <= 0
      OBVIOUS
    <3> QED BY <3>1, MassesGrow, Zenon
  <2> QED BY <2>1
<1>2. goal \in Nat /\ goal <= Shares * all
  BY <1>1, TimesMonotone
<1> DEFINE share(n) == Shares * MassTo(g, o, n)
<1>3. ASSUME NEW m \in 0 .. v, NEW n \in 0 .. v, m <= n
      PROVE  share(m) \in Nat /\ share(n) \in Nat /\ share(m) <= share(n)
  <2>1. MassTo(g, o, m) \in Nat /\ MassTo(g, o, n) \in Nat /\ MassTo(g, o, m) <= MassTo(g, o, n)
    BY <1>3, MassesGrow
  <2> QED BY <1>1, <2>1, TimesMonotone
<1>4. share(v) = Shares * all
  <2>1. v \in 0 .. V /\ v <= v
    OBVIOUS
  <2>2. MassTo(g, o, V) = all
    BY <2>1, MassesGrow, Zenon
  <2> QED BY <2>2
<1>5. ASSUME NEW i \in 1 .. v
      PROVE  Removed(g, o, i, top_p) <=> i > 1 /\ share(i - 1) > goal
  <2>1. i - 1 \in 0 .. V
    OBVIOUS
  <2>2. Before(g, o, i) = MassTo(g, o, i - 1)
    BY <2>1, BeforeIs, Zenon DEF Before, MassTo
  <2> QED BY <2>2, Zenon DEF Removed
<1> HIDE DEF share
<1> DEFINE Over == { i \in 2 .. v : share(i - 1) > goal }
<1>6. CASE Over = {}
  <2>1. ASSUME NEW i \in 2 .. v
        PROVE  ~ (share(i - 1) > goal)
    BY <1>6
  <2>2. ASSUME NEW i \in 1 .. v
        PROVE  ~ Removed(g, o, i, top_p)
    <3>1. CASE i > 1
      <4>1. i \in 2 .. v
        BY <3>1
      <4> QED BY <1>5, <2>1, <4>1, Zenon
    <3>2. CASE ~ (i > 1)
      BY <1>5, <3>2, Zenon
    <3> QED BY <3>1, <3>2
  <2>3. ASSUME NEW i \in 2 .. v
        PROVE  share(i - 1) <= goal
    <3>1. i - 1 \in 0 .. v
      OBVIOUS
    <3>2. PICK n \in Nat : n = share(i - 1)
      BY <1>3, <3>1
    <3>3. ~ (n > goal)
      BY <2>1, <3>2, Zenon
    <3>4. n <= goal
      BY <1>2, <3>3
    <3> QED BY <3>2, <3>4, Zenon
  <2>4. share(v) >= goal
    <3>1. v \in 0 .. v
      OBVIOUS
    <3>2. share(v) \in Nat
      BY <1>3, <3>1
    <3> QED BY <1>2, <1>4, <3>2
  <2>5. PICK m : m = v + 1 /\ m \in 2 .. V + 1 /\ m - 1 = v /\ \A i \in 1 .. v : ~ (m <= i)
    OBVIOUS
  <2>6. share(m - 1) >= goal
    BY <2>4, <2>5, Zenon
  <2>7. \A i \in 2 .. m - 1 : share(i - 1) <= goal
    BY <2>3, <2>5, Zenon
  <2>8. IsCut(g, o, top_p, m)
    BY <2>2, <2>5, <2>6, <2>7, Zenon DEF IsCut, share
  <2> QED BY <2>8
<1>7. CASE Over # {}
  <2>1. Over \in SUBSET Nat
    OBVIOUS
  <2>2. PICK m \in Over : \A n \in Nat : n < m => n \notin Over
    <3> HIDE DEF Over
    <3> QED BY <1>7, <2>1, FirstNat
  <2>3. m \in 2 .. v /\ share(m - 1) > goal
    OBVIOUS
  <2>4. \A i \in 2 .. m - 1 : share(i - 1) <= goal
    <3> SUFFICES ASSUME NEW i \in 2 .. m - 1 PROVE share(i - 1) <= goal
      OBVIOUS
    <3>1. i \in Nat /\ i < m /\ i \in 2 .. v /\ i - 1 \in 0 .. v
      BY <2>3
    <3>2. i \notin Over
      BY <2>2, <3>1
    <3>3. share(i - 1) \in Nat
      BY <1>3, <3>1
    <3> QED BY <1>2, <3>1, <3>2, <3>3
  <2>5. ASSUME NEW i \in 1 .. v
        PROVE  Removed(g, o, i, top_p) <=> m <= i
    <3>1. CASE m <= i
      <4>1. i > 1 /\ m - 1 \in 0 .. v /\ i - 1 \in 0 .. v /\ m - 1 <= i - 1
        BY <2>3, <3>1
      <4>2. share(m - 1) <= share(i - 1) /\ share(m - 1) \in Nat /\ share(i - 1) \in Nat
        BY <1>3, <4>1
      <4>3. share(i - 1) > goal
        BY <1>2, <2>3, <4>2
      <4> QED BY <1>5, <3>1, <4>1, <4>3
    <3>2. CASE ~ (m <= i)
      <4>1. CASE i > 1
        <5>1. i \in 2 .. m - 1 /\ i - 1 \in 0 .. v
          BY <2>3, <3>2, <4>1
        <5>2. share(i - 1) \in Nat /\ share(i - 1) <= goal
          BY <1>3, <2>4, <5>1
        <5>3. ~ (share(i - 1) > goal)
          BY <1>2, <5>2
        <5> QED BY <1>5, <3>2, <5>3
      <4>2. CASE ~ (i > 1)
        BY <1>5, <3>2, <4>2
      <4> QED BY <4>1, <4>2
    <3> QED BY <3>1, <3>2
  <2>6. m \in 2 .. V + 1 /\ share(m - 1) >= goal
    <3>1. m - 1 \in 0 .. v
      BY <2>3
    <3>2. share(m - 1) \in Nat
      BY <1>3, <3>1
    <3> QED BY <1>2, <2>3, <3>2
  <2>7. IsCut(g, o, top_p, m)
    BY <2>4, <2>5, <2>6, Zenon DEF IsCut, share
  <2> QED BY <2>7
<1> QED BY <1>6, <1>7

\* What top-p leaves of the row g when it is sorted to o.
FilteredBy(g, o, top_p) ==
    [t \in Tokens |-> IF \E i \in 1 .. V : o[i] = t /\ Removed(g, o, i, top_p) THEN 0 ELSE g[t]]

\* f is g at the places before m, and nothing elsewhere.
KeepsBefore(g, o, m, f) ==
    /\ f \in [Tokens -> Nat] /\ Support(f) \in SUBSET ImageOf(o, 1 .. m - 1)
    /\ \A i \in 1 .. m - 1 : f[o[i]] = g[o[i]]
    /\ \A t \in Support(f) : f[t] = g[t] /\ g[t] > 0

LEMMA CutKeeps ==
  ASSUME NEW g \in [Tokens -> Nat], NEW o, IsRanking(g, o, Tokens, V),
         NEW top_p \in 0 .. Shares, NEW m, IsCut(g, o, top_p, m),
         NEW f, f = FilteredBy(g, o, top_p)
  PROVE  KeepsBefore(g, o, m, f)
<1> PICK v \in Nat \ {0} : v = V
  BY VocabularySize
<1>1. m \in 2 .. v + 1 /\ \A i \in 1 .. v : Removed(g, o, i, top_p) <=> m <= i
  BY Zenon DEF IsCut
<1>2. o \in [1 .. v -> Tokens]
  BY DEF IsRanking
<1>3. \A t \in Tokens : \E i \in 1 .. v : o[i] = t
  BY RankingCovers, Zenon
<1>4. \A i, j \in 1 .. v : o[i] = o[j] => i = j
  BY RankingCovers, Zenon
<1>5. ASSUME NEW i \in 1 .. v
      PROVE  o[i] \in Tokens /\ f[o[i]] = IF m <= i THEN 0 ELSE g[o[i]]
  <2>1. o[i] \in Tokens
    BY <1>2
  <2>2. (\E j \in 1 .. v : o[j] = o[i] /\ Removed(g, o, j, top_p)) <=> m <= i
    BY <1>1, <1>4, Zenon
  <2>3. f[o[i]] = IF \E j \in 1 .. v : o[j] = o[i] /\ Removed(g, o, j, top_p) THEN 0 ELSE g[o[i]]
    BY <2>1, Zenon DEF FilteredBy
  <2> QED BY <2>1, <2>2, <2>3, Zenon
<1>6. f \in [Tokens -> Nat]
  <2>1. \A t \in Tokens : (IF \E i \in 1 .. V : o[i] = t /\ Removed(g, o, i, top_p) THEN 0 ELSE g[t]) \in Nat
    OBVIOUS
  <2> QED BY <2>1, Zenon DEF FilteredBy
<1>7. ASSUME NEW t \in Support(f)
      PROVE  t \in ImageOf(o, 1 .. m - 1) /\ f[t] = g[t] /\ g[t] > 0
  <2>1. t \in Tokens /\ f[t] > 0
    BY DEF Support
  <2>2. PICK i \in 1 .. v : o[i] = t
    BY <1>3, <2>1
  <2>3. ~ (m <= i)
    <3>1. m <= i => f[t] = 0
      BY <1>5, <2>2, Zenon
    <3>2. f[t] # 0
      BY <2>1
    <3> QED BY <3>1, <3>2, Zenon
  <2>4. f[t] = g[t]
    BY <1>5, <2>2, <2>3, Zenon
  <2>5. i \in 1 .. m - 1
    BY <1>1, <2>3
  <2>6. t \in ImageOf(o, 1 .. m - 1)
    BY <2>2, <2>5 DEF ImageOf
  <2> QED BY <2>1, <2>4, <2>6, Zenon
<1>8. ASSUME NEW i \in 1 .. m - 1
      PROVE  f[o[i]] = g[o[i]]
  <2>1. i \in 1 .. v /\ ~ (m <= i)
    BY <1>1
  <2> QED BY <1>5, <2>1, Zenon
<1>9. Support(f) \in SUBSET ImageOf(o, 1 .. m - 1)
  BY <1>7
<1> QED BY <1>6, <1>7, <1>8, <1>9, Zenon DEF KeepsBefore

\* Of a row with something in it the likeliest token stays; what stays is closed
\* upwards, and it is enough but not more than needed.
LEMMA NucleusOf ==
  ASSUME NEW g \in [Tokens -> Nat], NEW o, IsRanking(g, o, Tokens, V), g[o[1]] > 0,
         NEW top_p \in 0 .. Shares, NEW f, f = FilteredBy(g, o, top_p)
  PROVE  /\ o[1] \in Support(f)
         /\ Support(f) \in SUBSET Support(g) /\ \A t \in Support(f) : f[t] = g[t]
         /\ \A t \in Support(f), u \in Tokens : g[u] > g[t] => u \in Support(f)
         /\ Shares * SumFunctionOnSet(g, Support(f)) >= top_p * Total(g)
         /\ \/ Support(f) = {o[1]}
            \/ \E t \in Support(f) :
                 Shares * SumFunctionOnSet(g, Support(f) \ {t}) <= top_p * Total(g)
<1> PICK v \in Nat \ {0} : v = V
  BY VocabularySize
<1> PICK m : IsCut(g, o, top_p, m)
  BY CutExists
<1>1. /\ m \in 2 .. v + 1 /\ Shares * MassTo(g, o, m - 1) >= top_p * Total(g)
      /\ \A i \in 2 .. m - 1 : Shares * MassTo(g, o, i - 1) <= top_p * Total(g)
  BY Zenon DEF IsCut
<1>2. /\ f \in [Tokens -> Nat] /\ Support(f) \in SUBSET ImageOf(o, 1 .. m - 1)
      /\ \A i \in 1 .. m - 1 : f[o[i]] = g[o[i]]
      /\ \A t \in Support(f) : f[t] = g[t] /\ g[t] > 0
  <2>1. KeepsBefore(g, o, m, f)
    BY CutKeeps
  <2> QED BY <2>1, Zenon DEF KeepsBefore
<1>3. o \in [1 .. v -> Tokens] /\ \A i, j \in 1 .. v : i < j => g[o[i]] >= g[o[j]]
  BY DEF IsRanking
<1>4. \A t \in Tokens : \E i \in 1 .. v : o[i] = t
  BY RankingCovers, Zenon
<1>5. \A i \in 1 .. m - 1 : i \in 1 .. v /\ o[i] \in Tokens
  BY <1>1, <1>3
<1>6. ASSUME NEW i \in 1 .. m - 1, g[o[i]] > 0
      PROVE  o[i] \in Support(f)
  <2>1. o[i] \in Tokens /\ f[o[i]] = g[o[i]]
    BY <1>2, <1>5, Zenon
  <2> QED BY <1>6, <2>1, Zenon DEF Support
<1>7. o[1] \in Support(f)
  <2>1. 1 \in 1 .. m - 1
    BY <1>1
  <2> QED BY <1>6, <2>1
<1>8. Support(f) \in SUBSET Support(g)
  BY <1>2 DEF Support
<1>9. ASSUME NEW t \in Support(f), NEW u \in Tokens, g[u] > g[t]
      PROVE  u \in Support(f)
  <2>1. PICK i \in 1 .. m - 1 : o[i] = t
    BY <1>2 DEF ImageOf
  <2>2. PICK j \in 1 .. v : o[j] = u
    BY <1>4
  <2>3. t \in Tokens /\ g[t] \in Nat /\ g[u] \in Nat
    BY DEF Support
  <2>4. i \in 1 .. v
    BY <1>5
  <2>5. j <= i
    <3>1. i < j => g[t] >= g[u]
      BY <1>3, <2>1, <2>2, <2>4, Zenon
    <3>2. ~ (i < j)
      BY <1>9, <2>3, <3>1
    <3> QED BY <2>4, <3>2
  <2>6. j \in 1 .. m - 1 /\ g[u] > 0
    BY <1>1, <1>9, <2>3, <2>5
  <2> QED BY <1>6, <2>2, <2>6, Zenon
<1> PICK kept : kept = Support(f)
  OBVIOUS
<1>10. ASSUME NEW n \in 0 .. v
       PROVE  /\ MassTo(g, o, n) = SumFunctionOnSet(g, ImageOf(o, 1 .. n))
              /\ IsFiniteSet(ImageOf(o, 1 .. n)) /\ \A t \in ImageOf(o, 1 .. n) : g[t] \in Nat
  <2>1. IsFiniteSet(ImageOf(o, 1 .. n)) /\ ImageOf(o, 1 .. n) \in SUBSET Tokens
    BY BeforeIs, Zenon
  <2> QED BY <2>1, Zenon DEF MassTo
<1>11. SumFunctionOnSet(g, kept) = MassTo(g, o, m - 1)
  <2>1. m - 1 \in 0 .. v
    BY <1>1
  <2> PICK S : S = ImageOf(o, 1 .. m - 1)
    OBVIOUS
  <2>2. IsFiniteSet(S) /\ (\A t \in S : g[t] \in Nat) /\ MassTo(g, o, m - 1) = SumFunctionOnSet(g, S)
    BY <1>10, <2>1, Zenon
  <2>3. kept \in SUBSET S
    BY <1>2, Zenon
  <2>4. ASSUME NEW t \in S \ kept PROVE g[t] = 0
    <3>1. PICK i \in 1 .. m - 1 : o[i] = t
      BY DEF ImageOf
    <3>2. ~ (g[t] > 0)
      BY <1>6, <3>1
    <3>3. g[t] \in Nat
      BY <2>2
    <3> QED BY <3>2, <3>3
  <2>5. SumFunctionOnSet(g, kept) = SumFunctionOnSet(g, S)
    BY <2>2, <2>3, <2>4, SumSupport, Zenon
  <2> QED BY <2>2, <2>5, Zenon
<1>12. Shares * SumFunctionOnSet(g, kept) >= top_p * Total(g)
  BY <1>1, <1>11, Zenon
<1>13. \/ kept = {o[1]}
       \/ \E t \in kept : Shares * SumFunctionOnSet(g, kept \ {t}) <= top_p * Total(g)
  <2> PICK P : P = { i \in 1 .. m - 1 : o[i] \in kept }
    OBVIOUS
  <2>1. m - 1 \in Nat /\ P \in SUBSET (1 .. m - 1) /\ P # {}
    <3>1. 1 \in 1 .. m - 1
      BY <1>1
    <3> QED BY <1>1, <1>7, <3>1
  <2>2. PICK l \in P : \A i \in P : i <= l
    BY <2>1, MaxIndex
  <2>3. l \in 1 .. m - 1 /\ o[l] \in kept
    OBVIOUS
  <2>4. ASSUME NEW t \in kept PROVE \E i \in 1 .. l : o[i] = t
    <3>1. PICK i \in 1 .. m - 1 : o[i] = t
      BY <1>2 DEF ImageOf
    <3>2. i \in P
      BY <3>1
    <3>3. i \in 1 .. l
      BY <2>2, <3>2
    <3> QED BY <3>1, <3>3
  <2>5. CASE l = 1
    <3>1. \A i \in 1 .. 1 : i = 1
      OBVIOUS
    <3>2. kept = {o[1]}
      BY <1>7, <2>4, <2>5, <3>1
    <3> QED BY <3>2
  <2>6. CASE l # 1
    <3>1. l \in 2 .. m - 1 /\ l - 1 \in 0 .. v
      BY <1>1, <2>3, <2>6
    <3> PICK S, rest : S = ImageOf(o, 1 .. l - 1) /\ rest = kept \ {o[l]}
      OBVIOUS
    <3>2. IsFiniteSet(S) /\ (\A t \in S : g[t] \in Nat) /\ MassTo(g, o, l - 1) = SumFunctionOnSet(g, S)
      BY <1>10, <3>1, Zenon
    <3>3. ASSUME NEW t \in rest PROVE t \in S
      <4>1. PICK i \in 1 .. l : o[i] = t
        BY <2>4
      <4>2. i # l
        BY <4>1
      <4>3. i \in 1 .. l - 1
        BY <2>3, <4>2
      <4> QED BY <4>1, <4>3 DEF ImageOf
    <3>4. rest \in SUBSET S
      BY <3>3
    <3>5. (\A t \in S : g[t] \in Nat /\ g[t] \in Nat) /\ \A t \in rest : g[t] <= g[t]
      BY <3>2, <3>4
    <3>6. SumFunctionOnSet(g, rest) <= SumFunctionOnSet(g, S)
      BY <3>2, <3>4, <3>5, SumMonotone
    <3>7. SumFunctionOnSet(g, rest) \in Nat /\ SumFunctionOnSet(g, S) \in Nat
      <4>1. IsFiniteSet(rest) /\ \A t \in rest : g[t] \in Nat
        BY <3>2, <3>4, FS_Subset
      <4> QED BY <3>2, <4>1, SumNatType
    <3>8. Shares * SumFunctionOnSet(g, S) <= top_p * Total(g)
      BY <1>1, <3>1, <3>2, Zenon
    <3>9. Shares * SumFunctionOnSet(g, rest) <= top_p * Total(g)
      <4>1. Shares \in Nat
        BY SamplingAssumption
      <4>2. /\ Shares * SumFunctionOnSet(g, rest) \in Nat /\ Shares * SumFunctionOnSet(g, S) \in Nat
            /\ Shares * SumFunctionOnSet(g, rest) <= Shares * SumFunctionOnSet(g, S)
        BY <3>6, <3>7, <4>1, TimesMonotone
      <4>3. top_p * Total(g) \in Nat
        <5>1. 0 \in 0 .. V /\ 0 <= 0
          OBVIOUS
        <5>2. Total(g) \in Nat
          BY <5>1, MassesGrow, Zenon
        <5>3. top_p \in Nat
          BY <4>1
        <5> QED BY <5>2, <5>3
      <4>4. PICK a \in Nat, b \in Nat, c \in Nat :
              /\ a = Shares * SumFunctionOnSet(g, rest) /\ b = Shares * SumFunctionOnSet(g, S)
              /\ c = top_p * Total(g) /\ a <= b /\ b <= c
        BY <3>8, <4>2, <4>3, Zenon
      <4>5. a <= c
        BY <4>4
      <4> QED BY <4>4, <4>5, Zenon
    <3> QED BY <2>3, <3>9, Zenon
  <2> QED BY <2>5, <2>6
<1> QED BY <1>2, <1>7, <1>8, <1>9, <1>12, <1>13, Zenon

\* g keeps the tokens of top, which is closed upwards and has the likeliest ones.
IsTop(row, g, top) ==
    /\ g \in [Tokens -> Nat] /\ top \in SUBSET Tokens
    /\ \A t \in top : g[t] = row[t]
    /\ \A t \in Tokens \ top : g[t] = 0
    /\ \A t \in top, u \in Tokens : row[u] > row[t] => u \in top
    /\ ArgMax(row) \subseteq top

LEMMA TopKRow ==
  ASSUME NEW row \in [Tokens -> Nat], NEW k \in Nat
  PROVE  IsTop(row, ApplyTopK(row, k), AmongTop(row, k))
<1>0. ApplyTopK(row, k) = [t \in Tokens |-> IF t \in AmongTop(row, k) THEN row[t] ELSE 0]
  BY TopKIs
<1> PICK g, top : g = ApplyTopK(row, k) /\ top = AmongTop(row, k)
  OBVIOUS
<1>1. g = [t \in Tokens |-> IF t \in top THEN row[t] ELSE 0]
  BY <1>0
<1> PICK n : n = Max({k, 1}) /\ n \in Nat \ {0}
  <2>1. PICK n : n = Max({k, 1})
    OBVIOUS
  <2>2. n = IF k = 0 THEN 1 ELSE k
    BY <2>1, ClampIs, Zenon
  <2>3. n \in Nat \ {0}
    BY <2>2
  <2> QED BY <2>1, <2>3
<1>2. \A t : t \in top <=> t \in Tokens /\ Cardinality(Likelier(row, t)) < n
  BY Zenon DEF AmongTop, Likelier
<1>3. g \in [Tokens -> Nat] /\ top \in SUBSET Tokens
  BY <1>1, <1>2
<1>4. (\A t \in top : g[t] = row[t]) /\ \A t \in Tokens \ top : g[t] = 0
  BY <1>1, <1>3
<1>5. ASSUME NEW t \in top, NEW u \in Tokens, row[u] > row[t]
      PROVE  u \in top
  <2>1. t \in Tokens
    BY <1>3
  <2> PICK A, B : A = Likelier(row, t) /\ B = Likelier(row, u)
    OBVIOUS
  <2>2. B \in SUBSET A /\ A \in SUBSET Tokens
    <3>1. row[t] \in Nat /\ row[u] \in Nat /\ \A w \in Tokens : row[w] \in Nat
      BY <2>1
    <3> QED BY <1>5, <2>1, <3>1 DEF Likelier
  <2>3. IsFiniteSet(A)
    BY <2>2, SamplingAssumption, FS_Subset, Zenon
  <2>4. Cardinality(B) <= Cardinality(A)
    BY <2>2, <2>3, FS_Subset, Zenon
  <2>5. PICK a \in Nat, b \in Nat : a = Cardinality(A) /\ b = Cardinality(B)
    BY <2>1, LikelierFew, Zenon
  <2>6. b <= a /\ a < n
    BY <1>2, <2>4, <2>5, Zenon
  <2>7. b < n
    BY <2>5, <2>6
  <2> QED BY <1>2, <2>5, <2>7, Zenon
<1>6. ASSUME NEW t \in ArgMax(row)
      PROVE  t \in top
  <2>1. t \in Tokens /\ Likelier(row, t) = {}
    BY DEF ArgMax, Likelier
  <2>2. Cardinality({}) = 0 /\ 0 < n
    BY FS_EmptySet
  <2> QED BY <1>2, <2>1, <2>2, Zenon
<1>7. ArgMax(row) \subseteq top
  BY <1>6
<1> QED BY <1>3, <1>4, <1>5, <1>7, Zenon DEF IsTop

\* A row with mass has a likeliest token, and that one has mass.
LEMMA LikeliestHasMass ==
  ASSUME NEW row \in [Tokens -> Nat], Total(row) > 0
  PROVE  ArgMax(row) # {} /\ \A t \in ArgMax(row) : row[t] > 0
<1>1. PICK t \in Tokens : row[t] > 0
  <2>1. SUFFICES ASSUME \A t \in Tokens : row[t] = 0 PROVE FALSE
    <3>1. \A t \in Tokens : row[t] \in Nat
      OBVIOUS
    <3>2. \A t \in Tokens : ~ (row[t] > 0) => row[t] = 0
      BY <3>1
    <3> QED BY <3>2, Zenon
  <2>2. SumFunctionOnSet(row, Tokens) = 0
    BY <2>1, SamplingAssumption, SumZero
  <2>3. Total(row) = 0
    BY <2>2, TotalIs, Zenon
  <2> QED BY <2>3
<1>2. ASSUME NEW u \in ArgMax(row) PROVE row[u] > 0
  <2>1. row[t] <= row[u] /\ u \in Tokens
    BY DEF ArgMax
  <2>2. row[t] \in Nat /\ row[u] \in Nat
    BY <2>1
  <2> QED BY <1>1, <2>1, <2>2
<1>3. ArgMax(row) # {}
  <2>1. PICK o : IsRanking(row, o, Tokens, V)
    BY RankingExists
  <2>2. 1 \in 1 .. V
    BY VocabularySize
  <2>3. o \in [1 .. V -> Tokens] /\ \A i, j \in 1 .. V : i < j => row[o[i]] >= row[o[j]]
    BY <2>1 DEF IsRanking
  <2>4. ASSUME NEW u \in Tokens PROVE row[u] <= row[o[1]]
    <3>1. PICK i \in 1 .. V : o[i] = u
      BY <2>1, RankingCovers, Zenon
    <3>2. o[1] \in Tokens /\ row[u] \in Nat
      BY <2>2, <2>3
    <3>3. CASE i = 1
      BY <3>1, <3>2, <3>3
    <3>4. CASE i # 1
      <4>1. 1 < i
        BY <3>4, VocabularySize
      <4> QED BY <2>2, <2>3, <3>1, <4>1
    <3> QED BY <3>3, <3>4
  <2>5. o[1] \in ArgMax(row)
    BY <2>2, <2>3, <2>4 DEF ArgMax
  <2> QED BY <2>5
<1> QED BY <1>2, <1>3, Zenon

\* Whoever is likeliest may be listed first.
LEMMA AnyFirst ==
  ASSUME NEW g \in [Tokens -> Nat], NEW t \in ArgMax(g)
  PROVE  \E o : IsRanking(g, o, Tokens, V) /\ o[1] = t
<1>1. PICK o : IsRanking(g, o, Tokens, V)
  BY RankingExists
<1> PICK v \in Nat \ {0} : v = V
  BY VocabularySize
<1>2. /\ o \in [1 .. v -> Tokens] /\ IsOneToOne(o, 1 .. v)
      /\ \A i, j \in 1 .. v : i < j => g[o[i]] >= g[o[j]]
  BY <1>1 DEF IsRanking
<1>3. t \in Tokens /\ (\A u \in Tokens : g[u] <= g[t]) /\ 1 \in 1 .. v
  BY DEF ArgMax
<1>4. PICK k \in 1 .. v : o[k] = t
  BY <1>1, <1>3, RankingCovers, Zenon
<1>5. g[o[1]] = g[t]
  <2>1. o[1] \in Tokens /\ g[o[1]] \in Nat /\ g[t] \in Nat
    BY <1>2, <1>3
  <2>2. g[o[1]] <= g[t]
    BY <1>3, <2>1
  <2>3. g[o[1]] >= g[t]
    <3>1. CASE k = 1
      BY <1>4, <2>1, <3>1
    <3>2. CASE k # 1
      BY <1>2, <1>3, <1>4, <3>2
    <3> QED BY <3>1, <3>2
  <2> QED BY <2>1, <2>2, <2>3
<1> PICK s : s = [i \in 1 .. v |-> IF i = 1 THEN t ELSE IF i = k THEN o[1] ELSE o[i]]
  OBVIOUS
<1>6. s \in [1 .. v -> Tokens] /\ s[1] = t
  BY <1>2, <1>3
<1>7. \A i \in 1 .. v : g[s[i]] = g[o[i]]
  <2> SUFFICES ASSUME NEW i \in 1 .. v PROVE g[s[i]] = g[o[i]]
    OBVIOUS
  <2>1. s[i] = IF i = 1 THEN t ELSE IF i = k THEN o[1] ELSE o[i]
    OBVIOUS
  <2> QED BY <1>4, <1>5, <2>1, Zenon
<1>8. IsOneToOne(s, 1 .. v)
  <2> SUFFICES ASSUME NEW i \in 1 .. v, NEW j \in 1 .. v, i # j PROVE s[i] # s[j]
    BY DEF IsOneToOne
  <2>1. s[i] = IF i = 1 THEN o[k] ELSE IF i = k THEN o[1] ELSE o[i]
    BY <1>4
  <2>2. s[j] = IF j = 1 THEN o[k] ELSE IF j = k THEN o[1] ELSE o[j]
    BY <1>4
  <2>3. \A a, b \in 1 .. v : a # b => o[a] # o[b]
    BY <1>2, Zenon DEF IsOneToOne
  <2> QED BY <1>3, <2>1, <2>2, <2>3, Zenon
<1>9. \A i, j \in 1 .. v : i < j => g[s[i]] >= g[s[j]]
  BY <1>2, <1>7, Zenon
<1>10. IsRanking(g, s, Tokens, v)
  BY <1>6, <1>8, <1>9, Zenon DEF IsRanking
<1> QED BY <1>6, <1>10, Zenon

LEMMA MassIs ==
  ASSUME NEW row, NEW S
  PROVE  Mass(row, S) = SumFunctionOnSet(row, S)
  BY Zenon DEF Mass, MapThenSumSet, SumFunctionOnSet, FoldFunctionOnSet

\* Whatever order sort chooses, the first has mass.
LEMMA FirstHasMass ==
  ASSUME NEW row \in [Tokens -> Nat], Total(row) > 0, NEW g, NEW top, IsTop(row, g, top),
         NEW o, IsRanking(g, o, Tokens, V)
  PROVE  g[o[1]] > 0
<1>1. /\ g \in [Tokens -> Nat] /\ \A t \in top : g[t] = row[t]
      /\ ArgMax(row) \subseteq top
  BY DEF IsTop
<1>2. PICK u \in ArgMax(row) : row[u] > 0
  BY LikeliestHasMass
<1>3. u \in Tokens /\ g[u] > 0
  BY <1>1, <1>2 DEF ArgMax
<1>4. PICK i \in 1 .. V : o[i] = u
  BY <1>3, RankingCovers, Zenon
<1>5. CASE i = 1
  BY <1>3, <1>4, <1>5
<1>6. CASE i # 1
  <2>1. 1 \in 1 .. V /\ 1 < i
    BY <1>6, VocabularySize
  <2>2. o \in [1 .. V -> Tokens] /\ g[o[1]] >= g[u]
    BY <1>4, <2>1 DEF IsRanking
  <2>3. g[o[1]] \in Nat /\ g[u] \in Nat
    BY <1>1, <1>3, <2>1, <2>2
  <2> QED BY <1>3, <2>2, <2>3
<1> QED BY <1>5, <1>6

\* What IsNucleus says of one result f.
IsKept(row, top, f, top_p) ==
    LET kept == Support(f)
    IN  /\ kept # {} /\ kept \subseteq top \cap Support(row)
        /\ \A t \in kept, u \in Tokens : row[u] > row[t] => u \in kept
        /\ \A t \in kept : f[t] = row[t]
        /\ Shares * Mass(row, kept) >= top_p * Mass(row, top)
        /\ \/ Cardinality(kept) = 1
           \/ \E t \in kept :
                Shares * Mass(row, kept \ {t}) <= top_p * Mass(row, top)

LEMMA FilteredIsKept ==
  ASSUME NEW row \in [Tokens -> Nat], Total(row) > 0, NEW g, NEW top, IsTop(row, g, top),
         NEW o, IsRanking(g, o, Tokens, V), NEW top_p \in 0 .. Shares,
         NEW f, f = FilteredBy(g, o, top_p)
  PROVE  IsKept(row, top, f, top_p)
<1>1. /\ g \in [Tokens -> Nat] /\ top \in SUBSET Tokens
      /\ \A t \in top : g[t] = row[t]
      /\ \A t \in Tokens \ top : g[t] = 0
      /\ \A t \in top, u \in Tokens : row[u] > row[t] => u \in top
  BY DEF IsTop
<1> PICK kept : kept = Support(f)
  OBVIOUS
<1>2. g[o[1]] > 0 /\ g \in [Tokens -> Nat]
  BY <1>1, FirstHasMass
<1>3. /\ o[1] \in kept
      /\ kept \in SUBSET Support(g) /\ \A t \in kept : f[t] = g[t]
      /\ \A t \in kept, u \in Tokens : g[u] > g[t] => u \in kept
      /\ Shares * SumFunctionOnSet(g, kept) >= top_p * Total(g)
      /\ \/ kept = {o[1]}
         \/ \E t \in kept : Shares * SumFunctionOnSet(g, kept \ {t}) <= top_p * Total(g)
  <2>1. /\ o[1] \in Support(f)
        /\ Support(f) \in SUBSET Support(g) /\ \A t \in Support(f) : f[t] = g[t]
        /\ \A t \in Support(f), u \in Tokens : g[u] > g[t] => u \in Support(f)
        /\ Shares * SumFunctionOnSet(g, Support(f)) >= top_p * Total(g)
        /\ \/ Support(f) = {o[1]}
           \/ \E t \in Support(f) :
                Shares * SumFunctionOnSet(g, Support(f) \ {t}) <= top_p * Total(g)
    BY <1>2, NucleusOf
  <2> QED BY <2>1, Zenon
<1>4. ASSUME NEW t \in kept PROVE t \in top /\ t \in Support(row) /\ f[t] = row[t]
  <2>1. t \in Tokens /\ g[t] > 0
    BY <1>3 DEF Support
  <2>2. t \in top
    BY <1>1, <2>1
  <2> QED BY <1>1, <1>3, <2>1, <2>2 DEF Support
<1>5. \A t \in kept, u \in Tokens : row[u] > row[t] => u \in kept
  <2> SUFFICES ASSUME NEW t \in kept, NEW u \in Tokens, row[u] > row[t] PROVE u \in kept
    OBVIOUS
  <2>1. t \in top /\ u \in top
    BY <1>1, <1>4
  <2>2. g[u] > g[t]
    BY <1>1, <2>1
  <2> QED BY <1>3, <2>2
<1>6. IsFiniteSet(Tokens) /\ \A t \in Tokens : row[t] \in Nat /\ g[t] \in Nat
  BY <1>1, SamplingAssumption
<1>7. ASSUME NEW S \in SUBSET top
      PROVE  Mass(row, S) = SumFunctionOnSet(g, S)
  <2>1. IsFiniteSet(S)
    BY <1>1, <1>6, FS_Subset
  <2>2. \A t \in S : g[t] \in Nat /\ row[t] = g[t]
    BY <1>1, <1>6
  <2>3. SumFunctionOnSet(row, S) = SumFunctionOnSet(g, S)
    BY <2>1, <2>2, SumSame, Zenon
  <2> QED BY <2>3, MassIs, Zenon
<1>8. Mass(row, top) = Total(g)
  <2>1. SumFunctionOnSet(g, top) = SumFunctionOnSet(g, Tokens)
    BY <1>1, <1>6, SumSupport, Zenon
  <2>2. top \in SUBSET top
    OBVIOUS
  <2> QED BY <1>7, <2>1, <2>2, TotalIs, Zenon
<1>9. Mass(row, kept) = SumFunctionOnSet(g, kept)
      /\ \A t \in kept : Mass(row, kept \ {t}) = SumFunctionOnSet(g, kept \ {t})
  <2>1. kept \in SUBSET top /\ \A t \in kept : kept \ {t} \in SUBSET top
    BY <1>4
  <2> QED BY <1>7, <2>1, Zenon
<1>10. kept = {o[1]} => Cardinality(kept) = 1
  BY FS_Singleton, Zenon
<1>11. /\ Shares * Mass(row, kept) >= top_p * Mass(row, top)
       /\ \/ Cardinality(kept) = 1
          \/ \E t \in kept : Shares * Mass(row, kept \ {t}) <= top_p * Mass(row, top)
  BY <1>3, <1>8, <1>9, <1>10, Zenon
<1>12. kept # {} /\ kept \subseteq top \cap Support(row) /\ \A t \in kept : f[t] = row[t]
  BY <1>3, <1>4
<1> QED BY <1>5, <1>11, <1>12, Zenon DEF IsKept

\* top_k and top_p leave a nucleus of every row of naturals that has mass, for every
\* vocabulary, every k and every top_p, whatever order sort gives equal logits.
THEOREM FiltersLeaveANucleus ==
  ASSUME NEW row \in [Tokens -> Nat], Total(row) > 0, NEW k \in Nat, NEW top_p \in 0 .. Shares
  PROVE  IsNucleus(row, k, top_p)
<1> PICK g, top : g = ApplyTopK(row, k) /\ top = AmongTop(row, k)
  OBVIOUS
<1>1. IsTop(row, g, top)
  BY TopKRow, Zenon
<1>2. \A f : f \in ApplyTopP(g, top_p) <=> \E o \in SortedOrders(g) : f = FilteredBy(g, o, top_p)
  BY DEF ApplyTopP, FilteredBy
<1>3. \A f \in ApplyTopP(g, top_p) : IsKept(row, top, f, top_p)
  BY <1>1, <1>2, OrdersAre, FilteredIsKept, Zenon
<1>4. ASSUME NEW t \in SampleBatch(row, TRUE, k, top_p)
      PROVE  t \in SampleBatch(row, FALSE, k, top_p)
  <2>1. t \in ArgMax(row) /\ t \in Tokens
    BY DEF SampleBatch, ArgMax
  <2>2. /\ g \in [Tokens -> Nat] /\ top \in SUBSET Tokens
        /\ \A u \in top : g[u] = row[u]
        /\ \A u \in Tokens \ top : g[u] = 0
        /\ t \in top
    BY <1>1, <2>1 DEF IsTop
  <2>3. t \in ArgMax(g)
    <3> SUFFICES ASSUME NEW u \in Tokens PROVE g[u] <= g[t]
      BY <2>1 DEF ArgMax
    <3>1. row[u] <= row[t] /\ row[t] \in Nat /\ row[u] \in Nat
      BY <2>1 DEF ArgMax
    <3>2. g[t] = row[t] /\ (g[u] = row[u] \/ g[u] = 0)
      BY <2>2
    <3> QED BY <3>1, <3>2
  <2>4. PICK o : IsRanking(g, o, Tokens, V) /\ o[1] = t
    BY <2>2, <2>3, AnyFirst, Zenon
  <2> PICK f : f = FilteredBy(g, o, top_p)
    OBVIOUS
  <2>5. g[o[1]] > 0
    BY <1>1, <2>4, FirstHasMass, Zenon
  <2>6. o[1] \in Support(f)
    BY <2>2, <2>4, <2>5, NucleusOf, Zenon
  <2>7. f \in ApplyTopP(g, top_p)
    BY <1>2, <2>4, OrdersAre, Zenon
  <2> QED BY <2>4, <2>6, <2>7 DEF SampleBatch
<1>5. SampleBatch(row, TRUE, k, top_p) \subseteq SampleBatch(row, FALSE, k, top_p)
  BY <1>4
<1> QED BY <1>3, <1>5, Zenon DEF IsNucleus, IsKept

\* With top_p at all of the mass nothing is removed.
LEMMA NoTopP ==
  ASSUME NEW g \in [Tokens -> Nat], NEW o, IsRanking(g, o, Tokens, V)
  PROVE  FilteredBy(g, o, Shares) = g
<1> PICK v \in Nat \ {0} : v = V
  BY VocabularySize
<1>1. ASSUME NEW i \in 1 .. v PROVE ~ Removed(g, o, i, Shares)
  <2>1. i - 1 \in 0 .. V /\ i - 1 <= i - 1
    OBVIOUS
  <2>2. Before(g, o, i) = MassTo(g, o, i - 1)
    BY <2>1, BeforeIs, Zenon DEF Before, MassTo
  <2>3. MassTo(g, o, i - 1) \in Nat /\ Total(g) \in Nat /\ MassTo(g, o, i - 1) <= Total(g)
    BY <2>1, MassesGrow, Zenon
  <2>4. PICK b \in Nat, c \in Nat : b = Before(g, o, i) /\ c = Total(g) /\ b <= c
    BY <2>2, <2>3, Zenon
  <2>5. PICK m \in Nat, n \in Nat : m = Shares * b /\ n = Shares * c /\ m <= n
    <3>1. Shares \in Nat
      BY SamplingAssumption
    <3>2. Shares * b \in Nat /\ Shares * c \in Nat /\ Shares * b <= Shares * c
      BY <2>4, <3>1, TimesMonotone
    <3> QED BY <3>2
  <2>6. ~ (m > n)
    BY <2>5
  <2> QED BY <2>4, <2>5, <2>6, Zenon DEF Removed
<1>2. FilteredBy(g, o, Shares) = [t \in Tokens |-> g[t]]
  BY <1>1, Zenon DEF FilteredBy
<1> QED BY <1>2

LEMMA MaskedIs ==
  ASSUME NEW row \in [Tokens -> Nat], NEW mask
  PROVE  Masked(row, mask) \in [Tokens -> Nat] /\ \A t \in Tokens \cap mask : Masked(row, mask)[t] = 0
  BY DEF Masked

\* The drivers agree on every row whose mask leaves some mass.
THEOREM DriversDoAgree ==
  ASSUME NEW row \in [Tokens -> Nat], NEW mask, Total(Masked(row, mask)) > 0, NEW k \in Nat
  PROVE  DriversAgree(row, mask, k)
<1> PICK r : r = Masked(row, mask)
  OBVIOUS
<1>1. r \in [Tokens -> Nat] /\ (\A t \in Tokens \cap mask : r[t] = 0) /\ Total(r) > 0
  BY MaskedIs, Zenon
<1>2. BatchedNext(row, mask, TRUE, k, Shares) = GreedyNext(row, mask)
  BY Zenon DEF BatchedNext, GreedyNext, SampleBatch
<1>3. ASSUME k >= 1
      PROVE  BatchedNext(row, mask, FALSE, k, Shares) = SampleNext(row, mask, k)
  <2> PICK g : g = ApplyTopK(r, k)
    OBVIOUS
  <2>1. ReferenceTopK(r, k) = g
    BY <1>1, <1>3, TopKIs, Zenon
  <2>2. g \in [Tokens -> Nat]
    BY <1>1, TopKRow, Zenon DEF IsTop
  <2>3. \A f : f \in ApplyTopP(g, Shares) <=> \E o \in SortedOrders(g) : f = FilteredBy(g, o, Shares)
    BY DEF ApplyTopP, FilteredBy
  <2>4. \E o : IsRanking(g, o, Tokens, V)
    BY <2>2, RankingExists
  <2>5. \A f : f \in ApplyTopP(g, Shares) <=> f = g
    <3>1. \A o \in SortedOrders(g) : FilteredBy(g, o, Shares) = g
      BY <2>2, OrdersAre, NoTopP
    <3>2. PICK o : o \in SortedOrders(g)
      BY <2>4, OrdersAre
    <3> QED BY <2>3, <3>1, <3>2, Zenon
  <2>6. UNION { Support(f) : f \in ApplyTopP(g, Shares) } = Support(g)
    BY <2>5
  <2> QED BY <2>1, <2>6, Zenon DEF BatchedNext, SampleNext, SampleBatch
<1>4. ASSUME NEW t \in mask PROVE t \notin GreedyNext(row, mask)
  <2> SUFFICES ASSUME t \in ArgMax(r) PROVE FALSE
    BY Zenon DEF GreedyNext
  <2>1. r[t] > 0
    BY <1>1, LikeliestHasMass
  <2>2. r[t] = 0
    BY <1>1 DEF ArgMax
  <2> QED BY <2>1, <2>2
<1>5. ASSUME NEW t \in mask PROVE t \notin SampleNext(row, mask, k)
  <2> SUFFICES ASSUME t \in Support(ReferenceTopK(r, k)) PROVE FALSE
    BY Zenon DEF SampleNext
  <2>1. t \in Tokens /\ ReferenceTopK(r, k)[t] > 0
    BY DEF Support
  <2>2. ReferenceTopK(r, k)[t] = r[t] \/ ReferenceTopK(r, k)[t] = 0
    BY <2>1, Zenon DEF ReferenceTopK
  <2>3. r[t] = 0
    BY <1>1, <2>1
  <2> QED BY <2>1, <2>2, <2>3
<1>6. (GreedyNext(row, mask) \cup SampleNext(row, mask, k)) \cap mask = {}
  BY <1>4, <1>5
<1> QED BY <1>2, <1>3, <1>6, Zenon DEF DriversAgree

\* And so of the rows, masks, k and top_p of the run, for any vocabulary and Shares.
THEOREM FiltersLeaveNucleusHolds == MCSpec => []FiltersLeaveNucleus
<1>1. input \in Inputs \cup {<<"verify", None>>} => FiltersLeaveNucleus
  <2> SUFFICES ASSUME input \in Inputs \cup {<<"verify", None>>}, input[1] = "sampling"
               PROVE  /\ IsNucleus(Masked(input[2].row, input[2].mask), input[2].k, input[2].top_p)
                      /\ DriversAgree(input[2].row, input[2].mask, input[2].k)
    BY DEF FiltersLeaveNucleus, Given
  <2>1. PICK i : i = input[2] /\ i \in Sampled
    BY InputKinds
  <2>2. /\ i.row \in Rows /\ i.k \in {0, 1, 2, V + 1} /\ i.top_p \in 1 .. Shares
        /\ Total(Masked(i.row, i.mask)) > 0
    BY <2>1 DEF Sampled
  <2>3. i.row \in [Tokens -> Nat]
    BY <2>2, SamplingAssumption DEF Rows
  <2>4. i.k \in Nat /\ i.top_p \in 0 .. Shares
    BY <2>2, VocabularySize, SamplingAssumption
  <2>5. Masked(i.row, i.mask) \in [Tokens -> Nat]
    BY <2>3, MaskedIs
  <2>6. IsNucleus(Masked(i.row, i.mask), i.k, i.top_p)
    BY <2>2, <2>4, <2>5, FiltersLeaveANucleus, Zenon
  <2>7. DriversAgree(i.row, i.mask, i.k)
    BY <2>2, <2>3, <2>4, DriversDoAgree, Zenon
  <2> QED BY <2>1, <2>6, <2>7, Zenon
<1> QED BY <1>1, InputsStay, PTL

-----------------------------------------------------------------------------
(* The text of a request, byte by byte and token by token.                 *)

\* What bytes decode to.
Characters == Plain \cup {"<|endoftext|>", Accented}
CharactersOf(errors) == IF errors = "replace" THEN Characters \cup {Replacement} ELSE Characters

\* The byte at i is a character of its own, or it and the next one are one.
OwnCharacter(b, i) == b[i] \in Plain \/ <<b[i]>> = EndOfText
TwoBytes(b, i) == i < Len(b) /\ b[i] = Lead /\ b[i + 1] = Cont

\* The text from i on, given those from the next two places on.
TextFrom(b, errors, i, next, afterNext) ==
    IF OwnCharacter(b, i) THEN <<b[i]>> \o next
    ELSE IF TwoBytes(b, i) THEN <<Accented>> \o afterNext
    ELSE IF errors = "replace" THEN <<Replacement>> \o next
    ELSE << >>

Decodes(b, errors, g) ==
    g = [i \in 1 .. Len(b) + 1 |->
           IF i > Len(b) THEN << >> ELSE TextFrom(b, errors, i, g[i + 1], g[i + 2])]

\* Decode is the function its definition recurs on, which exists for any bytes.
LEMMA DecodeUnfolds ==
  ASSUME NEW b, NEW errors
  PROVE  Decode(b, errors) = (CHOOSE g : Decodes(b, errors, g))[1]
  BY Zenon DEF Decode, Decodes, TextFrom, OwnCharacter, TwoBytes

\* A character in front of a text.
LEMMA OneMore ==
  ASSUME NEW C, NEW c \in C, NEW s \in Seq(C)
  PROVE  /\ <<c>> \o s \in Seq(C) /\ Len(<<c>> \o s) = Len(s) + 1
         /\ (<<c>> \o s)[1] = c /\ \A i \in 1 .. Len(s) : (<<c>> \o s)[i + 1] = s[i]
<1>1. <<c>> \in Seq(C) /\ Len(<<c>>) = 1 /\ <<c>>[1] = c
  OBVIOUS
<1> PICK u : u = <<c>>
  OBVIOUS
<1> PICK n \in Nat : n = Len(s)
  BY LenProperties
<1>2. /\ u \o s \in Seq(C) /\ Len(u \o s) = 1 + n
      /\ \A i \in 1 .. 1 + n : (u \o s)[i] = IF i <= 1 THEN u[i] ELSE s[i - 1]
  BY <1>1, ConcatProperties
<1>3. (u \o s)[1] = c
  BY <1>1, <1>2
<1>4. ASSUME NEW i \in 1 .. n PROVE (u \o s)[i + 1] = s[i]
  <2>1. i + 1 \in 1 .. 1 + n /\ ~ (i + 1 <= 1) /\ (i + 1) - 1 = i
    OBVIOUS
  <2>2. (u \o s)[i + 1] = IF i + 1 <= 1 THEN u[i + 1] ELSE s[(i + 1) - 1]
    BY <1>2, <2>1
  <2> QED BY <2>1, <2>2
<1> QED BY <1>2, <1>3, <1>4

\* Decoding makes texts.
LEMMA TextFromType ==
  ASSUME NEW b, NEW errors, NEW i, NEW next \in Seq(CharactersOf(errors)),
         NEW afterNext \in Seq(CharactersOf(errors))
  PROVE  TextFrom(b, errors, i, next, afterNext) \in Seq(CharactersOf(errors))
<1> PICK C : C = CharactersOf(errors)
  OBVIOUS
<1>1. OwnCharacter(b, i) => b[i] \in C
  <2>1. <<b[i]>> = EndOfText => b[i] = "<|endoftext|>"
    BY DEF EndOfText
  <2> QED BY <2>1 DEF OwnCharacter, CharactersOf, Characters
<1>2. Accented \in C /\ (errors = "replace" => Replacement \in C)
  BY DEF CharactersOf, Characters
<1>3. \A c \in C : <<c>> \o next \in Seq(C) /\ <<c>> \o afterNext \in Seq(C)
  BY OneMore
<1>4. << >> \in Seq(C)
  OBVIOUS
<1> QED BY <1>1, <1>2, <1>3, <1>4, Zenon DEF TextFrom

LEMMA DecodingExists ==
  ASSUME NEW B, NEW b \in Seq(B), NEW errors
  PROVE  \E g : Decodes(b, errors, g)
<1> PICK n \in Nat : n = Len(b)
  BY LenProperties
<1> PICK T : T = Seq(CharactersOf(errors))
  OBVIOUS
<1>1. << >> \in T
  OBVIOUS
<1> PICK base : base = << << >>, << >> >>
  OBVIOUS
<1>0. base \in T \X T
  BY <1>1
<1> DEFINE Next2(j, v) == <<TextFrom(b, errors, n + 1 - j, v[1], v[2]), v[1]>>
           step == [u \in (1 .. n) \X (T \X T) |-> Next2(u[1], u[2])]
<1>2. \A j, v : v \in T \X T => Next2(j, v) \in T \X T
  BY TextFromType
<1>3. step \in [(1 .. n) \X (T \X T) -> T \X T]
  <2>1. \A u \in (1 .. n) \X (T \X T) : u[2] \in T \X T
    OBVIOUS
  <2> HIDE DEF Next2
  <2> QED BY <1>2, <2>1
<1>4. \A j \in 1 .. n, v \in T \X T : step[<<j, v>>] = Next2(j, v)
  OBVIOUS
<1> HIDE DEF step
<1>5. PICK f \in [0 .. n -> T \X T] : IsChain(n, base, step, f)
  BY <1>0, <1>3, ChainExists, Zenon
<1>6. f[0] = base /\ \A j \in 1 .. n : f[j] = Next2(j, f[j - 1])
  <2>1. f[0] = base /\ \A j \in 1 .. n : f[j] = step[<<j, f[j - 1]>>]
    BY <1>5, Zenon DEF IsChain
  <2>2. \A j \in 1 .. n : j - 1 \in 0 .. n
    OBVIOUS
  <2>3. \A j \in 1 .. n : f[j - 1] \in T \X T
    BY <2>2
  <2> HIDE DEF Next2
  <2> QED BY <1>4, <2>1, <2>3, Zenon
<1> PICK g : g = [i \in 1 .. n + 1 |-> f[n + 1 - i][1]]
  OBVIOUS
<1>7. g[n + 1] = << >>
  <2>1. n + 1 \in 1 .. n + 1 /\ n + 1 - (n + 1) = 0
    OBVIOUS
  <2>2. g[n + 1] = f[0][1]
    BY <2>1
  <2> QED BY <1>6, <2>2
<1>8. ASSUME NEW i \in 1 .. n
      PROVE  g[i] = TextFrom(b, errors, i, g[i + 1], g[i + 2])
  <2>0. n + 1 - i \in 1 .. n
    OBVIOUS
  <2> PICK j \in 1 .. n : j = n + 1 - i
    BY <2>0
  <2>1. i \in 1 .. n + 1 /\ i + 1 \in 1 .. n + 1 /\ n + 1 - (i + 1) = j - 1 /\ n + 1 - j = i
    OBVIOUS
  <2>2. g[i] = f[j][1] /\ g[i + 1] = f[j - 1][1]
    BY <2>1
  <2>3. f[j][1] = TextFrom(b, errors, i, f[j - 1][1], f[j - 1][2])
    <3>1. f[j] = <<TextFrom(b, errors, n + 1 - j, f[j - 1][1], f[j - 1][2]), f[j - 1][1]>>
      BY <1>6
    <3>2. f[j] = <<TextFrom(b, errors, i, f[j - 1][1], f[j - 1][2]), f[j - 1][1]>>
      BY <2>1, <3>1
    <3> QED BY <3>2
  <2>4. CASE j = 1
    <3>1. i = n
      BY <2>4
    <3>2. ~ TwoBytes(b, i)
      BY <3>1 DEF TwoBytes
    <3> QED BY <2>2, <2>3, <3>2, Zenon DEF TextFrom
  <2>5. CASE j # 1
    <3>0. j - 1 \in 1 .. n
      BY <2>5
    <3> PICK k \in 1 .. n : k = j - 1
      BY <3>0
    <3>1. i + 2 \in 1 .. n + 1 /\ n + 1 - (i + 2) = k - 1
      BY <2>5
    <3>2. g[i + 2] = f[k - 1][1]
      BY <3>1
    <3>3. f[k] = <<TextFrom(b, errors, n + 1 - k, f[k - 1][1], f[k - 1][2]), f[k - 1][1]>>
      BY <1>6
    <3>4. f[k][2] = f[k - 1][1]
      BY <3>3
    <3> QED BY <2>2, <2>3, <3>2, <3>4
  <2> QED BY <2>4, <2>5
<1>9. \A i \in 1 .. n + 1 : i > n => i = n + 1
  OBVIOUS
<1>10. \A i \in 1 .. n + 1 : ~ (i > n) => i \in 1 .. n
  OBVIOUS
<1>11. \A i \in 1 .. n + 1 :
         g[i] = IF i > n THEN << >> ELSE TextFrom(b, errors, i, g[i + 1], g[i + 2])
  BY <1>7, <1>8, <1>9, <1>10, Zenon
<1>12. g = [i \in 1 .. n + 1 |-> IF i > n THEN << >> ELSE TextFrom(b, errors, i, g[i + 1], g[i + 2])]
  BY <1>11, Zenon
<1>13. Decodes(b, errors, g)
  <2> PICK m : m = Len(b)
    OBVIOUS
  <2>1. g = [i \in 1 .. m + 1 |-> IF i > m THEN << >> ELSE TextFrom(b, errors, i, g[i + 1], g[i + 2])]
    BY <1>12
  <2> QED BY <2>1, Zenon DEF Decodes
<1> QED BY <1>13

\* g[i] is what the bytes from i on decode to.
IsDecoding(b, errors, n, g) ==
    /\ g[1] = Decode(b, errors) /\ g[n + 1] = << >>
    /\ \A i \in 1 .. n : g[i] = TextFrom(b, errors, i, g[i + 1], g[i + 2])

\* So there are texts of the bytes from any place on, each made of the next ones.
LEMMA DecodingIs ==
  ASSUME NEW B, NEW b \in Seq(B), NEW errors, NEW n \in Nat, n = Len(b)
  PROVE  \E g \in [1 .. n + 1 -> Seq(CharactersOf(errors))] : IsDecoding(b, errors, n, g)
<1> PICK g : Decodes(b, errors, g) /\ g[1] = Decode(b, errors)
  BY DecodingExists, DecodeUnfolds, Zenon
<1> PICK T : T = Seq(CharactersOf(errors))
  OBVIOUS
<1>1. g = [i \in 1 .. n + 1 |-> IF i > n THEN << >> ELSE TextFrom(b, errors, i, g[i + 1], g[i + 2])]
  <2> PICK m : m = Len(b)
    OBVIOUS
  <2>1. g = [i \in 1 .. m + 1 |-> IF i > m THEN << >> ELSE TextFrom(b, errors, i, g[i + 1], g[i + 2])]
    BY Zenon DEF Decodes
  <2> QED BY <2>1
<1>2. \A i \in 1 .. n + 1 : g[i] = IF i > n THEN << >> ELSE TextFrom(b, errors, i, g[i + 1], g[i + 2])
  BY <1>1, Zenon
<1>3. g[n + 1] = << >>
  <2>1. n + 1 \in 1 .. n + 1 /\ n + 1 > n
    OBVIOUS
  <2> QED BY <1>2, <2>1, Zenon
<1>4. \A i \in 1 .. n : g[i] = TextFrom(b, errors, i, g[i + 1], g[i + 2])
  <2>1. \A i \in 1 .. n : i \in 1 .. n + 1 /\ ~ (i > n)
    OBVIOUS
  <2> QED BY <1>2, <2>1, Zenon
<1>5. \A i \in 1 .. n + 1 : g[i] \in T
  <2> DEFINE Bad == { i \in 1 .. n + 1 : g[i] \notin T }
  <2> SUFFICES ASSUME Bad # {} PROVE FALSE
    OBVIOUS
  <2>1. PICK k \in Bad : \A i \in Bad : i <= k
    <3>1. n + 1 \in Nat /\ Bad \in SUBSET (1 .. n + 1)
      OBVIOUS
    <3> HIDE DEF Bad
    <3> QED BY <3>1, MaxIndex
  <2>2. << >> \in T
    OBVIOUS
  <2>3. k \in 1 .. n
    <3>1. g[k] \notin T /\ k \in 1 .. n + 1
      OBVIOUS
    <3>2. k # n + 1
      BY <1>3, <2>2, <3>1, Zenon
    <3> QED BY <3>1, <3>2
  <2>4. g[k + 1] \in T
    <3>1. k + 1 \in 1 .. n + 1 /\ ~ (k + 1 <= k)
      BY <2>3
    <3> QED BY <2>1, <3>1
  <2>5. CASE k = n
    <3>1. ~ TwoBytes(b, k)
      BY <2>5 DEF TwoBytes
    <3>2. TextFrom(b, errors, k, g[k + 1], g[k + 2]) = TextFrom(b, errors, k, g[k + 1], << >>)
      BY <3>1, Zenon DEF TextFrom
    <3>3. TextFrom(b, errors, k, g[k + 1], << >>) \in T
      BY <2>2, <2>4, TextFromType, Zenon
    <3> QED BY <1>4, <2>3, <3>2, <3>3
  <2>6. CASE k # n
    <3>1. k + 2 \in 1 .. n + 1 /\ ~ (k + 2 <= k)
      BY <2>3, <2>6
    <3>2. g[k + 2] \in T
      BY <2>1, <3>1
    <3>3. TextFrom(b, errors, k, g[k + 1], g[k + 2]) \in T
      BY <2>4, <3>2, TextFromType, Zenon
    <3> QED BY <1>4, <2>3, <3>3
  <2> QED BY <2>5, <2>6
<1>6. g \in [1 .. n + 1 -> T]
  BY <1>1, <1>5, Zenon
<1> QED BY <1>3, <1>4, <1>6, Zenon DEF IsDecoding

\* s is what t begins with.
Begins(s, t) == Len(s) <= Len(t) /\ \A i \in 1 .. Len(s) : s[i] = t[i]

\* A character in front of both.
LEMMA BeginsLater ==
  ASSUME NEW C, NEW c \in C, NEW s \in Seq(C), NEW t \in Seq(C), Begins(s, t)
  PROVE  Begins(<<c>> \o s, <<c>> \o t)
<1> PICK m \in Nat, n \in Nat : m = Len(s) /\ n = Len(t)
  BY LenProperties
<1> PICK u, v : u = <<c>> \o s /\ v = <<c>> \o t
  OBVIOUS
<1>1. m <= n /\ \A i \in 1 .. m : s[i] = t[i]
  BY DEF Begins
<1>2. Len(u) = m + 1 /\ u[1] = c /\ \A i \in 1 .. m : u[i + 1] = s[i]
  BY OneMore
<1>3. Len(v) = n + 1 /\ v[1] = c /\ \A i \in 1 .. n : v[i + 1] = t[i]
  BY OneMore
<1>4. Len(u) <= Len(v)
  BY <1>1, <1>2, <1>3
<1>5. ASSUME NEW i \in 1 .. m + 1 PROVE u[i] = v[i]
  <2>1. CASE i = 1
    BY <1>2, <1>3, <2>1
  <2>2. CASE i # 1
    <3>1. i - 1 \in 1 .. m /\ i - 1 \in 1 .. n /\ (i - 1) + 1 = i
      BY <1>1, <2>2
    <3> PICK j : j = i - 1
      OBVIOUS
    <3>2. u[j + 1] = s[j] /\ v[j + 1] = t[j] /\ s[j] = t[j] /\ j + 1 = i
      BY <1>1, <1>2, <1>3, <3>1
    <3> QED BY <3>2
  <2> QED BY <2>1, <2>2
<1> QED BY <1>2, <1>4, <1>5 DEF Begins

\* What is decoded strictly stays, whatever bytes come and however they are decoded.
LEMMA DecodeBegins ==
  ASSUME NEW B, NEW a \in Seq(B), NEW b \in Seq(B), Begins(a, b), NEW errors
  PROVE  Begins(Decode(a, "strict"), Decode(b, errors))
<1> PICK m \in Nat, n \in Nat : m = Len(a) /\ n = Len(b)
  BY LenProperties
<1>1. m <= n /\ \A i \in 1 .. m : a[i] = b[i]
  BY DEF Begins
<1> PICK C : C = CharactersOf(errors)
  OBVIOUS
<1>2. PICK g \in [1 .. m + 1 -> Seq(C)] :
        /\ g[1] = Decode(a, "strict") /\ g[m + 1] = << >>
        /\ \A i \in 1 .. m : g[i] = TextFrom(a, "strict", i, g[i + 1], g[i + 2])
  <2>1. PICK g \in [1 .. m + 1 -> Seq(CharactersOf("strict"))] : IsDecoding(a, "strict", m, g)
    BY DecodingIs
  <2>2. CharactersOf("strict") \subseteq C
    BY DEF CharactersOf
  <2>3. \A s \in Seq(CharactersOf("strict")) : s \in Seq(C)
    BY <2>2, SeqMonotonic
  <2>4. g \in [1 .. m + 1 -> Seq(C)]
    BY <2>3
  <2> QED BY <2>1, <2>4, Zenon DEF IsDecoding
<1>3. PICK h \in [1 .. n + 1 -> Seq(C)] :
        /\ h[1] = Decode(b, errors) /\ h[n + 1] = << >>
        /\ \A i \in 1 .. n : h[i] = TextFrom(b, errors, i, h[i + 1], h[i + 2])
  <2>1. PICK h \in [1 .. n + 1 -> Seq(CharactersOf(errors))] : IsDecoding(b, errors, n, h)
    BY DecodingIs
  <2> QED BY <2>1, Zenon DEF IsDecoding
<1> DEFINE Bad == { i \in 1 .. m + 1 : ~ Begins(g[i], h[i]) }
<1>4. Bad = {}
  <2> SUFFICES ASSUME Bad # {} PROVE FALSE
    OBVIOUS
  <2>1. PICK k \in Bad : \A i \in Bad : i <= k
    <3>1. m + 1 \in Nat /\ Bad \in SUBSET (1 .. m + 1)
      OBVIOUS
    <3> HIDE DEF Bad
    <3> QED BY <3>1, MaxIndex
  <2>2. \A i \in 1 .. m + 1 : i \in 1 .. n + 1 /\ g[i] \in Seq(C) /\ h[i] \in Seq(C)
    <3>1. \A i \in 1 .. m + 1 : i \in 1 .. n + 1
      BY <1>1
    <3> QED BY <3>1, Zenon
  <2>3. \A s \in Seq(C) : Begins(<< >>, s)
    BY DEF Begins
  <2>4. k \in 1 .. m
    <3>1. k # m + 1
      BY <1>2, <2>2, <2>3
    <3> QED BY <3>1
  <2>5. k \in 1 .. n /\ k \in 1 .. m + 1 /\ a[k] = b[k]
    BY <1>1, <2>4
  <2>6. g[k + 1] \in Seq(C) /\ h[k + 1] \in Seq(C) /\ Begins(g[k + 1], h[k + 1])
    <3>1. k + 1 \in 1 .. m + 1 /\ ~ (k + 1 <= k)
      BY <2>4
    <3> QED BY <2>1, <2>2, <3>1
  <2>7. /\ g[k] = TextFrom(a, "strict", k, g[k + 1], g[k + 2])
        /\ h[k] = TextFrom(b, errors, k, h[k + 1], h[k + 2])
        /\ OwnCharacter(a, k) <=> OwnCharacter(b, k)
    BY <1>2, <1>3, <2>4, <2>5, Zenon DEF OwnCharacter
  <2>8. CASE OwnCharacter(a, k)
    <3>1. g[k] = <<a[k]>> \o g[k + 1] /\ h[k] = <<a[k]>> \o h[k + 1]
      BY <2>5, <2>7, <2>8, Zenon DEF TextFrom
    <3>2. a[k] \in C
      <4>1. <<a[k]>> = EndOfText => a[k] = "<|endoftext|>"
        BY DEF EndOfText
      <4> QED BY <2>8, <4>1 DEF OwnCharacter, CharactersOf, Characters
    <3>3. Begins(g[k], h[k])
      BY <2>6, <3>1, <3>2, BeginsLater, Zenon
    <3> QED BY <3>3
  <2>9. CASE ~ OwnCharacter(a, k) /\ TwoBytes(a, k)
    <3>1. k < m /\ k + 1 \in 1 .. m
      BY <2>4, <2>9 DEF TwoBytes
    <3>2. TwoBytes(b, k)
      <4>1. k < n /\ a[k + 1] = b[k + 1]
        BY <1>1, <3>1
      <4> QED BY <2>5, <2>9, <4>1 DEF TwoBytes
    <3>3. g[k] = <<Accented>> \o g[k + 2] /\ h[k] = <<Accented>> \o h[k + 2]
      BY <2>7, <2>9, <3>2, Zenon DEF TextFrom
    <3>4. k + 2 \in 1 .. m + 1 /\ ~ (k + 2 <= k)
      BY <3>1
    <3>5. g[k + 2] \in Seq(C) /\ h[k + 2] \in Seq(C) /\ Begins(g[k + 2], h[k + 2])
      BY <2>1, <2>2, <3>4
    <3>6. Accented \in C
      BY DEF CharactersOf, Characters
    <3>7. Begins(g[k], h[k])
      BY <3>3, <3>5, <3>6, BeginsLater, Zenon
    <3> QED BY <3>7
  <2>10. CASE ~ OwnCharacter(a, k) /\ ~ TwoBytes(a, k)
    <3>1. g[k] = << >>
      <4>1. "strict" # "replace"
        OBVIOUS
      <4> QED BY <2>7, <2>10, <4>1, Zenon DEF TextFrom
    <3> QED BY <2>2, <2>3, <2>5, <3>1
  <2> QED BY <2>8, <2>9, <2>10
<1>5. Begins(g[1], h[1])
  <2>1. 1 \in 1 .. m + 1
    OBVIOUS
  <2> QED BY <1>4, <2>1
<1> QED BY <1>2, <1>3, <1>5

LEMMA DecodeType ==
  ASSUME NEW B, NEW b \in Seq(B), NEW errors
  PROVE  Decode(b, errors) \in Seq(CharactersOf(errors))
<1> PICK n \in Nat : n = Len(b)
  BY LenProperties
<1>1. PICK g \in [1 .. n + 1 -> Seq(CharactersOf(errors))] : g[1] = Decode(b, errors)
  <2>1. PICK g \in [1 .. n + 1 -> Seq(CharactersOf(errors))] : IsDecoding(b, errors, n, g)
    BY DecodingIs
  <2> QED BY <2>1, Zenon DEF IsDecoding
<1>2. 1 \in 1 .. n + 1
  OBVIOUS
<1> QED BY <1>1, <1>2

\* f joins the first tokens, one after the other.
Flattens(ids, f) ==
    f = [i \in 1 .. Len(ids) |-> IF i = 1 THEN ids[i] ELSE f[i - 1] \o ids[i]]

\* The bytes of tokens likewise.
LEMMA BytesUnfold ==
  ASSUME NEW ids
  PROVE  Bytes(ids) = IF Len(ids) = 0 THEN ids ELSE (CHOOSE f : Flattens(ids, f))[Len(ids)]
  BY Zenon DEF Bytes, FlattenSeq, Flattens

Joins(ids, n, f) == \A i \in 1 .. n : f[i] = IF i = 1 THEN ids[1] ELSE f[i - 1] \o ids[i]

LEMMA FlattensExists ==
  ASSUME NEW B, NEW ids \in Seq(Seq(B)), NEW n \in Nat, n = Len(ids)
  PROVE  \E f : Flattens(ids, f)
<1> PICK T : T = Seq(B)
  OBVIOUS
<1> PICK d : d = << >>
  OBVIOUS
<1>1. d \in T /\ \A i \in 1 .. n : ids[i] \in T
  BY LenProperties
<1> DEFINE step == [u \in (1 .. n) \X T |-> u[2] \o ids[u[1]]]
<1>2. \A s \in T, t \in T : s \o t \in T
  BY ConcatProperties
<1>3. \A u \in (1 .. n) \X T : u[1] \in 1 .. n /\ u[2] \in T
  OBVIOUS
<1>4. step \in [(1 .. n) \X T -> T]
  BY <1>1, <1>2, <1>3, Zenon
<1>5. \A i \in 1 .. n, s \in T : step[<<i, s>>] = s \o ids[i]
  OBVIOUS
<1> HIDE DEF step
<1>6. PICK f \in [0 .. n -> T] : IsChain(n, d, step, f)
  BY <1>1, <1>4, ChainExists, Zenon
<1>7. \A i \in 1 .. n : i - 1 \in 0 .. n
  OBVIOUS
<1>8. \A i \in 1 .. n : f[i] = f[i - 1] \o ids[i]
  BY <1>5, <1>6, <1>7, Zenon DEF IsChain
<1>9. ASSUME NEW i \in 1 .. n, i = 1 PROVE f[i] = ids[i]
  <2>0. i - 1 = 0
    BY <1>9
  <2>1. f[i] = f[0] \o ids[i]
    BY <1>8, <2>0, Zenon
  <2>2. f[0] = << >>
    BY <1>6, Zenon DEF IsChain
  <2>3. \A s \in T : << >> \o s = s
    BY ConcatEmptySeq
  <2> QED BY <1>1, <2>1, <2>2, <2>3, Zenon
<1> PICK h : h = [i \in 1 .. n |-> f[i]]
  OBVIOUS
<1>10. \A i \in 1 .. n : h[i] = IF i = 1 THEN ids[i] ELSE h[i - 1] \o ids[i]
  <2> SUFFICES ASSUME NEW i \in 1 .. n PROVE h[i] = IF i = 1 THEN ids[i] ELSE h[i - 1] \o ids[i]
    OBVIOUS
  <2>1. i # 1 => i - 1 \in 1 .. n
    OBVIOUS
  <2>2. i # 1 => h[i - 1] = f[i - 1]
    BY <2>1, Zenon
  <2> QED BY <1>8, <1>9, <2>2, Zenon
<1>11. h = [i \in 1 .. n |-> IF i = 1 THEN ids[i] ELSE h[i - 1] \o ids[i]]
  BY <1>10, Zenon
<1>12. Flattens(ids, h)
  <2> PICK m : m = Len(ids)
    OBVIOUS
  <2>1. h = [i \in 1 .. m |-> IF i = 1 THEN ids[i] ELSE h[i - 1] \o ids[i]]
    BY <1>11
  <2> QED BY <2>1, Zenon DEF Flattens
<1> QED BY <1>12

LEMMA FlattensIs ==
  ASSUME NEW B, NEW ids \in Seq(Seq(B)), NEW n \in Nat \ {0}, n = Len(ids)
  PROVE  \E f \in [1 .. n -> Seq(B)] : Bytes(ids) = f[n] /\ Joins(ids, n, f)
<1>1. PICK f : Flattens(ids, f) /\ f = CHOOSE h : Flattens(ids, h)
  BY FlattensExists, Zenon
<1>2. Bytes(ids) = f[n]
  BY <1>1, BytesUnfold, Zenon
<1>3. f = [i \in 1 .. n |-> IF i = 1 THEN ids[i] ELSE f[i - 1] \o ids[i]]
  <2> PICK m : m = Len(ids)
    OBVIOUS
  <2>1. f = [i \in 1 .. m |-> IF i = 1 THEN ids[i] ELSE f[i - 1] \o ids[i]]
    BY <1>1, Zenon DEF Flattens
  <2> QED BY <2>1
<1>4. Joins(ids, n, f)
  BY <1>3, Zenon DEF Joins
<1>5. \A i \in 1 .. n : f[i] \in Seq(B)
  <2> DEFINE Bad == { i \in Nat : i \in 1 .. n /\ f[i] \notin Seq(B) }
  <2> SUFFICES ASSUME Bad # {} PROVE FALSE
    OBVIOUS
  <2>1. PICK k \in Bad : \A i \in Nat : i < k => i \notin Bad
    <3>1. Bad \in SUBSET Nat
      OBVIOUS
    <3> HIDE DEF Bad
    <3> QED BY <3>1, FirstNat
  <2>2. k \in 1 .. n /\ f[k] \notin Seq(B) /\ ids[k] \in Seq(B)
    BY LenProperties
  <2>3. k # 1
    BY <1>4, <2>2, Zenon DEF Joins
  <2>4. k - 1 \in 1 .. n /\ k - 1 < k
    BY <2>2, <2>3
  <2>5. f[k - 1] \in Seq(B)
    BY <2>1, <2>4
  <2>6. f[k] = f[k - 1] \o ids[k]
    BY <1>4, <2>2, <2>3, Zenon DEF Joins
  <2> QED BY <2>2, <2>5, <2>6, ConcatProperties
<1>6. f \in [1 .. n -> Seq(B)]
  BY <1>3, <1>5, Zenon
<1> QED BY <1>2, <1>4, <1>6, Zenon

\* The bytes of one token more.
LEMMA BytesAppend ==
  ASSUME NEW B, NEW ids \in Seq(Seq(B)), NEW t \in Seq(B)
  PROVE  /\ Bytes(ids) \in Seq(B) /\ Bytes(Append(ids, t)) \in Seq(B)
         /\ Bytes(Append(ids, t)) = Bytes(ids) \o t
<1> PICK n \in Nat : n = Len(ids)
  BY LenProperties
<1> PICK more : more = Append(ids, t)
  OBVIOUS
<1>1. /\ more \in Seq(Seq(B)) /\ n + 1 = Len(more) /\ n + 1 \in Nat \ {0}
      /\ more[n + 1] = t /\ \A i \in 1 .. n : more[i] = ids[i]
  OBVIOUS
<1>2. PICK h \in [1 .. n + 1 -> Seq(B)] : Bytes(more) = h[n + 1] /\ Joins(more, n + 1, h)
  BY <1>1, FlattensIs
<1>3. Bytes(more) \in Seq(B)
  <2>1. n + 1 \in 1 .. n + 1
    OBVIOUS
  <2> QED BY <1>2, <2>1
<1>4. CASE n = 0
  <2>1. ids = << >> /\ Len(ids) = 0
    BY <1>4, EmptySeq
  <2>2. Bytes(ids) = << >>
    BY <2>1, BytesUnfold, Zenon
  <2>3. 1 \in 1 .. n + 1 /\ n + 1 = 1
    BY <1>4
  <2>4. h[1] = more[1]
    BY <1>2, <2>3, Zenon DEF Joins
  <2>5. Bytes(more) = t
    BY <1>1, <1>2, <2>3, <2>4
  <2>6. << >> \in Seq(B) /\ << >> \o t = t
    BY ConcatEmptySeq
  <2> QED BY <1>3, <2>2, <2>5, <2>6
<1>5. CASE n # 0
  <2>0. n \in Nat \ {0}
    BY <1>5
  <2>1. PICK f \in [1 .. n -> Seq(B)] : Bytes(ids) = f[n] /\ Joins(ids, n, f)
    BY <2>0, FlattensIs
  <2>2. \A i \in 1 .. n : h[i] = f[i]
    <3> DEFINE Bad == { i \in Nat : i \in 1 .. n /\ h[i] # f[i] }
    <3>1. ASSUME Bad # {} PROVE FALSE
      <4>1. PICK k \in Bad : \A i \in Nat : i < k => i \notin Bad
        <5>1. Bad \in SUBSET Nat
          OBVIOUS
        <5> HIDE DEF Bad
        <5> QED BY <3>1, <5>1, FirstNat
      <4>2. k \in 1 .. n /\ h[k] # f[k] /\ k \in 1 .. n + 1 /\ more[k] = ids[k]
        BY <1>1
      <4>3. /\ f[k] = IF k = 1 THEN ids[1] ELSE f[k - 1] \o ids[k]
            /\ h[k] = IF k = 1 THEN more[1] ELSE h[k - 1] \o more[k]
        BY <1>2, <2>1, <4>2, Zenon DEF Joins
      <4>4. k # 1
        BY <4>2, <4>3
      <4>5. k - 1 \in Nat /\ k - 1 < k /\ k - 1 \in 1 .. n
        BY <4>2, <4>4
      <4>6. h[k - 1] = f[k - 1]
        BY <4>1, <4>5
      <4> QED BY <4>2, <4>3, <4>4, <4>6, Zenon
    <3>2. \A i \in 1 .. n : i \in Nat
      OBVIOUS
    <3> QED BY <3>1, <3>2
  <2>3. n \in 1 .. n /\ n + 1 \in 1 .. n + 1 /\ n + 1 # 1 /\ (n + 1) - 1 = n
    BY <2>0
  <2>4. h[n + 1] = h[(n + 1) - 1] \o more[n + 1]
    BY <1>2, <2>3, Zenon DEF Joins
  <2>5. Bytes(more) = Bytes(ids) \o t
    BY <1>1, <1>2, <2>1, <2>2, <2>3, <2>4
  <2>6. Bytes(ids) \in Seq(B)
    BY <2>1, <2>3
  <2> QED BY <1>3, <2>5, <2>6
<1> QED BY <1>4, <1>5

\* Tokens have bytes.
LEMMA BytesType ==
  ASSUME NEW B, NEW ids \in Seq(Seq(B))
  PROVE  Bytes(ids) \in Seq(B)
<1>1. << >> \in Seq(B)
  OBVIOUS
<1> QED BY <1>1, BytesAppend

\* A sequence begins what it is put in front of.
LEMMA BeginsConcat ==
  ASSUME NEW C, NEW s \in Seq(C), NEW t \in Seq(C)
  PROVE  Begins(s, s \o t)
<1>1. Len(s) \in Nat /\ Len(t) \in Nat
  BY LenProperties
<1>2. /\ Len(s \o t) = Len(s) + Len(t)
      /\ \A i \in 1 .. Len(s) + Len(t) : (s \o t)[i] = IF i <= Len(s) THEN s[i] ELSE t[i - Len(s)]
  BY ConcatProperties
<1>3. \A i \in 1 .. Len(s) : i \in 1 .. Len(s) + Len(t) /\ i <= Len(s)
  BY <1>1
<1>4. \A i \in 1 .. Len(s) : s[i] = (s \o t)[i]
  BY <1>2, <1>3, Zenon
<1>5. Len(s) <= Len(s \o t)
  BY <1>1, <1>2
<1> QED BY <1>4, <1>5 DEF Begins

\* A string at a place of a text.
At(text, string, i) ==
    i + Len(string) <= Len(text) /\ \A j \in 1 .. Len(string) : text[i + j] = string[j]

Places(text, string) == { i \in Nat : At(text, string, i) }

LEMMA PlaceIs ==
  ASSUME NEW C, NEW text \in Seq(C), NEW string \in Seq(C), NEW i \in Nat,
         i + Len(string) <= Len(text)
  PROVE  SubSeq(text, i + 1, i + Len(string)) = string <=> At(text, string, i)
<1> PICK n \in Nat, k \in Nat : n = Len(text) /\ k = Len(string)
  BY LenProperties
<1> PICK lo \in Int, hi \in Int : lo = i + 1 /\ hi = i + k
  OBVIOUS
<1> PICK part : part = SubSeq(text, lo, hi)
  OBVIOUS
<1>1. \A j \in lo .. hi : text[j] \in C
  <2>1. \A j \in lo .. hi : j \in 1 .. n
    OBVIOUS
  <2> QED BY <2>1, LenProperties
<1>2. /\ part \in Seq(C) /\ Len(part) = IF lo <= hi THEN hi - lo + 1 ELSE 0
      /\ \A j \in 1 .. hi - lo + 1 : part[j] = text[lo + j - 1]
  BY <1>1, SubSeqProperties
<1>3. Len(part) = k /\ hi - lo + 1 = k
  BY <1>2
<1>4. \A j \in 1 .. k : lo + j - 1 = i + j
  OBVIOUS
<1>5. \A j \in 1 .. k : part[j] = text[i + j]
  BY <1>2, <1>3, <1>4
<1>6. part = string => \A j \in 1 .. k : text[i + j] = string[j]
  BY <1>5
<1>7. (\A j \in 1 .. k : text[i + j] = string[j]) => part = string
  <2> SUFFICES ASSUME \A j \in 1 .. k : text[i + j] = string[j] PROVE part = string
    OBVIOUS
  <2>1. \A j \in 1 .. Len(part) : part[j] = string[j]
    BY <1>3, <1>5
  <2> QED BY <1>2, <1>3, <2>1, SeqEqual
<1>8. SubSeq(text, i + 1, i + Len(string)) = part
  OBVIOUS
<1>9. At(text, string, i) <=> \A j \in 1 .. k : text[i + j] = string[j]
  BY DEF At
<1> QED BY <1>6, <1>7, <1>8, <1>9

\* Where the search finds a string: at the first of its places, if there is one.
IsFound(text, string, f) ==
    IF Places(text, string) = {} THEN f = -1
    ELSE f \in Places(text, string) /\ \A i \in Places(text, string) : f <= i

\* The search finds the first place.
LEMMA FindIs ==
  ASSUME NEW C, NEW text \in Seq(C), NEW string \in Seq(C)
  PROVE  /\ IsFound(text, string, Find(text, string))
         /\ Occurs(text, string) <=> Places(text, string) # {}
<1> PICK n \in Nat, k \in Nat : n = Len(text) /\ k = Len(string)
  BY LenProperties
<1> DEFINE at == { i \in 0 .. n - k : SubSeq(text, i + 1, i + k) = string }
<1>1. at = Places(text, string)
  <2>1. ASSUME NEW i \in 0 .. n - k
        PROVE  i \in Nat /\ (SubSeq(text, i + 1, i + k) = string <=> At(text, string, i))
    <3>1. i \in Nat /\ i + Len(string) <= Len(text)
      OBVIOUS
    <3> QED BY <3>1, PlaceIs
  <2>2. ASSUME NEW i \in Nat, At(text, string, i) PROVE i \in 0 .. n - k
    <3>1. i + k <= n
      BY <2>2 DEF At
    <3> QED BY <3>1
  <2> QED BY <2>1, <2>2, Zenon DEF Places
<1>2. Find(text, string) = IF at = {} THEN -1 ELSE Min(at)
  <2> PICK a : a = { i \in 0 .. Len(text) - Len(string) : SubSeq(text, i + 1, i + Len(string)) = string }
    OBVIOUS
  <2>1. a = at
    OBVIOUS
  <2>2. Find(text, string) = IF a = {} THEN -1 ELSE Min(a)
    BY Zenon DEF Find
  <2> QED BY <2>1, <2>2, Zenon
<1> PICK T : T = Places(text, string)
  OBVIOUS
<1>3. T \in SUBSET Nat
  BY DEF Places
<1>4. Find(text, string) = IF T = {} THEN -1 ELSE Min(T)
  BY <1>1, <1>2, Zenon
<1>5. CASE T = {}
  <2>1. Find(text, string) = -1
    BY <1>4, <1>5, Zenon
  <2> QED BY <1>5, <2>1, Zenon DEF IsFound, Occurs
<1>6. CASE T # {}
  <2>1. Min(T) \in T /\ \A i \in T : Min(T) <= i
    BY <1>3, <1>6, MinNat
  <2>2. Find(text, string) = Min(T)
    BY <1>4, <1>6, Zenon
  <2>3. Min(T) # -1
    BY <1>3, <2>1
  <2>4. IsFound(text, string, Find(text, string))
    BY <1>6, <2>1, <2>2, Zenon DEF IsFound
  <2>5. Occurs(text, string)
    BY <2>2, <2>3, Zenon DEF Occurs
  <2> QED BY <1>6, <2>4, <2>5
<1> QED BY <1>5, <1>6

\* More text leaves what was found where it was.
LEMMA PlacesBegin ==
  ASSUME NEW C, NEW s \in Seq(C), NEW t \in Seq(C), Begins(s, t), NEW string \in Seq(C),
         NEW i \in Nat
  PROVE  At(s, string, i) <=> At(t, string, i) /\ i + Len(string) <= Len(s)
<1> PICK m \in Nat, n \in Nat, k \in Nat : m = Len(s) /\ n = Len(t) /\ k = Len(string)
  BY LenProperties
<1>1. m <= n /\ \A j \in 1 .. m : s[j] = t[j]
  BY DEF Begins
<1>2. i + k <= m => \A j \in 1 .. k : s[i + j] = t[i + j]
  <2> SUFFICES ASSUME i + k <= m, NEW j \in 1 .. k PROVE s[i + j] = t[i + j]
    OBVIOUS
  <2>1. i + j \in 1 .. m
    OBVIOUS
  <2> QED BY <1>1, <2>1
<1>3. i + k <= m => i + k <= n
  BY <1>1
<1> QED BY <1>2, <1>3, Zenon DEF At

\* So a string that is found is found at the same place in any longer text.
LEMMA FoundStays ==
  ASSUME NEW C, NEW s \in Seq(C), NEW t \in Seq(C), Begins(s, t), NEW string \in Seq(C)
  PROVE  Occurs(s, string) =>
           /\ Occurs(t, string) /\ Find(t, string) = Find(s, string)
           /\ Find(t, string) \in Nat /\ Find(t, string) + Len(string) <= Len(s)
<1> SUFFICES ASSUME Occurs(s, string)
             PROVE  /\ Occurs(t, string) /\ Find(t, string) = Find(s, string)
                    /\ Find(t, string) \in Nat /\ Find(t, string) + Len(string) <= Len(s)
  OBVIOUS
<1> PICK k \in Nat, m \in Nat : k = Len(string) /\ m = Len(s)
  BY LenProperties
<1> PICK f, h : f = Find(s, string) /\ h = Find(t, string)
  OBVIOUS
<1>1. f \in Places(s, string) /\ \A i \in Places(s, string) : f <= i
  BY FindIs, Zenon DEF IsFound
<1>2. f \in Nat /\ At(s, string, f)
  BY <1>1 DEF Places
<1>3. At(t, string, f) /\ f + k <= m
  BY <1>2, PlacesBegin
<1>4. f \in Places(t, string)
  BY <1>2, <1>3 DEF Places
<1>5. Occurs(t, string) /\ h \in Places(t, string) /\ h <= f
  BY <1>4, FindIs, Zenon DEF IsFound
<1>6. h \in Nat /\ At(t, string, h)
  BY <1>5 DEF Places
<1>7. h + k <= m
  BY <1>2, <1>3, <1>5, <1>6
<1>8. h \in Places(s, string)
  <2>1. At(s, string, h)
    BY <1>6, <1>7, PlacesBegin
  <2> QED BY <1>6, <2>1 DEF Places
<1>9. h = f
  <2>1. f <= h
    BY <1>1, <1>8
  <2> QED BY <1>2, <1>5, <1>6, <2>1
<1> QED BY <1>2, <1>3, <1>5, <1>9

\* What begins with the same.
LEMMA BeginsIsPrefix ==
  ASSUME NEW C, NEW s \in Seq(C), NEW t \in Seq(C), Begins(s, t)
  PROVE  IsPrefix(s, t)
<1> PICK n \in Nat : n = Len(s)
  BY LenProperties
<1>1. At(t, s, 0)
  <2>1. \A j \in 1 .. n : 0 + j = j
    OBVIOUS
  <2> QED BY <2>1 DEF At, Begins
<1>2. 0 \in Nat /\ 0 + Len(s) <= Len(t) /\ 0 + 1 = 1 /\ 0 + Len(s) = Len(s)
  BY DEF Begins
<1>3. SubSeq(t, 1, Len(s)) = s
  BY <1>1, <1>2, PlaceIs
<1>4. SubSeq(s, 1, Len(s)) = s
  BY SubSeqFull
<1> QED BY <1>3, <1>4 DEF IsPrefix, Begins

LEMMA BeginsTransitive ==
  ASSUME NEW C, NEW s \in Seq(C), NEW t \in Seq(C), NEW u \in Seq(C), Begins(s, t), Begins(t, u)
  PROVE  Begins(s, u)
<1> PICK m \in Nat, n \in Nat, k \in Nat : m = Len(s) /\ n = Len(t) /\ k = Len(u)
  BY LenProperties
<1>1. m <= n /\ n <= k /\ (\A i \in 1 .. m : s[i] = t[i]) /\ (\A i \in 1 .. n : t[i] = u[i])
  BY DEF Begins
<1>2. m <= k /\ \A i \in 1 .. m : i \in 1 .. n
  BY <1>1
<1>3. \A i \in 1 .. m : s[i] = u[i]
  BY <1>1, <1>2, Zenon
<1> QED BY <1>2, <1>3 DEF Begins

\* What it begins with and the rest make the whole; with some of the rest, a beginning.
LEMMA DropIs ==
  ASSUME NEW C, NEW s \in Seq(C), NEW t \in Seq(C), Begins(s, t)
  PROVE  /\ Drop(t, Len(s)) \in Seq(C) /\ Len(Drop(t, Len(s))) = Len(t) - Len(s)
         /\ s \o Drop(t, Len(s)) = t
<1> PICK m \in Nat, n \in Nat : m = Len(s) /\ n = Len(t)
  BY LenProperties
<1>1. m <= n /\ \A i \in 1 .. m : s[i] = t[i]
  BY DEF Begins
<1> PICK lo \in Int : lo = m + 1
  OBVIOUS
<1> PICK rest : rest = SubSeq(t, lo, n)
  OBVIOUS
<1>2. \A i \in lo .. n : t[i] \in C
  <2>1. \A i \in lo .. n : i \in 1 .. n
    OBVIOUS
  <2> QED BY <2>1, LenProperties
<1>3. /\ rest \in Seq(C) /\ Len(rest) = IF lo <= n THEN n - lo + 1 ELSE 0
      /\ \A i \in 1 .. n - lo + 1 : rest[i] = t[lo + i - 1]
  BY <1>2, SubSeqProperties
<1>4. Len(rest) = n - m /\ n - lo + 1 = n - m
  BY <1>1, <1>3
<1>5. /\ s \o rest \in Seq(C) /\ Len(s \o rest) = n
      /\ \A i \in 1 .. n : (s \o rest)[i] = IF i <= m THEN s[i] ELSE rest[i - m]
  <2>1. m + Len(rest) = n
    BY <1>4
  <2> QED BY <1>3, <2>1, ConcatProperties
<1>6. ASSUME NEW i \in 1 .. n PROVE (s \o rest)[i] = t[i]
  <2>1. CASE i <= m
    <3>1. i \in 1 .. m
      BY <2>1
    <3> QED BY <1>1, <1>5, <2>1, <3>1
  <2>2. CASE ~ (i <= m)
    <3>1. i - m \in 1 .. n - lo + 1 /\ lo + (i - m) - 1 = i
      BY <2>2
    <3>2. rest[i - m] = t[lo + (i - m) - 1]
      BY <1>3, <3>1
    <3> QED BY <1>5, <2>2, <3>1, <3>2
  <2> QED BY <2>1, <2>2
<1>7. s \o rest = t
  BY <1>5, <1>6, SeqEqual
<1>8. Drop(t, Len(s)) = rest
  BY DEF Drop
<1> QED BY <1>3, <1>4, <1>7, <1>8

\* What a sequence holds and has streamed between two steps.
TextsOf(B) ==
    [output_token_ids : Seq(Seq(B)), emitted_text : Seq(CharactersOf("replace")),
     detokenized_text : Seq(CharactersOf("replace")), streamed : Seq(CharactersOf("replace")),
     finish_reason : {"none", "eot", "length", "stop"}]

\* While it runs: all of the strict decoding, and no stop string in it.
Running(req, s) ==
    /\ s.emitted_text = AddToken(s.output_token_ids)
    /\ s.detokenized_text = AddToken(s.output_token_ids)
    /\ s.streamed = AddToken(s.output_token_ids)
    /\ s.output_token_ids = << >> \/ Found(req, s.streamed) = {}

\* In the end: a beginning of the text that reaches the first listed stop string in
\* it, or what was streamed before, whichever is more.
EndsDecoded(req, text, streamed) ==
    IF Found(req, text) = {} THEN streamed = text
    ELSE LET idx == Find(text, req.stop[Min(Found(req, text))])
         IN  /\ Begins(streamed, text) /\ idx <= Len(streamed)
             /\ Len(streamed) = idx \/ \A i \in Found(req, streamed) : req.stop[i] = << >>

Ended(req, s) ==
    LET text == Finalize(s.output_token_ids)
    IN  /\ s.finish_reason = "stop" <=> Found(req, text) # {}
        /\ EndsDecoded(req, text, s.streamed)

Streams(req, B) ==
    { s \in TextsOf(B) : IF s.finish_reason = "none" THEN Running(req, s) ELSE Ended(req, s) }

\* What the stop strings are made of does not matter.
LEMMA FoundIs ==
  ASSUME NEW C, NEW D, NEW text \in Seq(C), NEW req, req.stop \in Seq(Seq(D))
  PROVE  /\ Found(req, text) \in SUBSET Nat
         /\ \A i \in Found(req, text) : req.stop[i] \in Seq(C \cup D) /\ Occurs(text, req.stop[i])
         /\ text \in Seq(C \cup D)
<1> PICK stop \in Seq(Seq(D)) : stop = req.stop
  OBVIOUS
<1> PICK n \in Nat : n = Len(stop)
  BY LenProperties
<1>1. DOMAIN stop = 1 .. n /\ \A i \in 1 .. n : stop[i] \in Seq(D)
  BY LenProperties
<1>2. \A s \in Seq(D) : s \in Seq(C \cup D)
  <2>1. D \subseteq C \cup D
    OBVIOUS
  <2> QED BY <2>1, SeqMonotonic
<1>3. text \in Seq(C \cup D)
  <2>1. C \subseteq C \cup D
    OBVIOUS
  <2> QED BY <2>1, SeqMonotonic
<1>4. Found(req, text) = { i \in 1 .. n : Occurs(text, stop[i]) }
  BY <1>1 DEF Found
<1> QED BY <1>1, <1>2, <1>3, <1>4

\* With more text there are more of them, and at the same places.
LEMMA FoundGrows ==
  ASSUME NEW C, NEW D, NEW s \in Seq(C), NEW t \in Seq(C), Begins(s, t),
         NEW req, req.stop \in Seq(Seq(D)), NEW i \in Found(req, s)
  PROVE  /\ i \in Found(req, t) /\ Find(t, req.stop[i]) = Find(s, req.stop[i])
         /\ Find(t, req.stop[i]) \in Nat
         /\ Find(t, req.stop[i]) + Len(req.stop[i]) <= Len(s)
<1>1. req.stop[i] \in Seq(C \cup D) /\ Occurs(s, req.stop[i]) /\ s \in Seq(C \cup D) /\ t \in Seq(C \cup D)
  BY FoundIs
<1>2. /\ Occurs(t, req.stop[i]) /\ Find(t, req.stop[i]) = Find(s, req.stop[i])
      /\ Find(t, req.stop[i]) \in Nat
      /\ Find(t, req.stop[i]) + Len(req.stop[i]) <= Len(s)
  BY <1>1, FoundStays
<1>3. i \in Found(req, t)
  BY <1>2, Zenon DEF Found
<1> QED BY <1>2, <1>3

\* Stop strings in a text have a place there.
LEMMA FindsPlace ==
  ASSUME NEW C, NEW D, NEW text \in Seq(C), NEW req, req.stop \in Seq(Seq(D))
  PROVE  \A i \in Found(req, text) : Find(text, req.stop[i]) \in Nat
<1> PICK n \in Nat : n = Len(text)
  BY LenProperties
<1>1. Begins(text, text)
  BY DEF Begins
<1> QED BY <1>1, FoundGrows

\* Lengths and places, named.
LEMMA ConcatIs ==
  ASSUME NEW C, NEW s \in Seq(C), NEW t \in Seq(C), NEW m, m = Len(s), NEW k, k = Len(t)
  PROVE  /\ s \o t \in Seq(C) /\ Len(s \o t) = m + k
         /\ \A j \in 1 .. m + k : (s \o t)[j] = IF j <= m THEN s[j] ELSE t[j - m]
  BY ConcatProperties

\* What is streamed of the last delta.
LEMMA TruncateEffect ==
  ASSUME NEW C, NEW D, NEW req, req.stop \in Seq(Seq(D)),
         NEW before \in Seq(C), NEW text \in Seq(C), Begins(before, text),
         \A i \in Found(req, before) : req.stop[i] = << >>,
         NEW delta, delta = Drop(text, Len(before)),
         NEW streamed, streamed = before \o TruncateAtStop(req, text, delta)
  PROVE  streamed \in Seq(C) /\ EndsDecoded(req, text, streamed)
<1> PICK m \in Nat, n \in Nat : m = Len(before) /\ n = Len(text)
  BY LenProperties
<1>1. delta \in Seq(C) /\ Len(delta) = n - m /\ before \o delta = text
  BY DropIs
<1> PICK cut : cut = TruncateAtStop(req, text, delta)
  OBVIOUS
<1>2. m <= n
  BY DEF Begins
<1>3. CASE Found(req, text) = {}
  <2>1. cut = delta
    BY <1>3, Zenon DEF TruncateAtStop
  <2>2. streamed = text
    BY <1>1, <2>1
  <2> QED BY <1>3, <2>2, Zenon DEF EndsDecoded
<1>4. CASE Found(req, text) # {}
  <2> PICK i : i = Min(Found(req, text))
    OBVIOUS
  <2>1. i \in Found(req, text)
    BY <1>4, FoundIs, MinNat
  <2> PICK idx : idx = Find(text, req.stop[i])
    OBVIOUS
  <2>2. idx \in Nat /\ idx <= n
    <3>1. Begins(text, text)
      BY DEF Begins
    <3>2. idx \in Nat /\ idx + Len(req.stop[i]) <= n
      BY <2>1, <3>1, FoundGrows
    <3>3. Len(req.stop[i]) \in Nat
      <4>1. req.stop[i] \in Seq(C \cup D)
        BY <2>1, FoundIs
      <4> QED BY <4>1, LenProperties
    <3> QED BY <3>2, <3>3
  <2> PICK kept : kept = KeptLength(idx, text, delta)
    OBVIOUS
  <2>3. kept = IF idx <= m THEN 0 ELSE idx - m
    <3>1. kept = Max({0, idx - (Len(text) - Len(delta))})
      BY Zenon DEF KeptLength
    <3>2. Len(text) - Len(delta) = m
      BY <1>1
    <3>3. kept = Max({0, idx - m})
      BY <3>1, <3>2
    <3>4. 0 \in Int /\ idx - m \in Int
      BY <2>2
    <3>5. Max({0, idx - m}) = IF 0 <= idx - m THEN idx - m ELSE 0
      BY <3>4, MinMaxPair
    <3> QED BY <2>2, <3>3, <3>5
  <2>4. kept \in 0 .. n - m /\ (kept = 0 \/ m + kept = idx) /\ idx <= m + kept
    <3>1. CASE idx <= m
      BY <1>2, <2>2, <2>3, <3>1
    <3>2. CASE ~ (idx <= m)
      BY <1>2, <2>2, <2>3, <3>2
    <3> QED BY <3>1, <3>2
  <2>5. cut = SubSeq(delta, 1, kept)
    <3>1. cut = SubSeq(delta, 1, Min({Len(delta), kept}))
      BY <1>4, Zenon DEF TruncateAtStop
    <3>2. Len(delta) \in Int /\ kept \in Int /\ kept <= Len(delta)
      BY <1>1, <2>4
    <3>3. Min({Len(delta), kept}) = kept
      <4> PICK all \in Int, some \in Int : all = Len(delta) /\ some = kept
        BY <3>2
      <4>1. some <= all
        BY <3>2
      <4>2. Min({all, some}) = IF all <= some THEN all ELSE some
        BY MinMaxPair
      <4>3. Min({all, some}) = some
        BY <4>1, <4>2
      <4> QED BY <4>3
    <3> QED BY <3>1, <3>3
  <2>6. cut \in Seq(C) /\ Len(cut) = kept /\ \A j \in 1 .. kept : cut[j] = delta[j]
    <3>1. kept \in Int /\ \A j \in 1 .. kept : j \in 1 .. Len(delta)
      BY <1>1, <2>4
    <3>2. \A j \in 1 .. kept : delta[j] \in C
      BY <1>1, <3>1, LenProperties
    <3>3. 1 \in Int
      OBVIOUS
    <3>4. /\ SubSeq(delta, 1, kept) \in Seq(C)
          /\ Len(SubSeq(delta, 1, kept)) = IF 1 <= kept THEN kept - 1 + 1 ELSE 0
          /\ \A j \in 1 .. kept - 1 + 1 : SubSeq(delta, 1, kept)[j] = delta[1 + j - 1]
      BY <3>1, <3>2, <3>3, SubSeqProperties
    <3>5. kept - 1 + 1 = kept /\ \A j \in 1 .. kept : 1 + j - 1 = j
      BY <2>4
    <3> QED BY <2>4, <2>5, <3>4, <3>5
  <2>7. /\ streamed \in Seq(C) /\ Len(streamed) = m + kept
        /\ \A j \in 1 .. m + kept : streamed[j] = IF j <= m THEN before[j] ELSE cut[j - m]
    BY <2>6, ConcatIs
  <2>8. \A j \in 1 .. n : text[j] = IF j <= m THEN before[j] ELSE delta[j - m]
    <3>0. n - m \in Nat /\ m + (n - m) = n
      BY <1>2
    <3> PICK k \in Nat : k = n - m /\ m + k = n
      BY <3>0
    <3>2. k = Len(delta)
      BY <1>1
    <3>1. \A j \in 1 .. m + k : (before \o delta)[j] = IF j <= m THEN before[j] ELSE delta[j - m]
      <4>1. delta \in Seq(C) /\ m = Len(before)
        BY <1>1
      <4> QED BY <3>2, <4>1, ConcatIs
    <3> QED BY <1>1, <3>1
  <2>9. Begins(streamed, text)
    <3>1. m + kept <= n
      BY <2>4
    <3>2. \A j \in 1 .. m + kept : j \in 1 .. n /\ (~ (j <= m) => j - m \in 1 .. kept)
      BY <2>4
    <3>3. \A j \in 1 .. m + kept : streamed[j] = text[j]
      BY <2>6, <2>7, <2>8, <3>2, Zenon
    <3> QED BY <2>7, <3>1, <3>3 DEF Begins
  <2>10. Len(streamed) = idx \/ \A k \in Found(req, streamed) : req.stop[k] = << >>
    <3> SUFFICES ASSUME kept = 0, NEW k \in Found(req, streamed) PROVE req.stop[k] = << >>
      BY <2>4, <2>7
    <3>1. cut = << >>
      BY <2>6, EmptySeq
    <3>2. streamed = before
      BY <3>1, ConcatEmptySeq
    <3> QED BY <3>2
  <2>11. EndsDecoded(req, text, streamed)
    <3>1. idx <= Len(streamed)
      BY <2>4, <2>7
    <3> QED BY <1>4, <2>9, <2>10, <3>1, Zenon DEF EndsDecoded
  <2> QED BY <2>7, <2>11
<1> QED BY <1>3, <1>4

\* Nothing yet.
LEMMA NothingDecoded ==
  /\ \A B : << >> \in Seq(Seq(B))
  /\ Bytes(<< >>) = << >> /\ AddToken(<< >>) = << >>
<1>1. \A B : << >> \in Seq(Seq(B))
  OBVIOUS
<1>2. Len(<< >>) = 0 /\ << >> \in Seq({}) /\ 0 \in Nat
  OBVIOUS
<1>3. Bytes(<< >>) = << >>
  BY <1>2, BytesUnfold, Zenon
<1>4. Decode(<< >>, "strict") = << >>
  <2> PICK e : e = << >>
    OBVIOUS
  <2> PICK z \in Nat : z = 0
    OBVIOUS
  <2>1. e \in Seq({}) /\ z = Len(e)
    BY <1>2
  <2>2. PICK g \in [1 .. z + 1 -> Seq(CharactersOf("strict"))] : IsDecoding(e, "strict", z, g)
    BY <2>1, DecodingIs
  <2>3. z + 1 = 1
    OBVIOUS
  <2> QED BY <2>2, <2>3, Zenon DEF IsDecoding
<1> QED BY <1>1, <1>3, <1>4, Zenon DEF AddToken

\* Before the first token only the empty stop string is in the text.
LEMMA NoneYet ==
  ASSUME NEW D, NEW req, req.stop \in Seq(Seq(D)), NEW i \in Found(req, << >>)
  PROVE  req.stop[i] = << >>
<1> PICK e : e = << >>
  OBVIOUS
<1>1. e \in Seq({}) /\ Len(e) = 0 /\ Begins(e, e)
  BY DEF Begins
<1>2. Find(e, req.stop[i]) \in Nat /\ Find(e, req.stop[i]) + Len(req.stop[i]) <= 0
  BY <1>1, FoundGrows
<1>3. req.stop[i] \in Seq({} \cup D)
  BY <1>1, FoundIs
<1> PICK string \in Seq({} \cup D) : string = req.stop[i]
  BY <1>3
<1> PICK f \in Nat : f = Find(e, req.stop[i])
  BY <1>2
<1> PICK n \in Nat : n = Len(string)
  BY LenProperties
<1>4. f + n <= 0
  BY <1>2
<1>5. n = 0
  BY <1>4
<1> QED BY <1>5, EmptySeq

\* The two decodings of a prefix of the tokens and of one more.
LEMMA DecodingGrows ==
  ASSUME NEW B, NEW ids \in Seq(Seq(B)), NEW token \in Seq(B), NEW more, more = Append(ids, token)
  PROVE  /\ more \in Seq(Seq(B)) /\ more # << >>
         /\ AddToken(ids) \in Seq(CharactersOf("replace"))
         /\ AddToken(more) \in Seq(CharactersOf("replace"))
         /\ Finalize(more) \in Seq(CharactersOf("replace"))
         /\ Begins(AddToken(ids), AddToken(more)) /\ Begins(AddToken(more), Finalize(more))
<1>1. more \in Seq(Seq(B)) /\ more # << >>
  OBVIOUS
<1> PICK a, b : a = Bytes(ids) /\ b = Bytes(more)
  OBVIOUS
<1>2. a \in Seq(B) /\ b \in Seq(B) /\ b = a \o token
  BY BytesAppend
<1>3. Begins(a, b)
  BY <1>2, BeginsConcat
<1>4. Begins(b, b)
  <2> PICK n \in Nat : n = Len(b)
    BY <1>2, LenProperties
  <2> QED BY DEF Begins
<1>5. Begins(Decode(a, "strict"), Decode(b, "strict"))
  BY <1>2, <1>3, DecodeBegins
<1>6. Begins(Decode(b, "strict"), Decode(b, "replace"))
  BY <1>2, <1>4, DecodeBegins
<1>7. \A d \in Seq(B) : Decode(d, "strict") \in Seq(CharactersOf("replace"))
  <2>1. CharactersOf("strict") \subseteq CharactersOf("replace")
    BY DEF CharactersOf
  <2> QED BY <2>1, DecodeType, SeqMonotonic
<1>8. Decode(b, "replace") \in Seq(CharactersOf("replace"))
  BY <1>2, DecodeType
<1> QED BY <1>1, <1>2, <1>5, <1>6, <1>7, <1>8, Zenon DEF AddToken, Finalize

\* The last delta and the tail of finalize() make one piece.
Joined(s, t, u) ==
    /\ s \o Drop(t, Len(s)) = t
    /\ s \o (Drop(t, Len(s)) \o Drop(u, Len(t))) = u
    /\ Drop(t, Len(s)) \o Drop(u, Len(t)) = Drop(u, Len(s))

LEMMA DeltasJoin ==
  ASSUME NEW C, NEW s \in Seq(C), NEW t \in Seq(C), NEW u \in Seq(C), Begins(s, t), Begins(t, u)
  PROVE  Joined(s, t, u) /\ Begins(s, u)
<1>1. Begins(s, u)
  BY BeginsTransitive
<1>2. PICK delta \in Seq(C) : delta = Drop(t, Len(s)) /\ s \o delta = t
  BY DropIs
<1>3. PICK rest \in Seq(C) : rest = Drop(u, Len(t)) /\ t \o rest = u
  BY DropIs
<1>4. PICK end \in Seq(C) : end = Drop(u, Len(s)) /\ s \o end = u
  BY <1>1, DropIs
<1>5. delta \o rest \in Seq(C)
  BY ConcatProperties
<1>6. s \o (delta \o rest) = u
  <2>1. (s \o delta) \o rest = s \o (delta \o rest)
    BY ConcatAssociative
  <2> QED BY <1>2, <1>3, <2>1
<1> PICK whole \in Seq(C) : whole = delta \o rest
  BY <1>5
<1>7. s \o whole = s \o end
  BY <1>4, <1>6
<1>8. whole = end
  BY <1>7, ConcatSimplifications, Zenon
<1> QED BY <1>1, <1>2, <1>3, <1>4, <1>6, <1>8, Zenon DEF Joined

\* A step of a sequence that runs, with its texts named.
StepTo(req, s, ids, before, full, text, whole, reason, r) ==
    r = IF reason = "none"
        THEN [s EXCEPT !.output_token_ids = ids, !.emitted_text = full,
                       !.detokenized_text = full, !.streamed = full]
        ELSE [output_token_ids |-> ids, emitted_text |-> text, detokenized_text |-> text,
              streamed |-> before \o TruncateAtStop(req, text, whole),
              finish_reason |-> IF Found(req, text) # {} THEN "stop" ELSE reason]

LEMMA StepIs ==
  ASSUME NEW req, NEW s, NEW token, s.finish_reason = "none",
         NEW before, s.emitted_text = before, s.detokenized_text = before, s.streamed = before,
         NEW ids, ids = Append(s.output_token_ids, token),
         NEW full, full = AddToken(ids), NEW text, text = Finalize(ids),
         Joined(before, full, text), NEW whole, whole = Drop(text, Len(before)),
         NEW reason, reason = CheckFinish(req, token, ids, full),
         NEW r, r = SampleAndAdvanceText(req, s, token)
  PROVE  StepTo(req, s, ids, before, full, text, whole, reason, r)
<1> PICK delta : delta = Drop(full, Len(before))
  OBVIOUS
<1>1. /\ ids = Append(s.output_token_ids, token) /\ delta = Drop(AddToken(ids), Len(s.emitted_text))
      /\ whole = delta \o Drop(Finalize(ids), Len(AddToken(ids)))
      /\ before \o delta = full /\ before \o whole = text
  BY Zenon DEF Joined
<1>3. SampleAndAdvanceText(req, s, token) =
        IF CheckFinish(req, token, ids, s.detokenized_text \o delta) = "none"
        THEN [s EXCEPT !.output_token_ids = ids, !.emitted_text = AddToken(ids),
                       !.detokenized_text = @ \o delta, !.streamed = @ \o delta]
        ELSE [output_token_ids |-> ids, emitted_text |-> Finalize(ids),
              detokenized_text |-> s.detokenized_text \o whole,
              streamed |-> s.streamed \o TruncateAtStop(req, s.detokenized_text \o whole, whole),
              finish_reason |-> IF Found(req, s.detokenized_text \o whole) # {} THEN "stop"
                                ELSE CheckFinish(req, token, ids, s.detokenized_text \o delta)]
  BY <1>1, Zenon DEF SampleAndAdvanceText
<1>4. /\ s.detokenized_text \o delta = full /\ s.streamed \o delta = full
      /\ s.detokenized_text \o whole = text
  BY <1>1
<1> QED BY <1>3, <1>4, Zenon DEF StepTo

\* A token more, of any request, in any state that the tokens before it lead to.
LEMMA TokenStep ==
  ASSUME NEW B, NEW D, NEW req, req.stop \in Seq(Seq(D)),
         NEW s \in Streams(req, B), NEW token \in Seq(B)
  PROVE  /\ SampleAndAdvanceText(req, s, token) \in Streams(req, B)
         /\ SampleAndAdvanceText(req, s, token).finish_reason = "none" =>
              SampleAndAdvanceText(req, s, token).output_token_ids # << >>
<1> PICK r : r = SampleAndAdvanceText(req, s, token)
  OBVIOUS
<1> PICK C : C = CharactersOf("replace")
  OBVIOUS
<1>1. CASE s.finish_reason # "none"
  <2>1. r = s
    BY <1>1, Zenon DEF SampleAndAdvanceText
  <2> QED BY <1>1, <2>1
<1>2. CASE s.finish_reason = "none"
  <2>1. s \in TextsOf(B) /\ Running(req, s)
    BY <1>2 DEF Streams
  <2> PICK old \in Seq(Seq(B)) : old = s.output_token_ids
    BY <2>1 DEF TextsOf
  <2> PICK ids : ids = Append(old, token)
    OBVIOUS
  <2> PICK before, full, text : before = AddToken(old) /\ full = AddToken(ids) /\ text = Finalize(ids)
    OBVIOUS
  <2>2. /\ ids \in Seq(Seq(B)) /\ ids # << >> /\ before \in Seq(C) /\ full \in Seq(C) /\ text \in Seq(C)
        /\ Begins(before, full) /\ Begins(full, text)
    BY DecodingGrows, Zenon
  <2>3. s.emitted_text = before /\ s.detokenized_text = before /\ s.streamed = before
    BY <2>1, Zenon DEF Running
  <2>4. \A i \in Found(req, before) : req.stop[i] = << >>
    <3>1. CASE old = << >>
      <4>1. before = << >>
        BY <3>1, NothingDecoded
      <4> QED BY <4>1, NoneYet
    <3>2. CASE old # << >>
      BY <2>1, <2>3, <3>2, Zenon DEF Running
    <3> QED BY <3>1, <3>2
  <2>5. Joined(before, full, text) /\ Begins(before, text)
    BY <2>2, DeltasJoin
  <2> PICK whole : whole = Drop(text, Len(before))
    OBVIOUS
  <2> PICK reason : reason = CheckFinish(req, token, ids, full)
    OBVIOUS
  <2>9. StepTo(req, s, ids, before, full, text, whole, reason, r)
    <3>1. ids = Append(s.output_token_ids, token) /\ full = AddToken(ids) /\ text = Finalize(ids)
      OBVIOUS
    <3> QED BY <1>2, <2>3, <2>5, <3>1, StepIs, Zenon
  <2>10. CASE reason = "none"
    <3>1. /\ r.output_token_ids = ids /\ r.emitted_text = full /\ r.detokenized_text = full
          /\ r.streamed = full /\ r.finish_reason = "none" /\ r \in TextsOf(B)
      BY <1>2, <2>1, <2>2, <2>9, <2>10 DEF TextsOf, StepTo
    <3>2. Found(req, full) = {}
      <4>1. "none" # "eot" /\ "none" # "length" /\ "none" # "stop"
        OBVIOUS
      <4> QED BY <2>10, <4>1, Zenon DEF CheckFinish
    <3>3. Running(req, r)
      BY <3>1, <3>2, Zenon DEF Running
    <3>4. r \in Streams(req, B)
      BY <3>1, <3>3, Zenon DEF Streams
    <3> QED BY <2>2, <3>1, <3>4
  <2>11. CASE reason # "none"
    <3> PICK streamed : streamed = before \o TruncateAtStop(req, text, whole)
      OBVIOUS
    <3>1. streamed \in Seq(C) /\ EndsDecoded(req, text, streamed)
      BY <2>2, <2>4, <2>5, TruncateEffect, Zenon
    <3> PICK why : why = IF Found(req, text) # {} THEN "stop" ELSE reason
      OBVIOUS
    <3>2. r = [output_token_ids |-> ids, emitted_text |-> text, detokenized_text |-> text,
               streamed |-> streamed, finish_reason |-> why]
      BY <2>9, <2>11, Zenon DEF StepTo
    <3>3. reason \in {"eot", "length", "stop"} /\ (reason = "stop" => Found(req, full) # {})
      <4>1. "stop" # "eot" /\ "stop" # "length" /\ "stop" # "none"
        OBVIOUS
      <4>2. reason \in {"eot", "length", "stop", "none"}
        BY DEF CheckFinish
      <4>3. reason = "stop" => Found(req, full) # {}
        BY <4>1, Zenon DEF CheckFinish
      <4> QED BY <2>11, <4>2, <4>3
    <3>4. reason = "stop" => Found(req, text) # {}
      <4>1. \A i \in Found(req, full) : i \in Found(req, text)
        BY <2>2, FoundGrows
      <4> QED BY <3>3, <4>1
    <3>5. why \in {"eot", "length", "stop"} /\ (why = "stop" <=> Found(req, text) # {})
      BY <3>3, <3>4
    <3>6. /\ r.output_token_ids = ids /\ r.streamed = streamed /\ r.finish_reason = why
          /\ why # "none" /\ r \in TextsOf(B)
      <4>1. /\ r.output_token_ids = ids /\ r.streamed = streamed /\ r.finish_reason = why
            /\ why # "none"
        BY <3>2, <3>5
      <4>2. why \in {"none", "eot", "length", "stop"}
        BY <3>5
      <4>3. text \in Seq(CharactersOf("replace")) /\ streamed \in Seq(CharactersOf("replace"))
        BY <2>2, <3>1
      <4>4. r \in TextsOf(B)
        BY <2>2, <3>2, <4>2, <4>3 DEF TextsOf
      <4> QED BY <4>1, <4>4
    <3>7. Ended(req, r)
      BY <3>1, <3>5, <3>6, Zenon DEF Ended
    <3>8. r \in Streams(req, B)
      BY <3>6, <3>7, Zenon DEF Streams
    <3> QED BY <3>6, <3>8
  <2> QED BY <2>10, <2>11
<1> QED BY <1>1, <1>2

\* The sequence after any set of its tokens, generated in order.
Steps(req, tokens, g) ==
    g = [T \in SUBSET DOMAIN tokens |->
           IF T = {} THEN FreshText ELSE SampleAndAdvanceText(req, g[T \ {Max(T)}], tokens[Max(T)])]

LEMMA GeneratedUnfolds ==
  ASSUME NEW req, NEW tokens
  PROVE  Generated(req, tokens) = (CHOOSE g : Steps(req, tokens, g))[DOMAIN tokens]
  BY Zenon DEF Generated, FoldLeft, MapThenFoldSet, Steps

\* Before any token.
LEMMA FreshStreams ==
  ASSUME NEW B, NEW req
  PROVE  FreshText \in Streams(req, B)
<1> PICK e : e = << >>
  OBVIOUS
<1>1. e \in Seq(Seq(B)) /\ e \in Seq(CharactersOf("replace")) /\ AddToken(e) = e
  BY NothingDecoded
<1>2. FreshText = [output_token_ids |-> e, emitted_text |-> e, detokenized_text |-> e,
                   streamed |-> e, finish_reason |-> "none"]
  BY DEF FreshText
<1>3. /\ FreshText.output_token_ids = e /\ FreshText.emitted_text = e
      /\ FreshText.detokenized_text = e /\ FreshText.streamed = e
      /\ FreshText.finish_reason = "none" /\ FreshText \in TextsOf(B)
  BY <1>1, <1>2 DEF TextsOf
<1>4. Running(req, FreshText)
  BY <1>1, <1>3, Zenon DEF Running
<1> QED BY <1>3, <1>4, Zenon DEF Streams

LEMMA StepsExist ==
  ASSUME NEW B, NEW D, NEW req, req.stop \in Seq(Seq(D)), NEW tokens \in Seq(Seq(B)),
         NEW n \in Nat, n = Len(tokens)
  PROVE  \E g : Steps(req, tokens, g)
<1> PICK W : W = Streams(req, B)
  OBVIOUS
<1> PICK S : S = 1 .. n
  OBVIOUS
<1>1. DOMAIN tokens = S /\ \A i \in S : tokens[i] \in Seq(B)
  BY LenProperties
<1> DEFINE step == [u \in S \X W |-> SampleAndAdvanceText(req, u[2], tokens[u[1]])]
<1>2. FreshText \in W
  BY FreshStreams
<1>3. \A u \in S \X W : u[1] \in S /\ u[2] \in W
  OBVIOUS
<1>4. \A i \in S, s \in W : SampleAndAdvanceText(req, s, tokens[i]) \in W
  BY <1>1, TokenStep
<1>5. step \in [S \X W -> W]
  BY <1>3, <1>4, Zenon
<1>6. \A i \in S, s \in W : step[<<i, s>>] = SampleAndAdvanceText(req, s, tokens[i])
  <2> SUFFICES ASSUME NEW i \in S, NEW s \in W
               PROVE  step[<<i, s>>] = SampleAndAdvanceText(req, s, tokens[i])
    OBVIOUS
  <2>1. <<i, s>> \in S \X W /\ <<i, s>>[1] = i /\ <<i, s>>[2] = s
    OBVIOUS
  <2> QED BY <2>1, Zenon
<1> HIDE DEF step
<1>7. PICK g \in [SUBSET S -> W] : IsOrderedFold(n, FreshText, step, g)
  BY <1>2, <1>5, OrderedFold, Zenon
<1>8. \A T \in SUBSET S : g[T] = IF T = {} THEN FreshText ELSE step[<<Max(T), g[T \ {Max(T)}]>>]
  BY <1>7, Zenon DEF IsOrderedFold
<1>9. ASSUME NEW T \in SUBSET S
      PROVE  g[T] = IF T = {} THEN FreshText
                    ELSE SampleAndAdvanceText(req, g[T \ {Max(T)}], tokens[Max(T)])
  <2>1. CASE T = {}
    BY <1>8, <2>1, Zenon
  <2>2. CASE T # {}
    <3>1. Max(T) \in T
      BY <2>2, MaxIndex
    <3>2. PICK i \in S : i = Max(T)
      BY <3>1
    <3>3. T \ {i} \in SUBSET S
      OBVIOUS
    <3>4. PICK s \in W : s = g[T \ {i}]
      BY <1>7, <3>3, Zenon
    <3> QED BY <1>6, <1>8, <2>2, <3>2, <3>4, Zenon
  <2> QED BY <2>1, <2>2
<1>10. g = [T \in SUBSET S |-> IF T = {} THEN FreshText
                               ELSE SampleAndAdvanceText(req, g[T \ {Max(T)}], tokens[Max(T)])]
  BY <1>7, <1>9, Zenon
<1> QED BY <1>1, <1>10, Zenon DEF Steps

\* Whatever the tokens, the sequence is as one that runs, or that ended, should be.
LEMMA GeneratedStreams ==
  ASSUME NEW B, NEW D, NEW req, req.stop \in Seq(Seq(D)), NEW tokens \in Seq(Seq(B))
  PROVE  /\ Generated(req, tokens) \in Streams(req, B)
         /\ Generated(req, tokens).finish_reason = "none" /\ tokens # << >> =>
              Generated(req, tokens).output_token_ids # << >>
<1> PICK n \in Nat : n = Len(tokens)
  BY LenProperties
<1>1. DOMAIN tokens = 1 .. n /\ \A i \in 1 .. n : tokens[i] \in Seq(B)
  BY LenProperties
<1>2. PICK g : Steps(req, tokens, g) /\ Generated(req, tokens) = g[1 .. n]
  BY <1>1, StepsExist, GeneratedUnfolds, Zenon
<1>3. \A T \in SUBSET (1 .. n) :
        g[T] = IF T = {} THEN FreshText ELSE SampleAndAdvanceText(req, g[T \ {Max(T)}], tokens[Max(T)])
  <2>1. g = [T \in SUBSET (1 .. n) |->
               IF T = {} THEN FreshText
               ELSE SampleAndAdvanceText(req, g[T \ {Max(T)}], tokens[Max(T)])]
    BY <1>1, <1>2, Zenon DEF Steps
  <2> QED BY <2>1, Zenon
<1> DEFINE Good(k) == g[1 .. k] \in Streams(req, B)
           Bad == { k \in Nat : k <= n /\ ~ Good(k) }
<1>4. Good(0) /\ g[1 .. 0] = FreshText
  <2>1. 1 .. 0 = {} /\ {} \in SUBSET (1 .. n)
    OBVIOUS
  <2>2. g[1 .. 0] = FreshText
    BY <1>3, <2>1, Zenon
  <2> QED BY <2>2, FreshStreams, Zenon
<1>5. ASSUME NEW k \in Nat, NEW m, m = k + 1, m <= n
      PROVE  g[1 .. m] = SampleAndAdvanceText(req, g[1 .. k], tokens[m]) /\ tokens[m] \in Seq(B)
  <2>1. /\ 1 .. m \in SUBSET (1 .. n) /\ 1 .. m # {} /\ Max(1 .. m) = m /\ (1 .. m) \ {m} = 1 .. k
    BY <1>5, UpToNext
  <2>2. g[1 .. m] = SampleAndAdvanceText(req, g[1 .. k], tokens[m])
    BY <1>3, <2>1, Zenon
  <2>3. m \in 1 .. n
    BY <1>5
  <2> QED BY <1>1, <2>2, <2>3
<1>6. Bad = {}
  <2> SUFFICES ASSUME Bad # {} PROVE FALSE
    OBVIOUS
  <2>1. Bad \in SUBSET Nat
    OBVIOUS
  <2> HIDE DEF Good
  <2>2. PICK m \in Bad : \A k \in Nat : k < m => k \notin Bad
    <3> HIDE DEF Bad
    <3> QED BY <2>1, FirstNat
  <2>3. m \in Nat /\ m <= n /\ ~ Good(m)
    OBVIOUS
  <2>4. m # 0
    BY <1>4, <2>3
  <2>5. PICK k \in Nat : m = k + 1
    <3>1. m - 1 \in Nat /\ m = (m - 1) + 1
      BY <2>3, <2>4
    <3> QED BY <3>1
  <2>6. k < m /\ k <= n
    BY <2>3, <2>5
  <2>7. Good(k)
    BY <2>2, <2>6
  <2>8. g[1 .. m] = SampleAndAdvanceText(req, g[1 .. k], tokens[m]) /\ tokens[m] \in Seq(B)
    BY <1>5, <2>3, <2>5
  <2>9. Good(m)
    BY <2>7, <2>8, TokenStep, Zenon DEF Good
  <2> QED BY <2>3, <2>9
<1>7. \A k \in Nat : k <= n => g[1 .. k] \in Streams(req, B)
  BY <1>6
<1>8. g[1 .. n] \in Streams(req, B)
  <2>1. n <= n
    OBVIOUS
  <2> QED BY <1>7, <2>1, Zenon
<1>9. CASE n = 0
  BY <1>2, <1>8, <1>9, EmptySeq
<1>10. CASE n # 0
  <2>1. n - 1 \in Nat /\ n = (n - 1) + 1 /\ n - 1 <= n /\ n <= n
    BY <1>10
  <2> PICK k \in Nat : n = k + 1 /\ k <= n /\ n <= n
    BY <2>1
  <2>2. g[1 .. n] = SampleAndAdvanceText(req, g[1 .. k], tokens[n]) /\ tokens[n] \in Seq(B)
    BY <1>5
  <2>3. g[1 .. k] \in Streams(req, B)
    BY <1>7
  <2> QED BY <1>2, <1>8, <2>2, <2>3, TokenStep, Zenon
<1> QED BY <1>9, <1>10

\* Clients get the decoded text of the tokens and nothing twice, and no stop string
\* whole but for one that comes before a stop string listed earlier: for tokens of
\* any bytes, as many as there may be, and any list of stop strings.
THEOREM TextIsStreamed ==
  ASSUME NEW B, NEW D, NEW req, req.stop \in Seq(Seq(D)), NEW tokens \in Seq(Seq(B))
  PROVE  StreamsDecodedText(req, tokens) /\ StopsAreHidden(req, tokens)
<1> PICK s : s = Generated(req, tokens)
  OBVIOUS
<1> PICK C : C = CharactersOf("replace")
  OBVIOUS
<1>1. s \in Streams(req, B) /\ (s.finish_reason = "none" /\ tokens # << >> => s.output_token_ids # << >>)
  BY GeneratedStreams
<1> PICK text, streamed : text = Finalize(s.output_token_ids) /\ streamed = s.streamed
  OBVIOUS
<1>2. s \in TextsOf(B) /\ streamed \in Seq(C) /\ s.output_token_ids \in Seq(Seq(B))
  <2>1. s \in TextsOf(B)
    BY <1>1 DEF Streams
  <2> QED BY <2>1 DEF TextsOf
<1>3. text \in Seq(C)
  <2>1. Bytes(s.output_token_ids) \in Seq(B)
    BY <1>2, BytesType
  <2> QED BY <2>1, DecodeType DEF Finalize
<1> DEFINE first == Min({ Find(text, req.stop[i]) : i \in Found(req, text) })
<1>4. /\ StreamsDecodedText(req, tokens) <=>
           /\ IsPrefix(streamed, text)
           /\ s.finish_reason = "none" => /\ Replacement \notin Range(streamed)
                                          /\ tokens = << >> \/ Found(req, streamed) = {}
           /\ s.finish_reason # "none" =>
                /\ s.finish_reason = "stop" <=> Found(req, text) # {}
                /\ IF s.finish_reason = "stop" THEN Len(streamed) >= first ELSE streamed = text
      /\ StopsAreHidden(req, tokens) <=>
           \A i \in Found(req, streamed) :
             \/ req.stop[i] = << >>
             \/ \E j \in Found(req, text) :
                  j < i /\ Find(text, req.stop[j]) > Find(text, req.stop[i])
  BY Zenon DEF StreamsDecodedText, StopsAreHidden, Finalize
<1> HIDE DEF first
<1>5. CASE s.finish_reason = "none"
  <2>1. Running(req, s)
    BY <1>1, <1>5 DEF Streams
  <2>2. streamed = AddToken(s.output_token_ids)
    BY <2>1 DEF Running
  <2>3. Begins(streamed, text)
    <3> PICK b : b = Bytes(s.output_token_ids)
      OBVIOUS
    <3>1. b \in Seq(B)
      BY <1>2, BytesType
    <3>2. Begins(b, b)
      <4> PICK n \in Nat : n = Len(b)
        BY <3>1, LenProperties
      <4> QED BY DEF Begins
    <3>3. Begins(Decode(b, "strict"), Decode(b, "replace"))
      BY <3>1, <3>2, DecodeBegins
    <3> QED BY <2>2, <3>3, Zenon DEF AddToken, Finalize
  <2>4. IsPrefix(streamed, text)
    BY <1>2, <1>3, <2>3, BeginsIsPrefix
  <2>5. Replacement \notin Range(streamed)
    <3>1. Replacement \notin CharactersOf("strict")
      BY TextAssumption DEF CharactersOf, Characters, Replacement, Accented
    <3>2. streamed \in Seq(CharactersOf("strict"))
      BY <1>2, <2>2, BytesType, DecodeType, Zenon DEF AddToken
    <3>3. \A c \in Range(streamed) : c \in CharactersOf("strict")
      BY <3>2, LenProperties DEF Range
    <3> QED BY <3>1, <3>3
  <2>6. tokens = << >> \/ Found(req, streamed) = {}
    BY <1>1, <1>5, <2>1, Zenon DEF Running
  <2>7. \A i \in Found(req, streamed) : req.stop[i] = << >>
    <3>1. CASE s.output_token_ids = << >>
      <4>1. streamed = << >>
        BY <2>2, <3>1, NothingDecoded
      <4> QED BY <4>1, NoneYet
    <3>2. CASE s.output_token_ids # << >>
      BY <2>1, <3>2, Zenon DEF Running
    <3> QED BY <3>1, <3>2
  <2> QED BY <1>4, <1>5, <2>4, <2>5, <2>6, <2>7, Zenon
<1>6. CASE s.finish_reason # "none"
  <2>1. s.finish_reason = "stop" <=> Found(req, text) # {}
    BY <1>1, <1>6 DEF Streams, Ended
  <2>2. EndsDecoded(req, text, streamed)
    BY <1>1, <1>6 DEF Streams, Ended
  <2>3. CASE Found(req, text) = {}
    <3>1. streamed = text
      BY <2>2, <2>3, Zenon DEF EndsDecoded
    <3>2. IsPrefix(streamed, text)
      <4> PICK n \in Nat : n = Len(text)
        BY <1>3, LenProperties
      <4>1. Begins(text, text)
        BY DEF Begins
      <4> QED BY <1>3, <3>1, <4>1, BeginsIsPrefix
    <3> QED BY <1>4, <1>6, <2>1, <2>3, <3>1, <3>2, Zenon
  <2>4. CASE Found(req, text) # {}
    <3> PICK j : j = Min(Found(req, text))
      OBVIOUS
    <3>1. j \in Found(req, text) /\ \A i \in Found(req, text) : j <= i
      BY <1>3, <2>4, FoundIs, MinNat
    <3> PICK idx : idx = Find(text, req.stop[j])
      OBVIOUS
    <3>2. /\ Begins(streamed, text) /\ idx <= Len(streamed)
          /\ Len(streamed) = idx \/ \A i \in Found(req, streamed) : req.stop[i] = << >>
      BY <2>2, <2>4, Zenon DEF EndsDecoded
    <3>3. IsPrefix(streamed, text)
      BY <1>2, <1>3, <3>2, BeginsIsPrefix
    <3>4. first \in Nat /\ first <= idx /\ idx \in Nat
      <4> DEFINE places == { Find(text, req.stop[i]) : i \in Found(req, text) }
      <4>1. \A i \in Found(req, text) : Find(text, req.stop[i]) \in Nat
        BY <1>3, FindsPlace
      <4>2. places \in SUBSET Nat /\ idx \in places
        BY <3>1, <4>1
      <4>3. first = Min(places)
        BY DEF first
      <4> HIDE DEF places
      <4>4. Min(places) \in places /\ Min(places) <= idx
        BY <4>2, MinNat
      <4> QED BY <4>2, <4>3, <4>4
    <3>5. Len(streamed) >= first
      <4>1. Len(streamed) \in Nat
        BY <1>2, LenProperties
      <4> QED BY <3>2, <3>4, <4>1
    <3>6. ASSUME NEW i \in Found(req, streamed)
          PROVE  \/ req.stop[i] = << >>
                 \/ \E k \in Found(req, text) : k < i /\ Find(text, req.stop[k]) > Find(text, req.stop[i])
      <4> SUFFICES ASSUME req.stop[i] # << >>
                   PROVE  j < i /\ idx > Find(text, req.stop[i])
        BY <3>1, Zenon
      <4>1. Len(streamed) = idx
        BY <3>2, <3>6
      <4>2. /\ i \in Found(req, text) /\ Find(text, req.stop[i]) \in Nat
            /\ Find(text, req.stop[i]) + Len(req.stop[i]) <= Len(streamed)
        BY <1>2, <1>3, <3>2, <3>6, FoundGrows
      <4>3. Len(req.stop[i]) \in Nat \ {0}
        <5>1. req.stop[i] \in Seq(C \cup D)
          BY <1>3, <4>2, FoundIs
        <5> QED BY <5>1, EmptySeq
      <4> PICK f \in Nat : f = Find(text, req.stop[i])
        BY <4>2
      <4> PICK l \in Nat \ {0} : l = Len(req.stop[i])
        BY <4>3
      <4>4. f < idx
        <5>1. f + l <= idx
          BY <4>1, <4>2
        <5> QED BY <3>4, <5>1
      <4>5. j \in Nat /\ i \in Nat /\ j <= i
        BY <1>3, <3>1, <4>2, FoundIs
      <4>6. j # i
        BY <3>4, <4>4
      <4>7. j < i
        BY <4>5, <4>6
      <4>8. idx > f
        BY <3>4, <4>4
      <4> QED BY <4>7, <4>8
    <3> QED BY <1>4, <1>6, <2>1, <2>4, <3>3, <3>5, <3>6, Zenon
  <2> QED BY <2>3, <2>4
<1> QED BY <1>5, <1>6

\* And so for the requests and tokens of the run, whatever its bound on the tokens.
LEMMA TextInputs ==
  ASSUME input \in Inputs \cup {<<"verify", None>>}, input[1] = "text"
  PROVE  \E B, D : /\ input[2].req.stop \in Seq(Seq(D))
                   /\ input[2].tokens \in Seq(Seq(B))
<1> PICK B : B = {"a", "b", Lead, Cont, "<|endoftext|>"}
  OBVIOUS
<1> PICK D : D = {"a", "b", Accented, Replacement}
  OBVIOUS
<1>1. PICK i : i = input[2] /\ i \in Texts
  BY InputKinds
<1>2. i.req.stop \in StopLists /\ i.tokens \in SeqOf(Vocabulary, MaxTextTokens)
  BY <1>1 DEF Texts
<1>3. StopLists \in SUBSET Seq(Seq(D))
  <2>1. \A c \in D, d \in D : <<c>> \in Seq(D) /\ <<c, d>> \in Seq(D)
    OBVIOUS
  <2>2. << >> \in Seq(D) /\ << >> \in Seq(Seq(D))
    OBVIOUS
  <2>3. \A s \in Seq(D), t \in Seq(D) : <<s>> \in Seq(Seq(D)) /\ <<s, t>> \in Seq(Seq(D))
    OBVIOUS
  <2>4. "a" \in D /\ "b" \in D /\ Accented \in D /\ Replacement \in D
    OBVIOUS
  <2>5. /\ <<"a", "b">> \in Seq(D) /\ <<"b">> \in Seq(D) /\ <<"b", "a">> \in Seq(D)
        /\ <<Accented, "b">> \in Seq(D) /\ <<"a">> \in Seq(D) /\ <<"b", "b">> \in Seq(D)
        /\ <<Replacement>> \in Seq(D)
    BY <2>1, <2>4, Zenon
  <2>6. << << >> >> \in Seq(Seq(D)) /\ << <<"a", "b">> >> \in Seq(Seq(D))
    BY <2>2, <2>3, <2>5, Zenon
  <2>7. << <<"b">>, <<"b", "a">> >> \in Seq(Seq(D))
    BY <2>3, <2>5, Zenon
  <2>8. << <<Accented, "b">>, <<"a">> >> \in Seq(Seq(D))
    BY <2>3, <2>5, Zenon
  <2>9. << <<"b", "b">>, <<Replacement>> >> \in Seq(Seq(D))
    BY <2>3, <2>5, Zenon
  <2>10. \A l \in StopLists : l \in Seq(Seq(D))
    BY <2>2, <2>6, <2>7, <2>8, <2>9, Zenon DEF StopLists
  <2> QED BY <2>10
<1>4. Vocabulary \in SUBSET Seq(B)
  <2>1. \A c \in B, d \in B : <<c>> \in Seq(B) /\ <<c, d>> \in Seq(B)
    OBVIOUS
  <2>2. "a" \in B /\ "b" \in B /\ Lead \in B /\ Cont \in B /\ "<|endoftext|>" \in B
    OBVIOUS
  <2>3. \A t \in Vocabulary : t \in Seq(B)
    BY <2>1, <2>2, Zenon DEF Vocabulary, EndOfText
  <2> QED BY <2>3
<1>5. i.tokens \in Seq(Seq(B))
  <2>1. PICK k \in 0 .. MaxTextTokens : i.tokens \in [1 .. k -> Vocabulary]
    BY <1>2 DEF SeqOf
  <2>2. k \in Nat
    BY BoundsAssumption
  <2> PICK T : T = Seq(B)
    OBVIOUS
  <2>3. i.tokens \in [1 .. k -> T]
    BY <1>4, <2>1
  <2>4. i.tokens \in Seq(T)
    BY <2>2, <2>3, SeqDef
  <2> QED BY <2>4
<1> QED BY <1>1, <1>2, <1>3, <1>5

THEOREM TextIsDecodedHolds == MCSpec => []TextIsDecoded
<1>1. input \in Inputs \cup {<<"verify", None>>} => TextIsDecoded
  BY TextInputs, TextIsStreamed, Zenon DEF TextIsDecoded, Given
<1> QED BY <1>1, InputsStay, PTL

\* No stop string is streamed, but for those.
THEOREM NoStopStreamedHolds == MCSpec => []NoStopStreamed
<1>1. input \in Inputs \cup {<<"verify", None>>} => NoStopStreamed
  BY TextInputs, TextIsStreamed, Zenon DEF NoStopStreamed, Given
<1> QED BY <1>1, InputsStay, PTL

=============================================================================
