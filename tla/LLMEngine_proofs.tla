-------------------------- MODULE LLMEngine_proofs --------------------------
(***************************************************************************)
(* Theorems about the engine, for every number of sequences and blocks and *)
(* every block size, batch limit and mix of requests.                      *)
(*                                                                         *)
(* The inductive invariant has three layers: Safe (types and ownership),   *)
(* Lists (who is in which list) and Going (how far each sequence has       *)
(* come).  Each layer is kept by every action given the ones below it.     *)
(***************************************************************************)
EXTENDS LLMEngine, Lemmas

-----------------------------------------------------------------------------
(* The allocator.                                                          *)

\* blocks_needed of a natural number is a natural number.
LEMMA BlocksNeededNat ==
  ASSUME NEW n \in Nat
  PROVE  BlocksNeeded(n) \in Nat
<1>1. BlockSize \in Nat \ {0}
  BY BlockManagerAssumption
<1>2. n + BlockSize - 1 \in Nat
  BY <1>1
<1>3. QED
  BY <1>1, <1>2, SMT DEF BlocksNeeded

\* Division by a positive number, by its defining inequality.
LEMMA DivBounds ==
  ASSUME NEW n \in Nat, NEW b \in Nat \ {0}
  PROVE  /\ n \div b \in Nat
         /\ b * (n \div b) <= n
         /\ n < b * (n \div b) + b
  BY SMT

LEMMA DivUnique ==
  ASSUME NEW n \in Nat, NEW b \in Nat \ {0}, NEW q \in Nat, b * q <= n, n < b * q + b
  PROVE  n \div b = q
<1>1. n \div b \in Nat /\ b * (n \div b) <= n /\ n < b * (n \div b) + b
  BY DivBounds
<1> DEFINE p == n \div b
<1> HIDE DEF p
<1>2. p \in Nat /\ b * p <= n /\ n < b * p + b
  BY <1>1 DEF p
<1>3. ~ (p < q)
  <2> SUFFICES ASSUME p < q PROVE FALSE
    OBVIOUS
  <2>1. b * (p + 1) <= b * q
    BY <1>2
  <2>2. b * (p + 1) = b * p + b
    BY <1>2
  <2>3. b * p \in Int /\ b * q \in Int
    BY <1>2
  <2> QED BY <1>2, <2>1, <2>2, <2>3
<1>4. ~ (q < p)
  <2> SUFFICES ASSUME q < p PROVE FALSE
    OBVIOUS
  <2>1. b * (q + 1) <= b * p
    BY <1>2
  <2>2. b * (q + 1) = b * q + b
    BY <1>2
  <2>3. b * p \in Int /\ b * q \in Int
    BY <1>2
  <2> QED BY <1>2, <2>1, <2>2, <2>3
<1> QED BY <1>2, <1>3, <1>4 DEF p

LEMMA NextBlocks ==
  ASSUME NEW n \in Nat
  PROVE  BlocksNeeded(n + 1) = n \div BlockSize + 1 
<1> DEFINE b == BlockSize
           q == n \div b
<1>1. b \in Nat \ {0}
  BY BlockManagerAssumption
<1>2. q \in Nat /\ b * q <= n /\ n < b * q + b
  BY <1>1, DivBounds
<1>3. BlocksNeeded(n + 1) = (n + b) \div b
  BY <1>1 DEF BlocksNeeded
<1> HIDE DEF b, q
<1>4. b * (q + 1) = b * q + b /\ b * q \in Int
  BY <1>1, <1>2
<1>5. n + b \in Nat /\ q + 1 \in Nat /\ b * (q + 1) <= n + b /\ n + b < b * (q + 1) + b
  BY <1>1, <1>2, <1>4
<1>6. (n + b) \div b = q + 1
  BY <1>1, <1>5, DivUnique
<1> QED BY <1>3, <1>6 DEF b, q

LEMMA BlocksHold ==
  ASSUME NEW n \in Nat
  PROVE  n <= BlocksNeeded(n) * BlockSize
<1> DEFINE b == BlockSize
           q == (n + b - 1) \div b
<1>1. b \in Nat \ {0}
  BY BlockManagerAssumption
<1>2. n + b - 1 \in Nat
  BY <1>1
<1>3. q \in Nat /\ n + b - 1 < b * q + b
  BY <1>1, <1>2, DivBounds
<1>4. BlocksNeeded(n) = q
  BY DEF BlocksNeeded
<1> HIDE DEF b, q
<1>5. b * q \in Int /\ q * b = b * q
  BY <1>1, <1>3
<1>6. n <= q * b
  BY <1>1, <1>3, <1>5
<1> QED BY <1>4, <1>6 DEF b

LEMMA DivMonotone ==
  ASSUME NEW m \in Nat, NEW n \in Nat, m <= n, NEW b \in Nat \ {0}
  PROVE  m \div b <= n \div b
<1> DEFINE p == m \div b
           q == n \div b
<1>1. p \in Nat /\ b * p <= m
  BY DivBounds
<1>2. q \in Nat /\ n < b * q + b
  BY DivBounds
<1> HIDE DEF p, q
<1> SUFFICES ASSUME q < p PROVE FALSE
  BY <1>1, <1>2 DEF p, q
<1>3. b * (q + 1) <= b * p
  BY <1>1, <1>2
<1>4. b * (q + 1) = b * q + b /\ b * q \in Int /\ b * p \in Int
  BY <1>1, <1>2
<1> QED BY <1>1, <1>2, <1>3, <1>4

LEMMA BlocksMonotone ==
  ASSUME NEW m \in Nat, NEW n \in Nat, m <= n
  PROVE  BlocksNeeded(m) <= BlocksNeeded(n)
<1>1. BlockSize \in Nat \ {0}
  BY BlockManagerAssumption
<1>2. m + BlockSize - 1 \in Nat /\ n + BlockSize - 1 \in Nat
      /\ m + BlockSize - 1 <= n + BlockSize - 1
  BY <1>1
<1> QED BY <1>1, <1>2, DivMonotone DEF BlocksNeeded

\* One more token needs at most one more block.
LEMMA OneMoreBlock ==
  ASSUME NEW n \in Nat
  PROVE  BlocksNeeded(n + 1) <= BlocksNeeded(n) + 1
<1>1. CASE n = 0
  <2>1. BlockSize \in Nat \ {0}
    BY BlockManagerAssumption
  <2>2. 0 \div BlockSize = 0
    BY <2>1, DivUnique
  <2>3. BlocksNeeded(n + 1) = 1
    BY <1>1, <2>2, NextBlocks
  <2> QED BY <2>3, BlocksNeededNat
<1>2. CASE n # 0
  <2>1. n - 1 \in Nat /\ (n - 1) + 1 = n
    BY <1>2
  <2>2. BlocksNeeded(n) = (n - 1) \div BlockSize + 1
    BY <2>1, NextBlocks
  <2>3. BlocksNeeded(n + 1) = n \div BlockSize + 1
    BY NextBlocks
  <2>4. BlockSize \in Nat \ {0}
    BY BlockManagerAssumption
  <2> DEFINE b == BlockSize
             p == (n - 1) \div b
             q == n \div b
  <2>5. p \in Nat /\ n - 1 < b * p + b /\ q \in Nat /\ b * q <= n
    BY <2>1, <2>4, DivBounds
  <2> HIDE DEF b, p, q
  <2>6. q <= p + 1
    <3> SUFFICES ASSUME p + 1 < q PROVE FALSE
      BY <2>5
    <3>1. b \in Nat \ {0}
      BY <2>4 DEF b
    <3>2. b * (p + 2) <= b * q
      BY <2>5, <3>1
    <3>3. b * (p + 2) = b * p + b + b /\ b * p \in Int /\ b * q \in Int
      BY <2>5, <3>1
    <3> QED BY <2>5, <3>1, <3>2, <3>3
  <2> QED BY <2>2, <2>3, <2>5, <2>6 DEF b, p, q
<1> QED BY <1>1, <1>2

\* What Grow does to the free list and to the table that grows, by index.
LEMMA GrowEffect ==
  ASSUME BMTypeOK, NEW s \in Seqs, NEW k \in 0 .. Len(free), Grow(s, k)
  PROVE  /\ free' \in Seq(Blocks)
         /\ Len(free') = Len(free) - k
         /\ \A i \in 1 .. Len(free') : free'[i] = free[i]
         /\ block_table' \in [Seqs -> Seq(Blocks)]
         /\ \A t \in Seqs : t # s => block_table'[t] = block_table[t]
         /\ Len(block_table'[s]) = Len(block_table[s]) + k
         /\ \A i \in 1 .. Len(block_table'[s]) :
              block_table'[s][i] =
                IF i <= Len(block_table[s]) THEN block_table[s][i]
                ELSE free[Len(free) + 1 - (i - Len(block_table[s]))]
<1> DEFINE popped == [i \in 1 .. k |-> free[Len(free) + 1 - i]]
<1>1. /\ free \in Seq(Blocks)
      /\ Len(free) \in Nat
      /\ block_table[s] \in Seq(Blocks)
      /\ Len(block_table[s]) \in Nat
      /\ k \in Nat
  BY LenProperties DEF BMTypeOK
<1>2. \A i \in 1 .. Len(free) : free[i] \in Blocks
  BY <1>1, ElementOfSeq
<1>3. /\ popped \in Seq(Blocks) /\ Len(popped) = k
      /\ \A i \in 1 .. k : popped[i] = free[Len(free) + 1 - i]
  <2>1. \A i \in 1 .. k : free[Len(free) + 1 - i] \in Blocks
    BY <1>1, <1>2
  <2>2. popped \in [1 .. k -> Blocks]
    BY <2>1
  <2>3. popped \in Seq(Blocks)
    BY <1>1, <2>2, SeqDef
  <2>4. Len(popped) = k
    BY <1>1, <2>2, <2>3, LenProperties, SMT
  <2>5. \A i \in 1 .. k : popped[i] = free[Len(free) + 1 - i]
    OBVIOUS
  <2> QED
    BY <2>3, <2>4, <2>5
<1>4. /\ free' \in Seq(Blocks)
      /\ Len(free') = Len(free) - k
      /\ \A i \in 1 .. Len(free') : free'[i] = free[i]
  <2>1. free' = SubSeq(free, 1, Len(free) - k)
    BY DEF Grow
  <2>2. \A i \in 1 .. Len(free) - k : free[i] \in Blocks
    BY <1>1, <1>2
  <2>3. /\ SubSeq(free, 1, Len(free) - k) \in Seq(Blocks)
        /\ Len(SubSeq(free, 1, Len(free) - k)) = IF 1 <= Len(free) - k
                                                 THEN Len(free) - k - 1 + 1 ELSE 0
        /\ \A i \in 1 .. Len(free) - k - 1 + 1 :
             SubSeq(free, 1, Len(free) - k)[i] = free[1 + i - 1]
    BY <1>1, <2>2, SubSeqProperties, Len(free) - k \in Int, 1 \in Int
  <2>4. Len(free') = Len(free) - k
    BY <1>1, <2>1, <2>3
  <2> QED
    BY <1>1, <2>1, <2>3, <2>4
<1>5. /\ block_table' = [block_table EXCEPT ![s] = block_table[s] \o popped]
      /\ block_table \in [Seqs -> Seq(Blocks)]
  BY DEF Grow, BMTypeOK
<1> HIDE DEF popped
<1>6. /\ block_table[s] \o popped \in Seq(Blocks)
      /\ Len(block_table[s] \o popped) = Len(block_table[s]) + k
      /\ \A i \in 1 .. Len(block_table[s]) + k :
           (block_table[s] \o popped)[i] =
             IF i <= Len(block_table[s]) THEN block_table[s][i]
             ELSE popped[i - Len(block_table[s])]
  BY <1>1, <1>3, ConcatProperties
<1>7. block_table'[s] = block_table[s] \o popped
  BY <1>5
<1>8. \A i \in 1 .. Len(block_table[s]) + k :
        i > Len(block_table[s]) =>
          popped[i - Len(block_table[s])] = free[Len(free) + 1 - (i - Len(block_table[s]))]
  <2> SUFFICES ASSUME NEW i \in 1 .. Len(block_table[s]) + k, i > Len(block_table[s])
               PROVE  popped[i - Len(block_table[s])]
                        = free[Len(free) + 1 - (i - Len(block_table[s]))]
    OBVIOUS
  <2>1. i - Len(block_table[s]) \in 1 .. k
    BY <1>1
  <2> QED BY <1>3, <2>1
<1>9. \A i \in 1 .. Len(block_table'[s]) :
        block_table'[s][i] =
          IF i <= Len(block_table[s]) THEN block_table[s][i]
          ELSE free[Len(free) + 1 - (i - Len(block_table[s]))]
  BY <1>1, <1>6, <1>7, <1>8
<1>10. /\ block_table' \in [Seqs -> Seq(Blocks)]
       /\ \A t \in Seqs : t # s => block_table'[t] = block_table[t]
  BY <1>5, <1>6
<1>11. Len(block_table'[s]) = Len(block_table[s]) + k
  BY <1>6, <1>7
<1> QED
  BY <1>4, <1>9, <1>10, <1>11

\* Growing a table by free blocks keeps every block's single owner.
LEMMA GrowOwnership ==
  ASSUME BMTypeOK, BlockOwnership, NEW s \in Seqs, NEW k \in 0 .. Len(free), Grow(s, k)
  PROVE  BMTypeOK' /\ BlockOwnership'
<1>1. /\ FreeDistinct /\ TablesDistinct /\ FreeNotInTables /\ NoneLost
      /\ Len(free) \in Nat
      /\ \A t \in Seqs : Len(block_table[t]) \in Nat
  BY LenProperties DEF BMTypeOK, BlockOwnership
<1> DEFINE n == Len(free)
           m == Len(block_table[s])
           popIndex(i) == n + 1 - (i - m)
<1>2. /\ free' \in Seq(Blocks)
      /\ Len(free') = n - k
      /\ \A i \in 1 .. n - k : free'[i] = free[i]
      /\ block_table' \in [Seqs -> Seq(Blocks)]
      /\ \A t \in Seqs : t # s => block_table'[t] = block_table[t]
      /\ Len(block_table'[s]) = m + k
      /\ \A i \in 1 .. m + k : block_table'[s][i] =
           IF i <= m THEN block_table[s][i] ELSE free[popIndex(i)]
  BY GrowEffect
<1>3. n \in Nat /\ m \in Nat /\ k \in 0 .. n /\ n = Len(free) /\ m = Len(block_table[s])
  BY <1>1
<1> HIDE DEF n, m
<1>4. BMTypeOK'
  BY <1>2 DEF BMTypeOK, Blocks
<1>5. \A i \in 1 .. Len(free') :
         i \in 1 .. Len(free) /\ i < n - k + 1 /\ free'[i] = free[i]
  <2> SUFFICES ASSUME NEW i \in 1 .. n - k
               PROVE  i \in 1 .. n /\ i < n - k + 1 /\ free'[i] = free[i]
    BY <1>2, <1>3
  <2> QED BY <1>2, <1>3
<1>6. FreeDistinct'
  BY <1>1, <1>5 DEF FreeDistinct
<1> DEFINE Kept(t, i) == /\ i \in 1 .. Len(block_table[t])
                         /\ block_table'[t][i] = block_table[t][i]
           Popped(t, i) == /\ t = s /\ i \in m + 1 .. m + k
                           /\ block_table'[t][i] = free[popIndex(i)]
<1>7. \A t \in Seqs : \A i \in 1 .. Len(block_table'[t]) : Kept(t, i) \/ Popped(t, i)
  <2> SUFFICES ASSUME NEW t \in Seqs, NEW i \in 1 .. Len(block_table'[t])
               PROVE  Kept(t, i) \/ Popped(t, i)
    OBVIOUS
  <2>1. CASE t # s
    BY <1>2, <2>1
  <2>2. CASE t = s /\ i <= m
    BY <1>2, <1>3, <2>2
  <2>3. CASE t = s /\ i > m
    BY <1>2, <1>3, <2>3
  <2> QED
    BY <1>2, <1>3, <2>1, <2>2, <2>3
<1>8. \A i \in m + 1 .. m + k : popIndex(i) \in n - k + 1 .. n /\ popIndex(i) \in 1 .. n
  BY <1>3
<1>9. \A i, j \in m + 1 .. m + k : popIndex(i) = popIndex(j) => i = j
  BY <1>3
<1>10. \A i \in n - k + 1 .. n :
          m + (n + 1 - i) \in m + 1 .. m + k /\ popIndex(m + (n + 1 - i)) = i
  <2> SUFFICES ASSUME NEW i \in n - k + 1 .. n
               PROVE  m + (n + 1 - i) \in m + 1 .. m + k /\ popIndex(m + (n + 1 - i)) = i
    OBVIOUS
  <2> DEFINE d == n + 1 - i
  <2>1. d \in Int /\ d \in 1 .. k /\ i = n + 1 - d
    BY <1>3
  <2> HIDE DEF d
  <2>2. m + d \in m + 1 .. m + k /\ m + d - m = d
    BY <1>3, <2>1
  <2>3. popIndex(m + d) = i
    BY <1>3, <2>1, <2>2
  <2> QED BY <2>2, <2>3 DEF d
<1> HIDE DEF popIndex
<1>11. TablesDistinct'
  <2> SUFFICES ASSUME NEW t \in Seqs, NEW u \in Seqs,
                      NEW i \in 1 .. Len(block_table'[t]), NEW j \in 1 .. Len(block_table'[u]),
                      block_table'[t][i] = block_table'[u][j]
               PROVE  t = u /\ i = j
    BY DEF TablesDistinct
  <2>1. CASE Kept(t, i) /\ Kept(u, j)
    <3>1. block_table[t][i] = block_table[u][j]
      BY <2>1
    <3> QED BY <1>1, <2>1, <3>1 DEF TablesDistinct
  <2>2. CASE Kept(t, i) /\ Popped(u, j)
    <3>1. popIndex(j) \in 1 .. Len(free) /\ block_table[t][i] = free[popIndex(j)]
      BY <1>8, <1>3, <2>2
    <3> QED BY <1>1, <2>2, <3>1 DEF FreeNotInTables
  <2>3. CASE Popped(t, i) /\ Kept(u, j)
    <3>1. popIndex(i) \in 1 .. Len(free) /\ block_table[u][j] = free[popIndex(i)]
      BY <1>8, <1>3, <2>3
    <3> QED BY <1>1, <2>3, <3>1 DEF FreeNotInTables
  <2>4. CASE Popped(t, i) /\ Popped(u, j)
    <3>1. /\ popIndex(i) \in 1 .. Len(free) /\ popIndex(j) \in 1 .. Len(free)
          /\ free[popIndex(i)] = free[popIndex(j)]
      BY <1>8, <1>3, <2>4
    <3>2. popIndex(i) = popIndex(j)
      BY <1>1, <3>1 DEF FreeDistinct
    <3> QED BY <1>9, <2>4, <3>2
  <2> QED
    BY <1>7, <2>1, <2>2, <2>3, <2>4
<1>12. FreeNotInTables'
  <2> SUFFICES ASSUME NEW t \in Seqs, NEW i \in 1 .. Len(block_table'[t]),
                      NEW j \in 1 .. Len(free')
               PROVE  block_table'[t][i] # free'[j]
    BY DEF FreeNotInTables
  <2>1. j \in 1 .. Len(free) /\ j < n - k + 1 /\ free'[j] = free[j]
    BY <1>5
  <2>2. CASE Kept(t, i)
    BY <1>1, <2>1, <2>2 DEF FreeNotInTables
  <2>3. CASE Popped(t, i)
    <3>1. popIndex(i) \in 1 .. Len(free) /\ popIndex(i) # j
      BY <1>8, <1>3, <2>1, <2>3
    <3> QED BY <1>1, <2>1, <2>3, <3>1 DEF FreeDistinct
  <2> QED
    BY <1>7, <2>2, <2>3
<1>13. NoneLost'
  <2> SUFFICES ASSUME NEW b \in Blocks
               PROVE  \/ \E i \in 1 .. Len(free') : free'[i] = b
                      \/ \E t \in Seqs : \E i \in 1 .. Len(block_table'[t]) :
                           block_table'[t][i] = b
    BY DEF NoneLost, Blocks
  <2>1. CASE \E i \in 1 .. Len(free) : free[i] = b
    <3>1. PICK i \in 1 .. Len(free) : free[i] = b
      BY <2>1
    <3>2. CASE i \in 1 .. n - k
      BY <1>2, <3>1, <3>2
    <3>3. CASE i \in n - k + 1 .. n
      <4> DEFINE j == m + (n + 1 - i)
      <4>1. j \in m + 1 .. m + k /\ popIndex(j) = i
        BY <1>10, <3>3
      <4> HIDE DEF j
      <4>2. j \in 1 .. m + k /\ ~ (j <= m)
        BY <1>3, <4>1
      <4>3. block_table'[s][j] = b
        BY <1>2, <3>1, <4>1, <4>2 DEF popIndex
      <4> QED BY <1>2, <4>2, <4>3
    <3> QED BY <1>3, <3>1, <3>2, <3>3
  <2>2. CASE \E t \in Seqs : \E i \in 1 .. Len(block_table[t]) : block_table[t][i] = b
    <3>1. PICK t \in Seqs : \E i \in 1 .. Len(block_table[t]) : block_table[t][i] = b
      BY <2>2
    <3>2. PICK i \in 1 .. Len(block_table[t]) : block_table[t][i] = b
      BY <3>1
    <3>3. CASE t = s
      <4>1. i \in 1 .. m
        BY <1>3, <3>2, <3>3
      <4>2. i \in 1 .. m + k /\ i <= m
        BY <1>3, <4>1
      <4> QED BY <1>2, <3>2, <3>3, <4>2
    <3>4. CASE t # s
      BY <1>2, <3>1, <3>2, <3>4
    <3> QED BY <3>3, <3>4
  <2> QED
    BY <1>1, <2>1, <2>2 DEF NoneLost
<1> QED
  BY <1>4, <1>6, <1>11, <1>12, <1>13 DEF BlockOwnership

\* Releasing a table returns all its blocks: none is lost, none has two owners.
LEMMA FreeOwnership ==
  ASSUME BMTypeOK, BlockOwnership, NEW s \in Seqs, Free(s)
  PROVE  /\ BMTypeOK' /\ BlockOwnership'
         /\ Len(free') = Len(free) + Len(block_table[s])
         /\ block_table' = [block_table EXCEPT ![s] = << >>]
<1>1. /\ FreeDistinct /\ TablesDistinct /\ FreeNotInTables /\ NoneLost
      /\ free \in Seq(Blocks) /\ block_table[s] \in Seq(Blocks)
      /\ \A t \in Seqs : Len(block_table[t]) \in Nat
  BY LenProperties DEF BMTypeOK, BlockOwnership
<1> DEFINE n == Len(free)
           m == Len(block_table[s])
<1>2. /\ free' \in Seq(Blocks)
      /\ Len(free') = n + m
      /\ \A i \in 1 .. n + m : free'[i] = IF i <= n THEN free[i] ELSE block_table[s][i - n]
  BY <1>1, ConcatProperties DEF Free
<1>3. /\ block_table' = [block_table EXCEPT ![s] = << >>]
      /\ block_table' \in [Seqs -> Seq(Blocks)]
      /\ block_table'[s] = << >> /\ Len(block_table'[s]) = 0
      /\ \A t \in Seqs : t # s => block_table'[t] = block_table[t]
  BY EmptySeq DEF Free, BMTypeOK
<1>4. n \in Nat /\ m \in Nat /\ n = Len(free) /\ m = Len(block_table[s])
  BY <1>1, LenProperties
<1> HIDE DEF n, m
<1>5. \A i \in 1 .. n + m :
        \/ i \in 1 .. n /\ free'[i] = free[i]
        \/ i \in n + 1 .. n + m /\ i - n \in 1 .. m /\ free'[i] = block_table[s][i - n]
  BY <1>2, <1>4
<1>6. FreeDistinct'
  <2> SUFFICES ASSUME NEW i \in 1 .. n + m, NEW j \in 1 .. n + m, free'[i] = free'[j]
               PROVE  i = j
    BY <1>2 DEF FreeDistinct
  <2>1. CASE /\ i \in 1 .. n /\ free'[i] = free[i]
             /\ j \in 1 .. n /\ free'[j] = free[j]
    BY <1>1, <1>4, <2>1 DEF FreeDistinct
  <2>2. CASE /\ i \in 1 .. n /\ free'[i] = free[i]
             /\ j - n \in 1 .. m /\ free'[j] = block_table[s][j - n]
    BY <1>1, <1>4, <2>2 DEF FreeNotInTables
  <2>3. CASE /\ i - n \in 1 .. m /\ free'[i] = block_table[s][i - n]
             /\ j \in 1 .. n /\ free'[j] = free[j]
    BY <1>1, <1>4, <2>3 DEF FreeNotInTables
  <2>4. CASE /\ i - n \in 1 .. m /\ free'[i] = block_table[s][i - n]
             /\ j - n \in 1 .. m /\ free'[j] = block_table[s][j - n]
    <3>1. /\ i - n \in 1 .. Len(block_table[s]) /\ j - n \in 1 .. Len(block_table[s])
          /\ block_table[s][i - n] = block_table[s][j - n]
      BY <1>4, <2>4
    <3>2. \A x, y \in 1 .. Len(block_table[s]) :
            block_table[s][x] = block_table[s][y] => x = y
      BY <1>1 DEF TablesDistinct
    <3>3. i - n = j - n
      BY <3>1, <3>2
    <3> QED BY <1>4, <3>3
  <2> QED
    BY <1>5, <2>1, <2>2, <2>3, <2>4
<1>7. \A t \in Seqs : \A i \in 1 .. Len(block_table'[t]) :
        t # s /\ i \in 1 .. Len(block_table[t]) /\ block_table'[t][i] = block_table[t][i]
  <2> SUFFICES ASSUME NEW t \in Seqs, NEW i \in 1 .. Len(block_table'[t])
               PROVE  t # s /\ i \in 1 .. Len(block_table[t])
                      /\ block_table'[t][i] = block_table[t][i]
    OBVIOUS
  <2>1. t # s
    BY <1>3
  <2> QED BY <1>3, <2>1
<1>8. TablesDistinct'
  BY <1>1, <1>7 DEF TablesDistinct
<1>9. FreeNotInTables'
  <2> SUFFICES ASSUME NEW t \in Seqs, NEW i \in 1 .. Len(block_table'[t]),
                      NEW j \in 1 .. n + m
               PROVE  block_table'[t][i] # free'[j]
    BY <1>2 DEF FreeNotInTables
  <2>1. t # s /\ i \in 1 .. Len(block_table[t]) /\ block_table'[t][i] = block_table[t][i]
    BY <1>7
  <2>2. CASE j \in 1 .. n /\ free'[j] = free[j]
    BY <1>1, <1>4, <2>1, <2>2 DEF FreeNotInTables
  <2>3. CASE j - n \in 1 .. m /\ free'[j] = block_table[s][j - n]
    BY <1>1, <1>4, <2>1, <2>3 DEF TablesDistinct
  <2> QED
    BY <1>5, <2>2, <2>3
<1>10. NoneLost'
  <2> SUFFICES ASSUME NEW b \in Blocks
               PROVE  \/ \E i \in 1 .. Len(free') : free'[i] = b
                      \/ \E t \in Seqs : \E i \in 1 .. Len(block_table'[t]) :
                           block_table'[t][i] = b
    BY DEF NoneLost, Blocks
  <2>1. CASE \E i \in 1 .. Len(free) : free[i] = b
    <3>1. PICK i \in 1 .. n : free[i] = b
      BY <1>4, <2>1
    <3>2. i \in 1 .. n + m /\ i <= n
      BY <1>4, <3>1
    <3> QED BY <1>2, <3>1, <3>2
  <2>2. CASE \E t \in Seqs : \E i \in 1 .. Len(block_table[t]) : block_table[t][i] = b
    <3>1. PICK t \in Seqs : \E i \in 1 .. Len(block_table[t]) : block_table[t][i] = b
      BY <2>2
    <3>2. PICK i \in 1 .. Len(block_table[t]) : block_table[t][i] = b
      BY <3>1
    <3>3. CASE t = s
      <4>1. i \in 1 .. m
        BY <1>4, <3>2, <3>3
      <4>2. PICK j \in Int : j = n + i
        BY <1>4, <4>1
      <4>3. j \in 1 .. n + m /\ ~ (j <= n) /\ j - n = i
        BY <1>4, <4>1, <4>2
      <4>4. free'[j] = b
        BY <1>2, <3>2, <3>3, <4>3
      <4> QED BY <1>2, <4>3, <4>4
    <3>4. CASE t # s
      BY <1>3, <3>1, <3>2, <3>4
    <3> QED BY <3>3, <3>4
  <2> QED
    BY <1>1, <2>1, <2>2 DEF NoneLost
<1>11. BMTypeOK'
  BY <1>2, <1>3 DEF BMTypeOK, Blocks
<1> QED
  BY <1>2, <1>3, <1>4, <1>6, <1>8, <1>9, <1>10, <1>11 DEF BlockOwnership

-----------------------------------------------------------------------------
(* The scheduler.                                                          *)

\* An operation that leaves the allocator alone keeps what is said of it.
LEMMA UntouchedOwnership ==
  ASSUME BMTypeOK, BlockOwnership, UNCHANGED bmVars
  PROVE  BMTypeOK' /\ BlockOwnership'
BY DEF bmVars, BMTypeOK, BlockOwnership, FreeDistinct, TablesDistinct,
       FreeNotInTables, NoneLost, Blocks

\* allocate(), its assertion holding.
LEMMA AllocateOwnership ==
  ASSUME BMTypeOK, BlockOwnership, NEW s \in Seqs, NEW n \in Nat,
         AllocateAsserts(s, n), Allocate(s, n)
  PROVE  BMTypeOK' /\ BlockOwnership'
<1> DEFINE needed == BlocksNeeded(n) - Len(block_table[s])
<1>1. Len(free) \in Nat /\ needed \in Int /\ needed <= Len(free)
  BY BlocksNeededNat, LenProperties DEF BMTypeOK, AllocateAsserts
<1>2. CASE needed <= 0
  BY <1>2, UntouchedOwnership DEF Allocate
<1>3. CASE ~ (needed <= 0)
  <2>1. needed \in 0 .. Len(free)
    BY <1>1, <1>3
  <2>2. Grow(s, needed)
    BY <1>3 DEF Allocate
  <2> HIDE DEF needed
  <2> QED BY <2>1, <2>2, GrowOwnership
<1> QED BY <1>2, <1>3

\* append_slot() when it returns True.
LEMMA AppendSlotOwnership ==
  ASSUME BMTypeOK, BlockOwnership, NEW s \in Seqs, NEW n,
         CanAppendSlot(s, n), AppendSlot(s, n)
  PROVE  BMTypeOK' /\ BlockOwnership'
<1>1. CASE HasSlot(s, n)
  BY <1>1, UntouchedOwnership DEF AppendSlot
<1>2. CASE ~ HasSlot(s, n)
  <2>1. free # << >> /\ Grow(s, 1)
    BY <1>2 DEF CanAppendSlot, AppendSlot
  <2>2. 1 \in 0 .. Len(free)
    BY <2>1, EmptySeq, LenProperties DEF BMTypeOK
  <2> QED BY <2>1, <2>2, GrowOwnership
<1> QED BY <1>1, <1>2

\* finish().
LEMMA FinishSafe ==
  ASSUME SchedulerTypeOK, BlockOwnership, NEW s \in Seqs, NEW r \in Reasons,
         Finish(s, r)
  PROVE  /\ BMTypeOK' /\ BlockOwnership'
         /\ running' \in Seq(Seqs)
         /\ status' \in [Seqs -> Statuses]
         /\ finish_reason' \in [Seqs -> Reasons]
<1>1. BMTypeOK' /\ BlockOwnership'
  BY FreeOwnership DEF SchedulerTypeOK, Finish
<1>2. running' \in Seq(Seqs)
  BY RemoveFirstType DEF SchedulerTypeOK, Finish
<1>3. status' \in [Seqs -> Statuses] /\ finish_reason' \in [Seqs -> Reasons]
  BY DEF SchedulerTypeOK, Finish, Statuses
<1> QED BY <1>1, <1>2, <1>3

\* _preempt().
LEMMA PreemptSafe ==
  ASSUME SchedulerTypeOK, BlockOwnership, NEW v \in Seqs, Preempt(v)
  PROVE  /\ BMTypeOK' /\ BlockOwnership'
         /\ running' \in Seq(Seqs)
         /\ waiting' \in Seq(Seqs)
         /\ status' \in [Seqs -> Statuses]
         /\ num_computed' \in [Seqs -> Nat]
<1>1. BMTypeOK' /\ BlockOwnership'
  BY FreeOwnership DEF SchedulerTypeOK, Preempt
<1>2. running' \in Seq(Seqs)
  BY RemoveFirstType DEF SchedulerTypeOK, Preempt
<1>3. waiting' \in Seq(Seqs)
  <2>1. <<v>> \in Seq(Seqs)
    OBVIOUS
  <2> QED BY <2>1, ConcatProperties DEF SchedulerTypeOK, Preempt
<1>4. status' \in [Seqs -> Statuses] /\ num_computed' \in [Seqs -> Nat]
  BY DEF SchedulerTypeOK, Preempt, Statuses
<1> QED BY <1>1, <1>2, <1>3, <1>4

\* The victim is a running sequence of the list, not the claimant.
LEMMA VictimOfList ==
  ASSUME SchedulerTypeOK, NEW s, VictimIndices(s) # {}
  PROVE  /\ Max(VictimIndices(s)) \in 1 .. Len(running)
         /\ running[Max(VictimIndices(s))] \in Seqs
         /\ running[Max(VictimIndices(s))] # s
         /\ status[running[Max(VictimIndices(s))]] = "RUNNING"
<1>1. Len(running) \in Nat /\ VictimIndices(s) \in SUBSET (1 .. Len(running))
  BY LenProperties DEF SchedulerTypeOK, VictimIndices
<1>2. Max(VictimIndices(s)) \in VictimIndices(s)
  BY <1>1, MaxIndex
<1>3. Max(VictimIndices(s)) \in 1 .. Len(running)
  BY <1>1, <1>2
<1>4. running[Max(VictimIndices(s))] \in Seqs
  BY <1>3, ElementOfSeq DEF SchedulerTypeOK
<1> QED BY <1>2, <1>3, <1>4 DEF VictimIndices

\* The head of a nonempty list of sequences, and what is left of it.
LEMMA HeadOfList ==
  ASSUME NEW q \in Seq(Seqs), q # << >>
  PROVE  Head(q) \in Seqs /\ Tail(q) \in Seq(Seqs)
BY HeadTailProperties

-----------------------------------------------------------------------------
(* Types and ownership.                                                    *)

\* The state predicate the type theorem and the ownership theorem share: each
\* step that moves blocks needs both to show that it keeps either.
Safe == TypeOK /\ BlockOwnership

USE DEF Safe, TypeOK

LEMMA InitSafe == Init => Safe
<1> SUFFICES ASSUME Init PROVE Safe
  OBVIOUS
<1>1. NumBlocks \in Nat
  BY BlockManagerAssumption
<1>2. free = [i \in 1 .. NumBlocks |-> i - 1]
  BY DEF Init, SchedulerInit, BMInit
<1>3. free \in [1 .. NumBlocks -> Blocks]
  BY <1>1, <1>2 DEF Blocks
<1>4. free \in Seq(Blocks) /\ Len(free) = NumBlocks
  <2>1. free \in Seq(Blocks)
    BY <1>1, <1>3, SeqDef
  <2>2. DOMAIN free = 1 .. Len(free) /\ Len(free) \in Nat
    BY <2>1, LenProperties
  <2>3. DOMAIN free = 1 .. NumBlocks
    BY <1>3
  <2>4. Len(free) = NumBlocks
    <3> DEFINE n == Len(free)
    <3>1. n \in Nat /\ 1 .. n = 1 .. NumBlocks
      BY <2>2, <2>3
    <3> HIDE DEF n
    <3>2. n <= NumBlocks
      <4>1. CASE n = 0
        BY <1>1, <4>1
      <4>2. CASE n # 0
        <5>1. n \in 1 .. n
          BY <3>1, <4>2
        <5> QED BY <1>1, <3>1, <5>1
      <4> QED BY <4>1, <4>2
    <3>3. NumBlocks <= n
      <4>1. CASE NumBlocks = 0
        BY <3>1, <4>1
      <4>2. CASE NumBlocks # 0
        <5>1. NumBlocks \in 1 .. NumBlocks
          BY <1>1, <4>2
        <5> QED BY <3>1, <5>1
      <4> QED BY <4>1, <4>2
    <3>4. n = NumBlocks
      BY <1>1, <3>1, <3>2, <3>3
    <3> QED BY <3>4 DEF n
  <2> QED BY <2>1, <2>4
<1>5. \A s \in Seqs : block_table[s] = << >> /\ Len(block_table[s]) = 0
  BY EmptySeq DEF Init, SchedulerInit, BMInit
<1>6. TypeOK
  BY <1>4, EmptySeq DEF Init, SchedulerInit, BMInit, SchedulerTypeOK, BMTypeOK,
     Statuses, Reasons, PCs
<1>7. FreeDistinct
  BY <1>1, <1>2, <1>4 DEF FreeDistinct
<1>8. TablesDistinct /\ FreeNotInTables
  BY <1>5 DEF TablesDistinct, FreeNotInTables
<1>9. NoneLost
  <2> SUFFICES ASSUME NEW b \in Blocks PROVE \E i \in 1 .. Len(free) : free[i] = b
    BY DEF NoneLost
  <2>1. PICK i \in 1 .. NumBlocks : i - 1 = b
    <3> DEFINE k == b + 1
    <3>1. k \in 1 .. NumBlocks /\ k - 1 = b
      BY <1>1 DEF Blocks
    <3> HIDE DEF k
    <3> QED BY <3>1
  <2>2. free[i] = b
    BY <1>2, <2>1
  <2>3. i \in 1 .. Len(free)
    BY <1>4, <2>1
  <2> QED BY <2>2, <2>3
<1> QED
  BY <1>6, <1>7, <1>8, <1>9 DEF BlockOwnership

-----------------------------------------------------------------------------
(* One lemma per action.                                                   *)

LEMMA AddRequestSafe ==
  ASSUME Safe, NEW s \in Seqs, NEW p \in PromptLens, NEW m \in MaxTokensValues,
         AddRequest(s, p, m)
  PROVE  Safe'
<1>1. BMTypeOK' /\ BlockOwnership'
  BY UntouchedOwnership DEF AddRequest, SchedulerTypeOK, bmVars
<1>2. waiting' \in Seq(Seqs)
  BY AppendProperties DEF AddRequest, Enqueue, SchedulerTypeOK
<1>3. p \in Nat /\ m \in Int
  BY EngineAssumption
<1> QED
  BY <1>1, <1>2, <1>3 DEF AddRequest, Enqueue, SchedulerTypeOK, Statuses

LEMMA CancelRequestSafe ==
  ASSUME Safe, NEW s \in Seqs, CancelRequest(s)
  PROVE  Safe'
<1>1. CASE Finish(s, "cancelled") /\ UNCHANGED waiting
  <2>1. "cancelled" \in Reasons
    BY DEF Reasons
  <2>2. /\ BMTypeOK' /\ BlockOwnership' /\ running' \in Seq(Seqs)
        /\ status' \in [Seqs -> Statuses] /\ finish_reason' \in [Seqs -> Reasons]
    BY <1>1, <2>1, FinishSafe
  <2> QED
    BY <1>1, <2>2 DEF CancelRequest, SchedulerTypeOK
<1>2. CASE /\ waiting' = RemoveFirst(waiting, s)
           /\ status' = [status EXCEPT ![s] = "FINISHED"]
           /\ finish_reason' = [finish_reason EXCEPT ![s] = "cancelled"]
           /\ UNCHANGED <<bmVars, running>>
  <2>1. BMTypeOK' /\ BlockOwnership'
    BY <1>2, UntouchedOwnership DEF SchedulerTypeOK
  <2>2. waiting' \in Seq(Seqs)
    BY <1>2, RemoveFirstType DEF SchedulerTypeOK
  <2> QED
    BY <1>2, <2>1, <2>2 DEF CancelRequest, SchedulerTypeOK, Statuses, Reasons
<1>3. CASE UNCHANGED <<bmVars, running, waiting, status, finish_reason>>
  <2>1. BMTypeOK' /\ BlockOwnership'
    BY <1>3, UntouchedOwnership DEF SchedulerTypeOK
  <2> QED
    BY <1>3, <2>1 DEF CancelRequest, SchedulerTypeOK
<1> QED
  BY <1>1, <1>2, <1>3 DEF CancelRequest, CancelById

\* Actions that leave the allocator and the fields of every sequence alone.
LEMMA ListStepSafe ==
  ASSUME Safe, UNCHANGED detokenizers,
         ScheduleBegin \/ SchedulePrefill \/ ScheduleDecode \/ SkipPreempted \/ CapacityDone
  PROVE  Safe'
<1>1. UNCHANGED bmVars
  BY DEF ScheduleBegin, SchedulePrefill, ScheduleDecode, SkipPreempted, CapacityDone
<1>2. BMTypeOK' /\ BlockOwnership'
  BY <1>1, UntouchedOwnership DEF SchedulerTypeOK
<1>3. UNCHANGED <<waiting, seqVars>>
  BY DEF ScheduleBegin, SchedulePrefill, ScheduleDecode, SkipPreempted, CapacityDone
<1>4. /\ running' \in Seq(Seqs)
      /\ todo' \in Seq(Seqs)
      /\ pc' \in PCs
  <2>1. CASE ScheduleBegin
    BY <2>1, EmptySeq DEF ScheduleBegin, SchedulerTypeOK, PCs
  <2>2. CASE SchedulePrefill
    BY <2>2, ConcatProperties DEF SchedulePrefill, SchedulerTypeOK, PCs
  <2>3. CASE ScheduleDecode
    BY <2>3 DEF ScheduleDecode, SchedulerTypeOK, PCs
  <2>4. CASE SkipPreempted
    BY <2>4, HeadOfList DEF SkipPreempted, SchedulerTypeOK
  <2>5. CASE CapacityDone
    BY <2>5 DEF CapacityDone, SchedulerTypeOK, PCs
  <2> QED BY <2>1, <2>2, <2>3, <2>4, <2>5
<1> QED
  BY <1>2, <1>3, <1>4 DEF SchedulerTypeOK, seqVars

LEMMA AdmitHeadSafe ==
  ASSUME Safe, AdmitHead, UNCHANGED detokenizers
  PROVE  Safe'
<1> DEFINE s == Head(waiting)
<1>1. s \in Seqs /\ Tail(waiting) \in Seq(Seqs)
  BY HeadOfList DEF AdmitHead, HeadFits, SchedulerTypeOK
<1>2. NumTokens(s) \in Nat
  BY <1>1 DEF NumTokens, SchedulerTypeOK
<1>3. CASE AllocateAsserts(s, NumTokens(s))
  <2>1. Allocate(s, NumTokens(s))
    BY <1>3 DEF AdmitHead
  <2>2. BMTypeOK' /\ BlockOwnership'
    <3> DEFINE n == NumTokens(s)
    <3>1. /\ s \in Seqs /\ n \in Nat /\ BMTypeOK /\ BlockOwnership
          /\ AllocateAsserts(s, n) /\ Allocate(s, n)
      BY <1>1, <1>2, <1>3, <2>1 DEF SchedulerTypeOK
    <3> HIDE DEF s, n
    <3> QED BY <3>1, AllocateOwnership
  <2>3. todo' \in Seq(Seqs)
    <3>1. todo' = Append(todo, s)
      BY <1>3 DEF AdmitHead
    <3> HIDE DEF s
    <3> QED BY <1>1, <3>1, AppendProperties DEF SchedulerTypeOK
  <2> QED
    BY <1>1, <1>3, <2>2, <2>3 DEF AdmitHead, SchedulerTypeOK, Statuses
<1>4. CASE ~ AllocateAsserts(s, NumTokens(s))
  <2>1. BMTypeOK' /\ BlockOwnership'
    BY <1>4, UntouchedOwnership DEF AdmitHead, SchedulerTypeOK
  <2> QED
    BY <1>4, <2>1 DEF AdmitHead, SchedulerTypeOK, PCs
<1> QED BY <1>3, <1>4

LEMMA SecureSlotSafe ==
  ASSUME Safe, SecureSlot, UNCHANGED detokenizers
  PROVE  Safe'
<1>1. Head(todo) \in Seqs /\ Tail(todo) \in Seq(Seqs)
  BY HeadOfList DEF SecureSlot, Claiming, SchedulerTypeOK
<1>2. BMTypeOK' /\ BlockOwnership'
  BY <1>1, AppendSlotOwnership DEF SecureSlot, SchedulerTypeOK
<1> QED
  BY <1>1, <1>2 DEF SecureSlot, SchedulerTypeOK, seqVars

LEMMA PreemptVictimSafe ==
  ASSUME Safe, PreemptVictim, UNCHANGED detokenizers
  PROVE  Safe'
<1> DEFINE v == running[Max(VictimIndices(Head(todo)))]
<1>1. v \in Seqs /\ Preempt(v)
  BY VictimOfList DEF PreemptVictim
<1>2. /\ BMTypeOK' /\ BlockOwnership'
      /\ running' \in Seq(Seqs) /\ waiting' \in Seq(Seqs)
      /\ status' \in [Seqs -> Statuses] /\ num_computed' \in [Seqs -> Nat]
  <2> HIDE DEF v
  <2> QED BY <1>1, PreemptSafe
<1> QED
  BY <1>2 DEF PreemptVictim, SchedulerTypeOK

LEMMA PreemptSelfSafe ==
  ASSUME Safe, PreemptSelf, UNCHANGED detokenizers
  PROVE  Safe'
<1>1. Head(todo) \in Seqs /\ Tail(todo) \in Seq(Seqs)
  BY HeadOfList DEF PreemptSelf, Claiming, SchedulerTypeOK
<1>2. Preempt(Head(todo))
  BY DEF PreemptSelf
<1>3. /\ BMTypeOK' /\ BlockOwnership'
      /\ running' \in Seq(Seqs) /\ waiting' \in Seq(Seqs)
      /\ status' \in [Seqs -> Statuses] /\ num_computed' \in [Seqs -> Nat]
  BY <1>1, <1>2, PreemptSafe
<1> QED
  BY <1>1, <1>3 DEF PreemptSelf, SchedulerTypeOK

\* _check_finish and the stop override give one of the reasons.
LEMMA OutcomeIsReason ==
  ASSUME NEW s \in Seqs, NEW r \in Outcomes(s)
  PROVE  r \in {"none", "eot", "length", "stop"}
<1>1. \A eot, stopped \in BOOLEAN :
        CheckFinish(s, eot, stopped) \in {"none", "eot", "length", "stop"}
  BY DEF CheckFinish
<1> QED BY <1>1 DEF Outcomes

LEMMA SampleSafe ==
  ASSUME Safe, NEW s \in Seqs, NEW r \in Outcomes(s), SampleAndAdvance(s, r)
  PROVE  /\ BMTypeOK' /\ BlockOwnership'
         /\ running' \in Seq(Seqs)
         /\ status' \in [Seqs -> Statuses]
         /\ finish_reason' \in [Seqs -> Reasons]
         /\ output_len' \in [Seqs -> Nat]
<1>1. output_len' \in [Seqs -> Nat]
  BY DEF SampleAndAdvance, SchedulerTypeOK
<1>2. r \in Reasons
  BY OutcomeIsReason DEF Reasons
<1>3. CASE r = "none"
  <2>1. BMTypeOK' /\ BlockOwnership'
    BY <1>3, UntouchedOwnership DEF SampleAndAdvance, SchedulerTypeOK
  <2> QED BY <1>1, <1>3, <2>1 DEF SampleAndAdvance, SchedulerTypeOK
<1>4. CASE r # "none"
  <2>1. Finish(s, r)
    BY <1>4 DEF SampleAndAdvance
  <2> QED BY <1>1, <1>2, <2>1, FinishSafe
<1> QED BY <1>3, <1>4

\* An exception leaves everything but pc as it is.
LEMMA RaiseSafe ==
  ASSUME Safe, Raise
  PROVE  Safe'
<1>1. BMTypeOK' /\ BlockOwnership'
  BY UntouchedOwnership DEF Raise, SchedulerTypeOK
<1> QED BY <1>1 DEF Raise, SchedulerTypeOK, seqVars, PCs

LEMMA PrefillOneSafe ==
  ASSUME Safe, PrefillOne
  PROVE  Safe'
<1> DEFINE s == Head(todo)
<1>1. s \in Seqs /\ Tail(todo) \in Seq(Seqs)
  BY HeadOfList DEF PrefillOne, SchedulerTypeOK
<1>2. CASE PrefillOK(s)
  <2>1. PICK r \in Outcomes(s) : SampleAndAdvance(s, r)
    BY <1>2 DEF PrefillOne
  <2>2. /\ BMTypeOK' /\ BlockOwnership' /\ running' \in Seq(Seqs)
        /\ status' \in [Seqs -> Statuses] /\ finish_reason' \in [Seqs -> Reasons]
        /\ output_len' \in [Seqs -> Nat]
    BY <1>1, <2>1, SampleSafe
  <2>3. PrefillLen(s) \in Nat
    BY <1>1 DEF PrefillLen, NumTokens, SchedulerTypeOK
  <2> QED
    BY <1>1, <1>2, <2>2, <2>3 DEF PrefillOne, SchedulerTypeOK
<1>3. CASE ~ PrefillOK(s)
  BY <1>3, RaiseSafe DEF PrefillOne
<1> QED BY <1>2, <1>3

LEMMA ForwardSafe ==
  ASSUME Safe, Forward
  PROVE  Safe'
<1>1. CASE \A i \in 1 .. Len(todo) : DecodeOK(todo[i])
  <2>1. UNCHANGED bmVars /\ UNCHANGED <<waiting, running>>
    BY <1>1 DEF Forward
  <2>2. BMTypeOK' /\ BlockOwnership'
    BY <2>1, UntouchedOwnership DEF SchedulerTypeOK
  <2>3. num_computed' \in [Seqs -> Nat]
    <3>1. num_computed' = [s \in Seqs |-> IF Contains(todo, s) THEN num_computed[s] + 1
                                          ELSE num_computed[s]]
      BY <1>1 DEF Forward
    <3>2. \A s \in Seqs : num_computed[s] + 1 \in Nat /\ num_computed[s] \in Nat
      BY DEF SchedulerTypeOK
    <3> QED BY <3>1, <3>2, Zenon
  <2> QED
    BY <1>1, <2>2, <2>3 DEF Forward, SchedulerTypeOK, PCs
<1>2. CASE ~ \A i \in 1 .. Len(todo) : DecodeOK(todo[i])
  BY <1>2, RaiseSafe DEF Forward
<1> QED BY <1>1, <1>2

LEMMA SampleRowSafe ==
  ASSUME Safe, SampleRow
  PROVE  Safe'
<1> DEFINE s == Head(todo)
<1>1. s \in Seqs /\ Tail(todo) \in Seq(Seqs)
  BY HeadOfList DEF SampleRow, SchedulerTypeOK
<1>2. CASE s \in detokenizers
  <2>1. PICK r \in Outcomes(s) : SampleAndAdvance(s, r)
    BY <1>2 DEF SampleRow
  <2>2. /\ BMTypeOK' /\ BlockOwnership' /\ running' \in Seq(Seqs)
        /\ status' \in [Seqs -> Statuses] /\ finish_reason' \in [Seqs -> Reasons]
        /\ output_len' \in [Seqs -> Nat]
    BY <1>1, <2>1, SampleSafe
  <2> QED
    BY <1>1, <1>2, <2>2 DEF SampleRow, SchedulerTypeOK
<1>3. CASE s \notin detokenizers
  BY <1>3, RaiseSafe DEF SampleRow
<1> QED BY <1>2, <1>3

LEMMA StepEndSafe ==
  ASSUME Safe, StepEnd
  PROVE  Safe'
<1>1. BMTypeOK' /\ BlockOwnership'
  BY UntouchedOwnership DEF StepEnd, SchedulerTypeOK
<1> QED BY <1>1 DEF StepEnd, SchedulerTypeOK, seqVars, PCs

-----------------------------------------------------------------------------
LEMMA NextSafe == Safe /\ [Next]_vars => Safe'
<1> SUFFICES ASSUME Safe, [Next]_vars PROVE Safe'
  OBVIOUS
<1>1. ASSUME NEW s \in Seqs, NEW p \in PromptLens, NEW m \in MaxTokensValues,
             AddRequest(s, p, m)
      PROVE  Safe'
  BY <1>1, AddRequestSafe
<1>2. ASSUME NEW s \in Seqs, CancelRequest(s)
      PROVE  Safe'
  BY <1>2, CancelRequestSafe
<1>3. CASE /\ ScheduleBegin \/ SchedulePrefill \/ ScheduleDecode \/ SkipPreempted \/ CapacityDone
           /\ UNCHANGED detokenizers
  BY <1>3, ListStepSafe
<1>4. CASE AdmitHead /\ UNCHANGED detokenizers
  BY <1>4, AdmitHeadSafe
<1>5. CASE SecureSlot /\ UNCHANGED detokenizers
  BY <1>5, SecureSlotSafe
<1>6. CASE PreemptVictim /\ UNCHANGED detokenizers
  BY <1>6, PreemptVictimSafe
<1>7. CASE PreemptSelf /\ UNCHANGED detokenizers
  BY <1>7, PreemptSelfSafe
<1>8. CASE PrefillOne
  BY <1>8, PrefillOneSafe
<1>9. CASE Forward
  BY <1>9, ForwardSafe
<1>10. CASE SampleRow
  BY <1>10, SampleRowSafe
<1>11. CASE StepEnd
  BY <1>11, StepEndSafe
<1>12. CASE UNCHANGED vars
  <2>1. BMTypeOK' /\ BlockOwnership'
    BY <1>12, UntouchedOwnership DEF vars, schedVars, SchedulerTypeOK
  <2> QED BY <1>12, <2>1 DEF vars, schedVars, seqVars, SchedulerTypeOK
<1> QED
  BY <1>1, <1>2, <1>3, <1>4, <1>5, <1>6, <1>7, <1>8, <1>9, <1>10, <1>11, <1>12
     DEF Next, Step, Bookkeeping, SchedulerStep, Call

\* The engine's state is always well typed: in particular every list holds
\* known sequences only and every table blocks of the pool only.
THEOREM TypeCorrect == Spec => []TypeOK
<1>1. Safe => TypeOK
  OBVIOUS
<1> QED
  BY <1>1, InitSafe, NextSafe, PTL DEF Spec

\* Whatever is admitted, preempted, finished or cancelled in whatever order,
\* every block of the pool has exactly one owner: the free list or one
\* position of one block table.
THEOREM OwnershipHolds == Spec => []BlockOwnership
<1>1. Safe => BlockOwnership
  OBVIOUS
<1> QED
  BY <1>1, InitSafe, NextSafe, PTL DEF Spec

HIDE DEF Safe, TypeOK

-----------------------------------------------------------------------------
(* Lists and progress: that the lists and the statuses agree, that step()  *)
(* never raises nor stalls without need, and that the engine implements    *)
(* Completion.                                                             *)

USE DEF Contains

\* The list operations of the code on a list without repetitions: what the
\* result holds, and that it has none either.
LEMMA TailOfDistinct ==
  ASSUME NEW S, NEW q \in Seq(S), q # << >>, NoRepeats(q)
  PROVE  /\ NoRepeats(Tail(q))
         /\ \A x : Contains(Tail(q), x) <=> Contains(q, x) /\ x # Head(q)
         /\ Contains(q, Head(q))
<1>1. /\ Len(q) \in Nat \ {0} /\ Len(Tail(q)) = Len(q) - 1 /\ Head(q) = q[1]
      /\ \A i \in 1 .. Len(q) - 1 : Tail(q)[i] = q[i + 1]
  BY EmptySeq, LenProperties, HeadTailProperties
<1>2. ASSUME NEW i \in 1 .. Len(Tail(q)), NEW j \in 1 .. Len(Tail(q)), Tail(q)[i] = Tail(q)[j]
      PROVE  i = j
  <2>1. i + 1 \in 1 .. Len(q) /\ j + 1 \in 1 .. Len(q) /\ q[i + 1] = q[j + 1]
    BY <1>1, <1>2
  <2> QED BY <2>1 DEF NoRepeats
<1>3. ASSUME NEW x, NEW i \in 1 .. Len(Tail(q)), Tail(q)[i] = x
      PROVE  Contains(q, x) /\ x # Head(q)
  <2>1. i + 1 \in 1 .. Len(q) /\ 1 \in 1 .. Len(q) /\ i + 1 # 1 /\ q[i + 1] = x
    BY <1>1, <1>3
  <2> QED BY <1>1, <2>1 DEF NoRepeats
<1>4. ASSUME NEW x, NEW k \in 1 .. Len(q), q[k] = x, x # Head(q)
      PROVE  Contains(Tail(q), x)
  <2>1. k # 1
    BY <1>1, <1>4
  <2> DEFINE i == k - 1
  <2>2. i \in 1 .. Len(Tail(q)) /\ i + 1 = k
    BY <1>1, <2>1
  <2> HIDE DEF i
  <2>3. Tail(q)[i] = x
    BY <1>1, <1>4, <2>2
  <2> QED BY <2>2, <2>3
<1>5. Contains(q, Head(q))
  BY <1>1
<1> QED BY <1>2, <1>3, <1>4, <1>5 DEF NoRepeats

LEMMA AppendToDistinct ==
  ASSUME NEW S, NEW q \in Seq(S), NEW e \in S, NoRepeats(q), ~ Contains(q, e)
  PROVE  /\ NoRepeats(Append(q, e))
         /\ \A x : Contains(Append(q, e), x) <=> Contains(q, x) \/ x = e
<1>1. /\ Len(q) \in Nat /\ Len(Append(q, e)) = Len(q) + 1
      /\ \A i \in 1 .. Len(q) : Append(q, e)[i] = q[i]
      /\ Append(q, e)[Len(q) + 1] = e
  BY LenProperties, AppendProperties
<1>2. ASSUME NEW i \in 1 .. Len(q) + 1, NEW j \in 1 .. Len(q) + 1,
             Append(q, e)[i] = Append(q, e)[j]
      PROVE  i = j
  BY <1>1, <1>2 DEF NoRepeats
<1>3. ASSUME NEW x PROVE Contains(Append(q, e), x) <=> Contains(q, x) \/ x = e
  <2>1. \A i \in 1 .. Len(q) + 1 : i \in 1 .. Len(q) \/ i = Len(q) + 1
    BY <1>1
  <2>2. \A i \in 1 .. Len(q) : i \in 1 .. Len(q) + 1
    BY <1>1
  <2>3. Len(q) + 1 \in 1 .. Len(q) + 1
    BY <1>1
  <2> QED BY <1>1, <2>1, <2>2, <2>3
<1> QED BY <1>1, <1>2, <1>3 DEF NoRepeats

LEMMA ConcatOfDistinct ==
  ASSUME NEW S, NEW q \in Seq(S), NEW r \in Seq(S), NoRepeats(q), NoRepeats(r),
         \A x : ~ (Contains(q, x) /\ Contains(r, x))
  PROVE  /\ NoRepeats(q \o r)
         /\ \A x : Contains(q \o r, x) <=> Contains(q, x) \/ Contains(r, x)
<1>1. /\ Len(q) \in Nat /\ Len(r) \in Nat /\ Len(q \o r) = Len(q) + Len(r)
      /\ \A i \in 1 .. Len(q) + Len(r) :
           (q \o r)[i] = IF i <= Len(q) THEN q[i] ELSE r[i - Len(q)]
  BY LenProperties, ConcatProperties
<1>2. \A i \in 1 .. Len(q) + Len(r) :
        \/ i \in 1 .. Len(q) /\ (q \o r)[i] = q[i]
        \/ i - Len(q) \in 1 .. Len(r) /\ (q \o r)[i] = r[i - Len(q)]
  BY <1>1
<1>3. ASSUME NEW i \in 1 .. Len(q) + Len(r), NEW j \in 1 .. Len(q) + Len(r),
             (q \o r)[i] = (q \o r)[j]
      PROVE  i = j
  <2>1. CASE i \in 1 .. Len(q) /\ (q \o r)[i] = q[i]
    <3>1. j \in 1 .. Len(q) /\ (q \o r)[j] = q[j]
      BY <1>2, <1>3, <2>1
    <3> QED BY <1>3, <2>1, <3>1 DEF NoRepeats
  <2>2. CASE i - Len(q) \in 1 .. Len(r) /\ (q \o r)[i] = r[i - Len(q)]
    <3>1. j - Len(q) \in 1 .. Len(r) /\ (q \o r)[j] = r[j - Len(q)]
      BY <1>2, <1>3, <2>2
    <3>2. i - Len(q) = j - Len(q)
      BY <1>3, <2>2, <3>1 DEF NoRepeats
    <3> QED BY <1>1, <3>2
  <2> QED BY <1>2, <2>1, <2>2
<1>4. ASSUME NEW x PROVE Contains(q \o r, x) <=> Contains(q, x) \/ Contains(r, x)
  <2>1. ASSUME NEW i \in 1 .. Len(q), q[i] = x PROVE Contains(q \o r, x)
    <3>1. i \in 1 .. Len(q) + Len(r) /\ i <= Len(q)
      BY <1>1
    <3> QED BY <1>1, <2>1, <3>1
  <2>2. ASSUME NEW i \in 1 .. Len(r), r[i] = x PROVE Contains(q \o r, x)
    <3> DEFINE k == Len(q) + i
    <3>1. k \in 1 .. Len(q) + Len(r) /\ ~ (k <= Len(q)) /\ k - Len(q) = i
      BY <1>1
    <3> HIDE DEF k
    <3> QED BY <1>1, <2>2, <3>1
  <2>3. ASSUME NEW i \in 1 .. Len(q) + Len(r), (q \o r)[i] = x
        PROVE  Contains(q, x) \/ Contains(r, x)
    BY <1>2, <2>3
  <2> QED BY <1>1, <2>1, <2>2, <2>3
<1>5. NoRepeats(q \o r)
  BY <1>1, <1>3 DEF NoRepeats
<1> QED BY <1>4, <1>5, Zenon

LEMMA RemoveFromDistinct ==
  ASSUME NEW S, NEW q \in Seq(S), NEW e, NoRepeats(q), Contains(q, e)
  PROVE  /\ NoRepeats(RemoveFirst(q, e))
         /\ \A x : Contains(RemoveFirst(q, e), x) <=> Contains(q, x) /\ x # e
<1> DEFINE r == RemoveFirst(q, e)
<1>0. /\ Len(r) = Len(q) - 1
      /\ \E k \in 1 .. Len(q) :
           /\ q[k] = e
           /\ \A i \in 1 .. Len(q) - 1 : r[i] = IF i < k THEN q[i] ELSE q[i + 1]
  <2>1. \E i \in 1 .. Len(q) : q[i] = e
    OBVIOUS
  <2>2. /\ Len(RemoveFirst(q, e)) = Len(q) - 1
        /\ \E k \in 1 .. Len(q) :
             /\ q[k] = e
             /\ \A i \in 1 .. Len(q) - 1 :
                  RemoveFirst(q, e)[i] = IF i < k THEN q[i] ELSE q[i + 1]
    BY <2>1, RemoveFirstEffect, SMTT(60)
  <2> QED BY <2>2
<1> HIDE DEF r
<1>1. PICK k \in 1 .. Len(q) :
        /\ q[k] = e
        /\ \A i \in 1 .. Len(q) - 1 : r[i] = IF i < k THEN q[i] ELSE q[i + 1]
  BY <1>0
<1>2. Len(q) \in Nat /\ Len(r) = Len(q) - 1
  BY <1>0, LenProperties
<1>3. \A i \in 1 .. Len(q) - 1 :
        \/ i < k /\ i \in 1 .. Len(q) /\ r[i] = q[i]
        \/ i >= k /\ i + 1 \in 1 .. Len(q) /\ r[i] = q[i + 1]
  BY <1>1, <1>2
<1>4. ASSUME NEW i \in 1 .. Len(q) - 1, NEW j \in 1 .. Len(q) - 1, r[i] = r[j]
      PROVE  i = j
  <2> DEFINE at(x) == IF x < k THEN x ELSE x + 1
  <2>1. /\ at(i) \in 1 .. Len(q) /\ r[i] = q[at(i)]
        /\ at(j) \in 1 .. Len(q) /\ r[j] = q[at(j)]
    BY <1>3
  <2>2. at(i) = at(j) => i = j
    BY <1>1, <1>2
  <2> HIDE DEF at
  <2>3. at(i) = at(j)
    BY <1>4, <2>1 DEF NoRepeats
  <2> QED BY <2>2, <2>3
<1>5. ASSUME NEW i \in 1 .. Len(q) - 1
      PROVE  Contains(q, r[i]) /\ r[i] # e
  BY <1>1, <1>2, <1>3 DEF NoRepeats
<1>6. ASSUME NEW i \in 1 .. Len(q), q[i] # e
      PROVE  Contains(r, q[i])
  <2>1. CASE i < k
    BY <1>1, <1>2, <2>1
  <2>2. CASE i > k
    <3> DEFINE j == i - 1
    <3>1. j \in 1 .. Len(q) - 1 /\ ~ (j < k) /\ j + 1 = i
      BY <1>1, <1>2, <2>2
    <3> HIDE DEF j
    <3> QED BY <1>1, <1>2, <3>1
  <2>3. i # k
    BY <1>1, <1>6
  <2> QED BY <1>1, <1>2, <2>1, <2>2, <2>3
<1>7. \A x : Contains(r, x) <=> Contains(q, x) /\ x # e
  <2> SUFFICES ASSUME NEW x PROVE Contains(r, x) <=> Contains(q, x) /\ x # e
    OBVIOUS
  <2>1. ASSUME NEW i \in 1 .. Len(r), r[i] = x PROVE Contains(q, x) /\ x # e
    BY <1>2, <1>5, <2>1
  <2>2. ASSUME NEW i \in 1 .. Len(q), q[i] = x, x # e PROVE Contains(r, x)
    BY <1>6, <2>2
  <2> QED BY <2>1, <2>2
<1> QED BY <1>2, <1>4, <1>7 DEF NoRepeats, r

LEMMA EmptyHolds ==
  NoRepeats(<< >>) /\ \A x : ~ Contains(<< >>, x)
<1>1. Len(<< >>) = 0
  OBVIOUS
<1> QED BY <1>1 DEF NoRepeats

\* What the next lemmas keep: no entry of a list that has output is behind one
\* that has none.
Ordered(q, out) ==
    \A i, j \in 1 .. Len(q) : i < j /\ out[q[j]] > 0 => out[q[i]] > 0

LEMMA OrderedAppend ==
  ASSUME NEW S, NEW q \in Seq(S), NEW e \in S, NEW out, out[e] = 0, Ordered(q, out)
  PROVE  Ordered(Append(q, e), out)
<1>1. /\ Len(q) \in Nat /\ Len(Append(q, e)) = Len(q) + 1
      /\ \A i \in 1 .. Len(q) : Append(q, e)[i] = q[i]
      /\ Append(q, e)[Len(q) + 1] = e
  BY LenProperties, AppendProperties
<1>2. ASSUME NEW i \in 1 .. Len(q) + 1, NEW j \in 1 .. Len(q) + 1, i < j,
             out[Append(q, e)[j]] > 0
      PROVE  out[Append(q, e)[i]] > 0
  <2>1. j # Len(q) + 1
    BY <1>1, <1>2
  <2>2. i \in 1 .. Len(q) /\ j \in 1 .. Len(q)
    BY <1>1, <1>2, <2>1
  <2> QED BY <1>1, <1>2, <2>2 DEF Ordered
<1> QED BY <1>1, <1>2 DEF Ordered

LEMMA OrderedTail ==
  ASSUME NEW S, NEW q \in Seq(S), q # << >>, NEW out, Ordered(q, out)
  PROVE  Ordered(Tail(q), out)
<1>1. /\ Len(q) \in Nat \ {0} /\ Len(Tail(q)) = Len(q) - 1
      /\ \A i \in 1 .. Len(q) - 1 : Tail(q)[i] = q[i + 1]
  BY EmptySeq, LenProperties, HeadTailProperties
<1>2. ASSUME NEW i \in 1 .. Len(q) - 1, NEW j \in 1 .. Len(q) - 1, i < j,
             out[Tail(q)[j]] > 0
      PROVE  out[Tail(q)[i]] > 0
  <2>1. i + 1 \in 1 .. Len(q) /\ j + 1 \in 1 .. Len(q) /\ i + 1 < j + 1
    BY <1>1, <1>2
  <2> QED BY <1>1, <1>2, <2>1 DEF Ordered
<1> QED BY <1>1, <1>2 DEF Ordered

LEMMA OrderedPushFront ==
  ASSUME NEW S, NEW q \in Seq(S), NEW e \in S, NEW out, out[e] > 0, Ordered(q, out)
  PROVE  Ordered(<<e>> \o q, out)
<1>1. <<e>> \in Seq(S) /\ Len(<<e>>) = 1 /\ <<e>>[1] = e
  OBVIOUS
<1>2. /\ Len(q) \in Nat /\ Len(<<e>> \o q) = 1 + Len(q)
      /\ \A i \in 1 .. 1 + Len(q) :
           (<<e>> \o q)[i] = IF i <= 1 THEN <<e>>[i] ELSE q[i - 1]
  BY <1>1, LenProperties, ConcatProperties
<1>3. ASSUME NEW i \in 1 .. 1 + Len(q), NEW j \in 1 .. 1 + Len(q), i < j,
             out[(<<e>> \o q)[j]] > 0
      PROVE  out[(<<e>> \o q)[i]] > 0
  <2>1. CASE i = 1
    BY <1>1, <1>2, <2>1
  <2>2. CASE i # 1
    <3>1. i - 1 \in 1 .. Len(q) /\ j - 1 \in 1 .. Len(q) /\ i - 1 < j - 1
      BY <1>2, <1>3, <2>2
    <3>2. (<<e>> \o q)[i] = q[i - 1] /\ (<<e>> \o q)[j] = q[j - 1]
      BY <1>2, <1>3, <2>2
    <3> QED BY <1>3, <3>1, <3>2 DEF Ordered
  <2> QED BY <2>1, <2>2
<1> QED BY <1>2, <1>3 DEF Ordered

LEMMA OrderedRemove ==
  ASSUME NEW S, NEW q \in Seq(S), NEW e, \E i \in 1 .. Len(q) : q[i] = e,
         NEW out, Ordered(q, out)
  PROVE  Ordered(RemoveFirst(q, e), out)
<1> DEFINE r == RemoveFirst(q, e)
<1>0. /\ Len(r) = Len(q) - 1
      /\ \E k \in 1 .. Len(q) :
           /\ q[k] = e
           /\ \A i \in 1 .. Len(q) - 1 : r[i] = IF i < k THEN q[i] ELSE q[i + 1]
  BY RemoveFirstEffect
<1> HIDE DEF r
<1>1. PICK k \in 1 .. Len(q) :
        \A i \in 1 .. Len(q) - 1 : r[i] = IF i < k THEN q[i] ELSE q[i + 1]
  BY <1>0
<1>2. Len(q) \in Nat
  BY LenProperties
<1>3. ASSUME NEW i \in 1 .. Len(q) - 1, NEW j \in 1 .. Len(q) - 1, i < j, out[r[j]] > 0
      PROVE  out[r[i]] > 0
  <2> DEFINE at(x) == IF x < k THEN x ELSE x + 1
  <2>1. at(i) \in 1 .. Len(q) /\ at(j) \in 1 .. Len(q) /\ at(i) < at(j)
    BY <1>2, <1>3
  <2>2. r[i] = q[at(i)] /\ r[j] = q[at(j)]
    BY <1>1
  <2> HIDE DEF at
  <2> QED BY <1>3, <2>1, <2>2 DEF Ordered
<1> QED BY <1>0, <1>3 DEF Ordered, r

HIDE DEF Contains

USE DEF Safe, TypeOK, SchedulerTypeOK, BMTypeOK

-----------------------------------------------------------------------------
\* While rows are prefilled, fed or sampled, each of them is running.
TodoIsRunning ==
    pc \in {"prefill", "forward", "sample"} =>
      \A s \in Seqs : Contains(todo, s) => Contains(running, s)

Lists == ListsMatchStatus /\ TodoIsRunning

\* Initially all lists are empty.
LEMMA InitLists == Init => Lists
BY EmptyHolds DEF Init, SchedulerInit, BMInit, Lists, ListsMatchStatus, TodoIsRunning

\* finish() of a sequence that is in `running'.
LEMMA FinishLists ==
  ASSUME Safe, ListsMatchStatus, pc # "admit", NEW s \in Seqs, status[s] = "RUNNING",
         NEW r, Finish(s, r)
  PROVE  /\ NoRepeats(running')
         /\ \A x \in Seqs :
              /\ Contains(running', x) <=> Contains(running, x) /\ x # s
              /\ status'[x] = IF x = s THEN "FINISHED" ELSE status[x]
              /\ block_table'[x] = IF x = s THEN << >> ELSE block_table[x]
<1>1. Contains(running, s) /\ NoRepeats(running) /\ running \in Seq(Seqs)
  BY DEF ListsMatchStatus
<1>2. running' = RemoveFirst(running, s)
  BY DEF Finish
<1>3. NoRepeats(running') /\ \A x : Contains(running', x) <=> Contains(running, x) /\ x # s
  BY <1>1, <1>2, RemoveFromDistinct
<1> QED
  BY <1>3 DEF Finish, Free

\* One lemma per action (or group of them) that Lists is kept.
LEMMA AddRequestLists ==
  ASSUME Safe, Lists, NEW s \in Seqs, NEW p \in PromptLens, NEW m \in MaxTokensValues,
         AddRequest(s, p, m)
  PROVE  Lists'
<1>1. /\ waiting' = Append(waiting, s) /\ waiting \in Seq(Seqs)
      /\ NoRepeats(waiting) /\ ~ Contains(waiting, s)
  BY DEF AddRequest, Enqueue, Lists, ListsMatchStatus
<1>2. /\ NoRepeats(waiting')
      /\ \A x : Contains(waiting', x) <=> Contains(waiting, x) \/ x = s
  BY <1>1, AppendToDistinct
<1> QED
  BY <1>2 DEF AddRequest, Enqueue, bmVars, Lists, ListsMatchStatus, TodoIsRunning

LEMMA CancelRequestLists ==
  ASSUME Safe, Lists, NEW s \in Seqs, CancelRequest(s)
  PROVE  Lists'
<1>1. CASE Contains(running, s) /\ Finish(s, "cancelled") /\ UNCHANGED waiting
  <2>1. status[s] = "RUNNING" /\ pc # "admit" /\ ListsMatchStatus
    BY <1>1 DEF CancelRequest, Lists, ListsMatchStatus
  <2>2. /\ NoRepeats(running')
        /\ \A x \in Seqs :
              /\ Contains(running', x) <=> Contains(running, x) /\ x # s
              /\ status'[x] = IF x = s THEN "FINISHED" ELSE status[x]
              /\ block_table'[x] = IF x = s THEN << >> ELSE block_table[x]
    BY <1>1, <2>1, FinishLists
  <2> QED BY <1>1, <2>2 DEF CancelRequest, Lists, ListsMatchStatus, TodoIsRunning
<1>2. CASE /\ ~ Contains(running, s) /\ Contains(waiting, s)
           /\ waiting' = RemoveFirst(waiting, s)
           /\ status' = [status EXCEPT ![s] = "FINISHED"]
           /\ UNCHANGED <<bmVars, running>>
  <2>1. waiting \in Seq(Seqs) /\ NoRepeats(waiting)
    BY DEF Lists, ListsMatchStatus
  <2>2. /\ NoRepeats(waiting')
        /\ \A x : Contains(waiting', x) <=> Contains(waiting, x) /\ x # s
    BY <1>2, <2>1, RemoveFromDistinct
  <2> QED
    BY <1>2, <2>2 DEF CancelRequest, bmVars, Lists, ListsMatchStatus, TodoIsRunning
<1>3. CASE UNCHANGED <<bmVars, running, waiting, status>>
  BY <1>3 DEF CancelRequest, bmVars, Lists, ListsMatchStatus, TodoIsRunning
<1> QED
  BY <1>1, <1>2, <1>3 DEF CancelRequest, CancelById

LEMMA ListStepLists ==
  ASSUME Safe, Lists,
         ScheduleBegin \/ SchedulePrefill \/ ScheduleDecode \/ SkipPreempted \/ CapacityDone
  PROVE  Lists'
<1>1. CASE ScheduleBegin
  BY <1>1, EmptyHolds
     DEF ScheduleBegin, bmVars, seqVars, Lists, ListsMatchStatus, TodoIsRunning
<1>2. CASE SchedulePrefill
  <2>1. /\ running \in Seq(Seqs) /\ todo \in Seq(Seqs)
        /\ NoRepeats(running) /\ NoRepeats(todo)
        /\ \A x \in Seqs : ~ (Contains(running, x) /\ Contains(todo, x))
    BY <1>2 DEF SchedulePrefill, Lists, ListsMatchStatus
  <2>2. \A x : Contains(running, x) => x \in Seqs
    BY <2>1, ElementOfSeq DEF Contains
  <2>3. \A x : ~ (Contains(running, x) /\ Contains(todo, x))
    BY <2>1, <2>2
  <2>4. /\ NoRepeats(running \o todo)
        /\ \A x : Contains(running \o todo, x) <=> Contains(running, x) \/ Contains(todo, x)
    BY <2>1, <2>3, ConcatOfDistinct
  <2>5. running' = running \o todo
    BY <1>2 DEF SchedulePrefill
  <2> QED
    BY <1>2, <2>4, <2>5
       DEF SchedulePrefill, bmVars, seqVars, Lists, ListsMatchStatus, TodoIsRunning
<1>3. CASE ScheduleDecode
  BY <1>3, EmptyHolds
     DEF ScheduleDecode, bmVars, seqVars, Lists, ListsMatchStatus, TodoIsRunning
<1>4. CASE SkipPreempted
  <2>1. NoRepeats(todo')
    BY <1>4, TailOfDistinct DEF SkipPreempted, Lists, ListsMatchStatus
  <2> QED
    BY <1>4, <2>1
       DEF SkipPreempted, bmVars, seqVars, Lists, ListsMatchStatus, TodoIsRunning
<1>5. CASE CapacityDone
  BY <1>5 DEF CapacityDone, bmVars, seqVars, Lists, ListsMatchStatus, TodoIsRunning
<1> QED BY <1>1, <1>2, <1>3, <1>4, <1>5

\* The head of the queue holds no block and fits, so allocate() does not raise.
LEMMA AdmitHeadAllocates ==
  ASSUME Safe, Lists, AdmitHead
  PROVE  /\ Head(waiting) \in Seqs /\ status[Head(waiting)] = "WAITING"
         /\ block_table[Head(waiting)] = << >>
         /\ NumTokens(Head(waiting)) \in Nat
         /\ BlocksNeeded(NumTokens(Head(waiting))) \in 0 .. Len(free)
         /\ AllocateAsserts(Head(waiting), NumTokens(Head(waiting)))
<1> DEFINE s == Head(waiting)
           n == NumTokens(s)
<1>1. waiting \in Seq(Seqs) /\ waiting # << >> /\ NoRepeats(waiting)
  BY DEF AdmitHead, HeadFits, Lists, ListsMatchStatus
<1>2. s \in Seqs /\ Contains(waiting, s)
  BY <1>1, HeadOfList, TailOfDistinct
<1>3. status[s] = "WAITING" /\ block_table[s] = << >>
  BY <1>2 DEF Lists, ListsMatchStatus
<1>4. n \in Nat
  BY <1>2 DEF NumTokens
<1>5. BlocksNeeded(n) \in Nat
  BY <1>4, BlocksNeededNat
<1>6. BlocksNeeded(n) <= Len(free) /\ Len(free) \in Nat
  BY LenProperties DEF AdmitHead, HeadFits, CanAllocate
<1>7. AllocateAsserts(s, n)
  BY <1>3, <1>5, <1>6 DEF AllocateAsserts
<1> QED BY <1>2, <1>3, <1>4, <1>5, <1>6, <1>7

\* allocate() for a sequence without blocks.
LEMMA AllocateTable ==
  ASSUME Safe, NEW s \in Seqs, block_table[s] = << >>, NEW n \in Nat,
         BlocksNeeded(n) \in 0 .. Len(free), Allocate(s, n)
  PROVE  /\ Len(block_table'[s]) = BlocksNeeded(n)
         /\ \A x \in Seqs : x # s => block_table'[x] = block_table[x]
<1> DEFINE k == BlocksNeeded(n)
<1>1. Len(free) \in Nat /\ Len(block_table[s]) = 0 /\ k \in Nat
  BY LenProperties, BlocksNeededNat
<1>2. CASE k = 0
  BY <1>1, <1>2 DEF Allocate, bmVars
<1>3. CASE k # 0
  <2>1. Grow(s, k)
    BY <1>1, <1>3 DEF Allocate
  <2> HIDE DEF k
  <2>2. /\ \A t \in Seqs : t # s => block_table'[t] = block_table[t]
        /\ Len(block_table'[s]) = Len(block_table[s]) + k
    BY <2>1, GrowEffect DEF k
  <2> QED BY <1>1, <2>2 DEF k
<1> QED BY <1>2, <1>3

LEMMA AdmitHeadLists ==
  ASSUME Safe, Lists, AdmitHead
  PROVE  Lists'
<1> DEFINE s == Head(waiting)
<1>1. /\ s \in Seqs /\ status[s] = "WAITING" /\ block_table[s] = << >>
      /\ NumTokens(s) \in Nat
      /\ BlocksNeeded(NumTokens(s)) \in 0 .. Len(free)
      /\ AllocateAsserts(s, NumTokens(s))
  BY AdmitHeadAllocates
<1>2. /\ Allocate(s, NumTokens(s))
      /\ status' = [status EXCEPT ![s] = "RUNNING"]
      /\ todo' = Append(todo, s)
      /\ waiting' = Tail(waiting)
      /\ pc = "admit" /\ pc' = "admit" /\ running' = running
  BY <1>1 DEF AdmitHead
<1>3. waiting # << >>
  BY DEF AdmitHead, HeadFits
<1> HIDE DEF s
<1>4. \A x \in Seqs : x # s => block_table'[x] = block_table[x]
  BY <1>1, <1>2, AllocateTable
<1>5. /\ NoRepeats(waiting')
      /\ \A x : Contains(waiting', x) <=> Contains(waiting, x) /\ x # s
  BY <1>2, <1>3, TailOfDistinct DEF s, Lists, ListsMatchStatus
<1>6. ~ Contains(todo, s) /\ ~ Contains(running, s)
  BY <1>1, <1>2 DEF Lists, ListsMatchStatus
<1>7. /\ NoRepeats(todo')
      /\ \A x : Contains(todo', x) <=> Contains(todo, x) \/ x = s
  BY <1>1, <1>2, <1>6, AppendToDistinct DEF Lists, ListsMatchStatus
<1> QED
  BY <1>1, <1>2, <1>4, <1>5, <1>6, <1>7 DEF Lists, ListsMatchStatus, TodoIsRunning

\* append_slot() returning True: the claimant's table grows by at most one.
LEMMA SecureSlotTables ==
  ASSUME Safe, Lists, SecureSlot
  PROVE  /\ Head(todo) \in Seqs /\ status[Head(todo)] = "RUNNING"
         /\ \A x \in Seqs : x # Head(todo) => block_table'[x] = block_table[x]
         /\ IF HasSlot(Head(todo), num_computed[Head(todo)])
            THEN block_table' = block_table
            ELSE Len(block_table'[Head(todo)]) = Len(block_table[Head(todo)]) + 1
<1> DEFINE s == Head(todo)
           n == num_computed[s]
<1>1. s \in Seqs /\ status[s] = "RUNNING"
  BY HeadOfList DEF SecureSlot, Claiming
<1>2. CanAppendSlot(s, n) /\ AppendSlot(s, n)
  BY DEF SecureSlot
<1> HIDE DEF s, n
<1>3. CASE HasSlot(s, n)
  BY <1>1, <1>2, <1>3 DEF AppendSlot, bmVars, s, n
<1>4. CASE ~ HasSlot(s, n)
  <2>1. free # << >> /\ Grow(s, 1)
    BY <1>2, <1>4 DEF CanAppendSlot, AppendSlot
  <2>2. 1 \in 0 .. Len(free)
    BY <2>1, EmptySeq, LenProperties
  <2>3. /\ \A t \in Seqs : t # s => block_table'[t] = block_table[t]
        /\ Len(block_table'[s]) = Len(block_table[s]) + 1
    BY <1>1, <2>1, <2>2, GrowEffect
  <2> QED BY <1>1, <1>4, <2>3 DEF s, n
<1> QED BY <1>3, <1>4

LEMMA SecureSlotLists ==
  ASSUME Safe, Lists, SecureSlot
  PROVE  Lists'
<1>1. NoRepeats(todo')
  BY TailOfDistinct DEF SecureSlot, Claiming, Lists, ListsMatchStatus
<1>2. /\ Head(todo) \in Seqs /\ status[Head(todo)] = "RUNNING"
      /\ \A x \in Seqs : x # Head(todo) => block_table'[x] = block_table[x]
  BY SecureSlotTables
<1> QED
  BY <1>1, <1>2
     DEF SecureSlot, Claiming, seqVars, Lists, ListsMatchStatus, TodoIsRunning

\* _preempt() moves a sequence from `running' to the front of `waiting'.
LEMMA PreemptLists ==
  ASSUME Safe, ListsMatchStatus, pc = "capacity", NEW v \in Seqs,
         status[v] = "RUNNING", Preempt(v)
  PROVE  /\ NoRepeats(running') /\ NoRepeats(waiting')
         /\ \A x \in Seqs :
              /\ Contains(running', x) <=> Contains(running, x) /\ x # v
              /\ Contains(waiting', x) <=> Contains(waiting, x) \/ x = v
              /\ status'[x] = IF x = v THEN "WAITING" ELSE status[x]
              /\ block_table'[x] = IF x = v THEN << >> ELSE block_table[x]
              /\ num_computed'[x] = IF x = v THEN 0 ELSE num_computed[x]
<1>1. /\ Contains(running, v) /\ NoRepeats(running) /\ running \in Seq(Seqs)
      /\ ~ Contains(waiting, v) /\ NoRepeats(waiting) /\ waiting \in Seq(Seqs)
  BY DEF ListsMatchStatus
<1>2. running' = RemoveFirst(running, v) /\ waiting' = <<v>> \o waiting
  BY DEF Preempt
<1>3. NoRepeats(running') /\ \A x : Contains(running', x) <=> Contains(running, x) /\ x # v
  BY <1>1, <1>2, RemoveFromDistinct
<1>4. /\ <<v>> \in Seq(Seqs) /\ NoRepeats(<<v>>)
      /\ \A x : Contains(<<v>>, x) <=> x = v
  BY DEF NoRepeats, Contains
<1>5. \A x : ~ (Contains(<<v>>, x) /\ Contains(waiting, x))
  BY <1>1, <1>4
<1>6. /\ NoRepeats(waiting')
      /\ \A x : Contains(waiting', x) <=> Contains(<<v>>, x) \/ Contains(waiting, x)
  BY <1>1, <1>2, <1>4, <1>5, ConcatOfDistinct
<1>7. \A x : Contains(waiting', x) <=> Contains(waiting, x) \/ x = v
  BY <1>4, <1>6
<1> QED
  BY <1>3, <1>6, <1>7 DEF Preempt, Free

LEMMA PreemptVictimLists ==
  ASSUME Safe, Lists, PreemptVictim
  PROVE  Lists'
<1> DEFINE v == running[Max(VictimIndices(Head(todo)))]
<1>1. v \in Seqs /\ status[v] = "RUNNING" /\ Preempt(v)
  BY VictimOfList DEF PreemptVictim
<1>2. ListsMatchStatus /\ pc = "capacity"
  BY DEF Lists, PreemptVictim, Claiming
<1> HIDE DEF v
<1>3. /\ NoRepeats(running') /\ NoRepeats(waiting')
      /\ \A x \in Seqs :
              /\ Contains(running', x) <=> Contains(running, x) /\ x # v
              /\ Contains(waiting', x) <=> Contains(waiting, x) \/ x = v
              /\ status'[x] = IF x = v THEN "WAITING" ELSE status[x]
              /\ block_table'[x] = IF x = v THEN << >> ELSE block_table[x]
  BY <1>1, <1>2, PreemptLists
<1>4. UNCHANGED <<pc, todo>>
  BY DEF PreemptVictim
<1> QED
  BY <1>2, <1>3, <1>4 DEF Lists, ListsMatchStatus, TodoIsRunning

LEMMA PreemptSelfLists ==
  ASSUME Safe, Lists, PreemptSelf
  PROVE  Lists'
<1> DEFINE v == Head(todo)
<1>1. v \in Seqs /\ status[v] = "RUNNING" /\ Preempt(v)
  BY HeadOfList DEF PreemptSelf, Claiming
<1>2. ListsMatchStatus /\ pc = "capacity"
  BY DEF Lists, PreemptSelf, Claiming
<1> HIDE DEF v
<1>3. /\ NoRepeats(running') /\ NoRepeats(waiting')
      /\ \A x \in Seqs :
              /\ Contains(running', x) <=> Contains(running, x) /\ x # v
              /\ Contains(waiting', x) <=> Contains(waiting, x) \/ x = v
              /\ status'[x] = IF x = v THEN "WAITING" ELSE status[x]
              /\ block_table'[x] = IF x = v THEN << >> ELSE block_table[x]
  BY <1>1, <1>2, PreemptLists
<1>4. pc' = pc /\ NoRepeats(todo')
  BY TailOfDistinct DEF PreemptSelf, Claiming, Lists, ListsMatchStatus
<1> QED
  BY <1>2, <1>3, <1>4 DEF Lists, ListsMatchStatus, TodoIsRunning

\* A row of a prefill or of a decode step: its token, perhaps its last one.
LEMMA RowLists ==
  ASSUME Safe, Lists, pc \in {"prefill", "sample"}, todo # << >>,
         NEW r, SampleAndAdvance(Head(todo), r),
         todo' = Tail(todo), UNCHANGED <<waiting, pc>>
  PROVE  Lists'
<1> DEFINE s == Head(todo)
<1>1. /\ s \in Seqs /\ Contains(todo, s) /\ NoRepeats(todo')
      /\ \A x : Contains(todo', x) <=> Contains(todo, x) /\ x # s
  BY HeadOfList, TailOfDistinct DEF Lists, ListsMatchStatus
<1>2. ListsMatchStatus /\ pc # "admit" /\ Contains(running, s) /\ status[s] = "RUNNING"
  BY <1>1 DEF Lists, ListsMatchStatus, TodoIsRunning
<1>3. CASE r = "none"
  <2>1. UNCHANGED <<free, block_table, running, status>>
    BY <1>3 DEF SampleAndAdvance, bmVars
  <2> QED BY <1>1, <1>2, <2>1 DEF Lists, ListsMatchStatus, TodoIsRunning
<1>4. CASE r # "none"
  <2>1. Finish(s, r)
    BY <1>4 DEF SampleAndAdvance
  <2> HIDE DEF s
  <2>2. /\ NoRepeats(running')
        /\ \A x \in Seqs :
              /\ Contains(running', x) <=> Contains(running, x) /\ x # s
              /\ status'[x] = IF x = s THEN "FINISHED" ELSE status[x]
              /\ block_table'[x] = IF x = s THEN << >> ELSE block_table[x]
    BY <1>1, <1>2, <2>1, FinishLists
  <2> QED BY <1>1, <1>2, <2>2 DEF Lists, ListsMatchStatus, TodoIsRunning
<1> QED BY <1>3, <1>4

LEMMA RaiseLists ==
  ASSUME Safe, Lists, Raise, pc # "admit"
  PROVE  Lists'
BY DEF Raise, bmVars, seqVars, Lists, ListsMatchStatus, TodoIsRunning

\* Every step keeps the lists and the statuses in agreement.
LEMMA NextLists == Safe /\ Lists /\ [Next]_vars => Lists'
<1> SUFFICES ASSUME Safe, Lists, [Next]_vars PROVE Lists'
  OBVIOUS
<1>1. ASSUME NEW s \in Seqs, NEW p \in PromptLens, NEW m \in MaxTokensValues,
             AddRequest(s, p, m)
      PROVE  Lists'
  BY <1>1, AddRequestLists
<1>2. ASSUME NEW s \in Seqs, CancelRequest(s) PROVE Lists'
  BY <1>2, CancelRequestLists
<1>3. CASE ScheduleBegin \/ SchedulePrefill \/ ScheduleDecode \/ SkipPreempted \/ CapacityDone
  BY <1>3, ListStepLists
<1>4. CASE AdmitHead
  BY <1>4, AdmitHeadLists
<1>5. CASE SecureSlot
  BY <1>5, SecureSlotLists
<1>6. CASE PreemptVictim
  BY <1>6, PreemptVictimLists
<1>7. CASE PreemptSelf
  BY <1>7, PreemptSelfLists
<1>8. CASE PrefillOne
  BY <1>8, RowLists, RaiseLists DEF PrefillOne
<1>9. CASE Forward
  <2>1. CASE Raise
    BY <1>9, <2>1, RaiseLists DEF Forward
  <2>2. CASE ~ Raise
    BY <1>9, <2>2 DEF Forward, bmVars, Lists, ListsMatchStatus, TodoIsRunning
  <2> QED BY <2>1, <2>2
<1>10. CASE SampleRow
  BY <1>10, RowLists, RaiseLists DEF SampleRow
<1>11. CASE StepEnd
  BY <1>11 DEF StepEnd, bmVars, seqVars, Lists, ListsMatchStatus, TodoIsRunning
<1>12. CASE UNCHANGED vars
  BY <1>12 DEF vars, schedVars, bmVars, seqVars, Lists, ListsMatchStatus, TodoIsRunning
<1> QED
  BY <1>1, <1>2, <1>3, <1>4, <1>5, <1>6, <1>7, <1>8, <1>9, <1>10, <1>11, <1>12
     DEF Next, Step, Bookkeeping, SchedulerStep, Call

-----------------------------------------------------------------------------
(* How far each sequence has come.                                         *)

\* What NextPosition, TablesMatchProgress and StepNeverRaises need to know of
\* one sequence: its position, its blocks, and that it stays within its limit
\* and the position table.
Progress(s) ==
    /\ status[s] = "NEW" => num_computed[s] = 0 /\ output_len[s] = 0
    /\ status[s] = "WAITING" => num_computed[s] = 0
    /\ status[s] \in {"WAITING", "RUNNING"} =>
         /\ s \in detokenizers
         /\ prompt_len[s] >= 1 /\ prompt_len[s] <= ModelBlockSize
         /\ prompt_len[s] + max_tokens[s] <= ModelBlockSize
         /\ output_len[s] = 0 \/ output_len[s] < max_tokens[s]
    /\ status[s] = "RUNNING" =>
         /\ num_computed[s] = IF Unprefilled(s) THEN 0
                              ELSE IF Unsampled(s) THEN NumTokens(s)
                              ELSE NumTokens(s) - 1
         /\ ~ Unprefilled(s) => output_len[s] >= 1
         /\ \/ Len(block_table[s]) =
                 BlocksNeeded(IF Unprefilled(s) THEN NumTokens(s) ELSE num_computed[s])
            \/ /\ pc \in {"capacity", "forward"}
               /\ Len(block_table[s]) = BlocksNeeded(num_computed[s] + 1)
         /\ pc = "forward" => Contains(todo, s)
         /\ pc = "forward" \/ (pc = "capacity" /\ ~ Contains(todo, s)) =>
              HasSlot(s, num_computed[s])

Going == pc # "raised" /\ \A s \in Seqs : Progress(s)

\* No request has come yet.
LEMMA InitGoing == Init => Going
BY DEF Init, SchedulerInit, Going, Progress

\* One lemma per action (or group of them) that Going is kept.
LEMMA AddRequestGoing ==
  ASSUME 0 \notin PromptLens, Safe, Lists, Going,
         NEW s \in Seqs, NEW p \in PromptLens, NEW m \in MaxTokensValues,
         AddRequest(s, p, m)
  PROVE  Going'
<1>1. p \in Nat /\ p >= 1 /\ m \in Int /\ ModelBlockSize \in Nat
  BY EngineAssumption
<1>2. p <= ModelBlockSize /\ p + m <= ModelBlockSize
  BY DEF AddRequest, Accepts
<1>3. /\ status[s] = "NEW"
      /\ status' = [status EXCEPT ![s] = "WAITING"]
      /\ prompt_len' = [prompt_len EXCEPT ![s] = p]
      /\ max_tokens' = [max_tokens EXCEPT ![s] = m]
      /\ detokenizers' = detokenizers \cup {s}
      /\ UNCHANGED <<free, block_table, output_len, num_computed, pc, todo>>
  BY DEF AddRequest, Enqueue, bmVars
<1>4. ASSUME NEW x \in Seqs, x # s PROVE Progress(x)'
  <2>1. Progress(x)
    BY DEF Going
  <2> QED
    BY <1>3, <1>4, <2>1 DEF Progress, Unprefilled, Unsampled, NumTokens, HasSlot
<1>5. Progress(s)'
  <2>1. num_computed[s] = 0 /\ output_len[s] = 0
    BY <1>3 DEF Going, Progress
  <2>2. /\ status'[s] = "WAITING" /\ num_computed'[s] = 0 /\ output_len'[s] = 0
        /\ prompt_len'[s] = p /\ max_tokens'[s] = m /\ s \in detokenizers'
    BY <1>3, <2>1
  <2> QED BY <1>1, <1>2, <2>2 DEF Progress
<1> QED BY <1>3, <1>4, <1>5 DEF Going

LEMMA CancelRequestGoing ==
  ASSUME Safe, Lists, Going, NEW s \in Seqs, CancelRequest(s)
  PROVE  Going'
<1>1. /\ detokenizers' = detokenizers \ {s} /\ status[s] # "NEW"
      /\ UNCHANGED <<prompt_len, max_tokens, output_len, num_computed, pc, todo>>
  BY DEF CancelRequest
<1>2. /\ status'[s] = "FINISHED"
      /\ \A x \in Seqs : x # s => status'[x] = status[x] /\ block_table'[x] = block_table[x]
  <2>1. CASE Contains(running, s) /\ Finish(s, "cancelled")
    BY <2>1 DEF Finish, Free
  <2>2. CASE /\ status' = [status EXCEPT ![s] = "FINISHED"]
             /\ UNCHANGED <<bmVars, running>>
    BY <2>2 DEF bmVars
  <2>3. CASE /\ ~ Contains(running, s) /\ ~ Contains(waiting, s)
             /\ UNCHANGED <<bmVars, running, waiting, status>>
    <3>1. pc # "admit"
      BY DEF CancelRequest
    <3>2. status[s] \in Statuses /\ status[s] # "WAITING" /\ status[s] # "RUNNING"
      BY <2>3, <3>1 DEF Lists, ListsMatchStatus
    <3> QED BY <1>1, <2>3, <3>2 DEF Statuses, bmVars
  <2> QED
    BY <2>1, <2>2, <2>3 DEF CancelRequest, CancelById
<1>3. ASSUME NEW x \in Seqs PROVE Progress(x)'
  <2>1. Progress(x)
    BY DEF Going
  <2>2. CASE x = s
    BY <1>2, <2>2 DEF Progress
  <2>3. CASE x # s
    BY <1>1, <1>2, <2>1, <2>3 DEF Progress, Unprefilled, Unsampled, NumTokens, HasSlot
  <2> QED BY <2>2, <2>3
<1> QED BY <1>1, <1>3 DEF Going

LEMMA ListStepGoing ==
  ASSUME Safe, Lists, Going, UNCHANGED detokenizers,
         ScheduleBegin \/ SchedulePrefill \/ ScheduleDecode \/ SkipPreempted \/ CapacityDone
  PROVE  Going'
<1>1. UNCHANGED <<free, block_table, status, prompt_len, max_tokens, output_len, num_computed>>
  BY DEF ScheduleBegin, SchedulePrefill, ScheduleDecode, SkipPreempted, CapacityDone,
         bmVars, seqVars
<1>2. pc' # "raised"
  BY DEF ScheduleBegin, SchedulePrefill, ScheduleDecode, SkipPreempted, CapacityDone, Going
<1>3. ASSUME NEW x \in Seqs PROVE Progress(x)'
  <2>1. Progress(x)
    BY DEF Going
  <2>2. CASE ScheduleBegin
    <3>1. pc = "idle" /\ pc' = "admit" /\ ~ Contains(todo', x)
      BY <2>2, EmptyHolds DEF ScheduleBegin
    <3> QED
      BY <1>1, <2>1, <3>1 DEF Progress, Unprefilled, Unsampled, NumTokens, HasSlot
  <2>3. CASE SchedulePrefill
    <3>1. pc = "admit" /\ pc' = "prefill" /\ todo' = todo
      BY <2>3 DEF SchedulePrefill
    <3> QED
      BY <1>1, <2>1, <3>1 DEF Progress, Unprefilled, Unsampled, NumTokens, HasSlot
  <2>4. CASE ScheduleDecode
    <3>1. /\ pc = "admit" /\ pc' \in {"idle", "capacity"} /\ ~ Contains(todo, x)
          /\ todo' = running
          /\ Contains(running, x) \/ status[x] # "RUNNING"
      BY <2>4, EmptyHolds DEF ScheduleDecode, Lists, ListsMatchStatus
    <3> QED
      BY <1>1, <2>1, <3>1 DEF Progress, Unprefilled, Unsampled, NumTokens, HasSlot
  <2>5. CASE SkipPreempted
    <3>1. pc = "capacity" /\ pc' = "capacity"
      BY <2>5 DEF SkipPreempted
    <3>2. Contains(todo, x) /\ status[x] = "RUNNING" => Contains(todo', x)
      BY <2>5, TailOfDistinct DEF SkipPreempted, Lists, ListsMatchStatus
    <3> QED
      BY <1>1, <2>1, <3>1, <3>2 DEF Progress, Unprefilled, Unsampled, NumTokens, HasSlot
  <2>6. CASE CapacityDone
    <3>1. /\ pc = "capacity" /\ ~ Contains(todo, x)
          /\ status[x] = "RUNNING" => pc' = "forward" /\ Contains(todo', x)
          /\ pc' \in {"idle", "forward"}
      BY <2>6, EmptyHolds DEF CapacityDone, Lists, ListsMatchStatus
    <3> QED
      BY <1>1, <2>1, <3>1 DEF Progress, Unprefilled, Unsampled, NumTokens, HasSlot
  <2> QED BY <2>2, <2>3, <2>4, <2>5, <2>6
<1> QED BY <1>2, <1>3 DEF Going

LEMMA AdmitHeadGoing ==
  ASSUME Safe, Lists, Going, AdmitHead, UNCHANGED detokenizers
  PROVE  Going'
<1>s. PICK s \in Seqs : s = Head(waiting)
  BY AdmitHeadAllocates
<1>1. /\ s \in Seqs /\ status[s] = "WAITING" /\ block_table[s] = << >>
      /\ NumTokens(s) \in Nat
      /\ BlocksNeeded(NumTokens(s)) \in 0 .. Len(free)
      /\ AllocateAsserts(s, NumTokens(s))
  BY <1>s, AdmitHeadAllocates
<1>2. /\ Allocate(s, NumTokens(s))
      /\ status' = [status EXCEPT ![s] = "RUNNING"]
      /\ todo' = Append(todo, s)
      /\ pc = "admit" /\ pc' = "admit"
      /\ UNCHANGED <<prompt_len, max_tokens, output_len, num_computed>>
  BY <1>s, <1>1 DEF AdmitHead
<1>3. /\ Len(block_table'[s]) = BlocksNeeded(NumTokens(s))
      /\ \A x \in Seqs : x # s => block_table'[x] = block_table[x]
  BY <1>1, <1>2, AllocateTable
<1>4. ~ Contains(todo, s)
  BY <1>1, <1>2 DEF Lists, ListsMatchStatus
<1>5. \A x : Contains(todo', x) <=> Contains(todo, x) \/ x = s
  BY <1>1, <1>2, <1>4, AppendToDistinct DEF Lists, ListsMatchStatus
<1>6. ASSUME NEW x \in Seqs PROVE Progress(x)'
  <2>1. Progress(x)
    BY DEF Going
  <2>2. CASE x = s
    <3>1. Unprefilled(s)' /\ status'[s] = "RUNNING"
      BY <1>1, <1>2, <1>5 DEF Unprefilled
    <3>2. NumTokens(s)' = NumTokens(s)
      BY <1>2 DEF NumTokens
    <3> QED BY <1>1, <1>2, <1>3, <2>1, <2>2, <3>1, <3>2 DEF Progress
  <2>3. CASE x # s
    BY <1>2, <1>3, <1>5, <2>1, <2>3
       DEF Progress, Unprefilled, Unsampled, NumTokens, HasSlot
  <2> QED BY <2>2, <2>3
<1> QED BY <1>2, <1>6 DEF Going

LEMMA SecureSlotGoing ==
  ASSUME Safe, Lists, Going, SecureSlot, UNCHANGED detokenizers
  PROVE  Going'
<1>s. PICK s \in Seqs, n \in Nat : s = Head(todo) /\ n = num_computed[s]
  <2>1. Head(todo) \in Seqs
    BY SecureSlotTables
  <2> QED BY <2>1
<1>1. /\ s \in Seqs /\ status[s] = "RUNNING" /\ pc = "capacity"
      /\ \A x \in Seqs : x # s => block_table'[x] = block_table[x]
      /\ IF HasSlot(s, n) THEN block_table' = block_table
         ELSE Len(block_table'[s]) = Len(block_table[s]) + 1
  BY <1>s, SecureSlotTables DEF SecureSlot, Claiming
<1>2. UNCHANGED <<status, prompt_len, max_tokens, output_len, num_computed, pc>>
  BY DEF SecureSlot, seqVars
<1>3. \A x : Contains(todo', x) <=> Contains(todo, x) /\ x # s
  BY <1>s, TailOfDistinct DEF SecureSlot, Claiming, Lists, ListsMatchStatus
<1>4. n + 1 \in Nat /\ n <= n + 1
  OBVIOUS
<1>5. /\ BlocksNeeded(n) \in Nat /\ BlocksNeeded(n + 1) \in Nat
      /\ BlocksNeeded(n) <= BlocksNeeded(n + 1)
      /\ BlocksNeeded(n + 1) <= BlocksNeeded(n) + 1
  BY <1>4, BlocksNeededNat, BlocksMonotone, OneMoreBlock
<1>6. /\ Len(block_table[s]) = BlocksNeeded(n) \/ Len(block_table[s]) = BlocksNeeded(n + 1)
  BY <1>s, <1>1 DEF Going, Progress, Unprefilled
<1>7. Len(block_table'[s]) = BlocksNeeded(n) \/ Len(block_table'[s]) = BlocksNeeded(n + 1)
  BY <1>1, <1>5, <1>6 DEF HasSlot
<1>8. BlocksNeeded(n + 1) <= Len(block_table'[s])
  BY <1>1, <1>5, <1>6 DEF HasSlot
<1>9. ASSUME NEW x \in Seqs PROVE Progress(x)'
  <2>1. Progress(x)
    BY DEF Going
  <2>2. CASE x = s
    <3>1. HasSlot(s, num_computed[s])'
      BY <1>s, <1>2, <1>8 DEF HasSlot
    <3>2. ~ Unprefilled(s) /\ ~ Unprefilled(s)' /\ ~ Unsampled(s) /\ ~ Unsampled(s)'
      BY <1>1, <1>2 DEF Unprefilled, Unsampled
    <3>3. NumTokens(s)' = NumTokens(s)
      BY <1>2 DEF NumTokens
    <3> QED BY <1>s, <1>1, <1>2, <1>7, <2>1, <2>2, <3>1, <3>2, <3>3 DEF Progress
  <2>3. CASE x # s
    BY <1>1, <1>2, <1>3, <2>1, <2>3
       DEF Progress, Unprefilled, Unsampled, NumTokens, HasSlot
  <2> QED BY <2>2, <2>3
<1> QED BY <1>2, <1>9 DEF Going

\* _preempt() starts the victim over.
LEMMA PreemptGoing ==
  ASSUME Safe, Lists, Going, pc = "capacity", pc' = pc, NEW v \in Seqs,
         status[v] = "RUNNING", Preempt(v),
         UNCHANGED <<prompt_len, max_tokens, output_len, detokenizers>>,
         \A x \in Seqs : x # v => (Contains(todo', x) <=> Contains(todo, x))
  PROVE  Going'
<1>1. \A x \in Seqs :
        /\ status'[x] = IF x = v THEN "WAITING" ELSE status[x]
        /\ block_table'[x] = IF x = v THEN << >> ELSE block_table[x]
        /\ num_computed'[x] = IF x = v THEN 0 ELSE num_computed[x]
  BY PreemptLists DEF Lists
<1>2. ASSUME NEW x \in Seqs PROVE Progress(x)'
  <2>1. Progress(x)
    BY DEF Going
  <2>2. CASE x = v
    BY <1>1, <2>1, <2>2 DEF Progress
  <2>3. CASE x # v
    BY <1>1, <2>1, <2>3 DEF Progress, Unprefilled, Unsampled, NumTokens, HasSlot
  <2> QED BY <2>2, <2>3
<1> QED BY <1>2 DEF Going

\* Only a token short of the limit can be followed by another.
LEMMA OutcomeNone ==
  ASSUME Safe, NEW s \in Seqs, "none" \in Outcomes(s)
  PROVE  output_len[s] + 1 < max_tokens[s]
<1>1. output_len[s] \in Nat /\ max_tokens[s] \in Int
  OBVIOUS
<1>2. \A eot, stopped \in BOOLEAN :
        CheckFinish(s, eot, stopped) = "none" => output_len[s] + 1 < max_tokens[s]
  BY <1>1 DEF CheckFinish
<1> QED BY <1>2 DEF Outcomes

\* What a row of a prefill or decode step changes, num_computed aside.
LEMMA RowEffect ==
  ASSUME Safe, Lists, pc \in {"prefill", "sample"}, todo # << >>,
         NEW r \in Outcomes(Head(todo)), SampleAndAdvance(Head(todo), r),
         todo' = Tail(todo)
  PROVE  /\ Head(todo) \in Seqs /\ status[Head(todo)] = "RUNNING"
         /\ Contains(todo, Head(todo))
         /\ \A x : Contains(todo', x) <=> Contains(todo, x) /\ x # Head(todo)
         /\ \A x \in Seqs : x # Head(todo) =>
              /\ status'[x] = status[x] /\ output_len'[x] = output_len[x]
              /\ block_table'[x] = block_table[x]
         /\ \/ status'[Head(todo)] = "FINISHED"
            \/ /\ status'[Head(todo)] = "RUNNING"
               /\ block_table'[Head(todo)] = block_table[Head(todo)]
               /\ output_len'[Head(todo)] = output_len[Head(todo)] + 1
               /\ output_len[Head(todo)] + 1 < max_tokens[Head(todo)]
<1> DEFINE s == Head(todo)
<1>1. /\ s \in Seqs /\ Contains(todo, s)
      /\ \A x : Contains(todo', x) <=> Contains(todo, x) /\ x # s
  BY HeadOfList, TailOfDistinct DEF Lists, ListsMatchStatus
<1>2. ListsMatchStatus /\ pc # "admit" /\ Contains(running, s) /\ status[s] = "RUNNING"
  BY <1>1 DEF Lists, ListsMatchStatus, TodoIsRunning
<1>3. output_len' = [output_len EXCEPT ![s] = @ + 1]
  BY DEF SampleAndAdvance
<1>4. CASE r = "none"
  <2>1. UNCHANGED <<block_table, status>>
    BY <1>4 DEF SampleAndAdvance, bmVars
  <2>2. output_len[s] + 1 < max_tokens[s]
    BY <1>1, <1>4, OutcomeNone
  <2> QED BY <1>1, <1>2, <1>3, <2>1, <2>2
<1>5. CASE r # "none"
  <2>1. Finish(s, r)
    BY <1>5 DEF SampleAndAdvance
  <2>2. /\ status' = [status EXCEPT ![s] = "FINISHED"]
        /\ block_table' = [block_table EXCEPT ![s] = << >>]
    BY <2>1 DEF Finish, Free
  <2> QED BY <1>1, <1>2, <1>3, <2>2
<1> QED BY <1>4, <1>5

LEMMA PrefillOneGoing ==
  ASSUME Safe, Lists, Going, PrefillOne
  PROVE  Going'
<1>1. pc = "prefill" /\ todo # << >>
  BY DEF PrefillOne
<1>s. PICK s \in Seqs : s = Head(todo)
  BY <1>1, HeadOfList
<1>2. /\ s \in Seqs /\ Contains(todo, s) /\ status[s] = "RUNNING"
  BY <1>s, <1>1, TailOfDistinct DEF Lists, ListsMatchStatus, TodoIsRunning
<1>3. Progress(s) /\ Unprefilled(s)
  BY <1>1, <1>2 DEF Going, Unprefilled
<1>4. /\ prompt_len[s] \in Nat /\ output_len[s] \in Nat /\ max_tokens[s] \in Int
      /\ num_computed[s] = 0 /\ s \in detokenizers
      /\ prompt_len[s] >= 1 /\ prompt_len[s] <= ModelBlockSize
      /\ prompt_len[s] + max_tokens[s] <= ModelBlockSize
      /\ output_len[s] = 0 \/ output_len[s] < max_tokens[s]
      /\ Len(block_table[s]) = BlocksNeeded(NumTokens(s))
      /\ ModelBlockSize \in Nat
  BY <1>1, <1>2, <1>3, EngineAssumption DEF Progress
<1>5. NumTokens(s) \in Nat /\ NumTokens(s) >= 1 /\ NumTokens(s) - 1 < ModelBlockSize
  BY <1>4 DEF NumTokens
<1>6. PrefillOK(s)
  BY <1>4, <1>5, BlocksHold DEF PrefillOK, BatchNotEmpty, PositionInTable, PrefillLen
<1>7. PICK r \in Outcomes(s) : SampleAndAdvance(s, r)
  BY <1>s, <1>6 DEF PrefillOne
<1>8. /\ num_computed' = [num_computed EXCEPT ![s] = NumTokens(s)]
      /\ todo' = Tail(todo)
      /\ UNCHANGED <<prompt_len, max_tokens, pc, detokenizers>>
  BY <1>s, <1>6 DEF PrefillOne, PrefillLen
<1>9. /\ \A x : Contains(todo', x) <=> Contains(todo, x) /\ x # s
      /\ \A x \in Seqs : x # s =>
           /\ status'[x] = status[x] /\ output_len'[x] = output_len[x]
           /\ block_table'[x] = block_table[x]
      /\ \/ status'[s] = "FINISHED"
         \/ /\ status'[s] = "RUNNING" /\ block_table'[s] = block_table[s]
            /\ output_len'[s] = output_len[s] + 1
            /\ output_len[s] + 1 < max_tokens[s]
  BY <1>s, <1>1, <1>7, <1>8, RowEffect
<1>10. ASSUME NEW x \in Seqs PROVE Progress(x)'
  <2>1. Progress(x)
    BY DEF Going
  <2>2. CASE x = s
    <3>1. CASE status'[s] = "FINISHED"
      BY <2>2, <3>1 DEF Progress
    <3>2. CASE /\ status'[s] = "RUNNING" /\ block_table'[s] = block_table[s]
               /\ output_len'[s] = output_len[s] + 1
               /\ output_len[s] + 1 < max_tokens[s]
      <4>1. ~ Unprefilled(s)' /\ ~ Unsampled(s)'
        BY <1>1, <1>8, <1>9 DEF Unprefilled, Unsampled
      <4>2. NumTokens(s)' = NumTokens(s) + 1 /\ num_computed'[s] = NumTokens(s)
        BY <1>2, <1>4, <1>8, <3>2 DEF NumTokens
      <4>3. /\ prompt_len'[s] = prompt_len[s] /\ max_tokens'[s] = max_tokens[s]
            /\ s \in detokenizers' /\ pc' = "prefill"
        BY <1>1, <1>4, <1>8
      <4>4. NumTokens(s)' - 1 = NumTokens(s)
        BY <1>5, <4>2
      <4> QED BY <1>4, <2>2, <3>2, <4>1, <4>2, <4>3, <4>4 DEF Progress
    <3> QED BY <1>9, <3>1, <3>2
  <2>3. CASE x # s
    <3>1. num_computed'[x] = num_computed[x]
      BY <1>8, <2>3
    <3> QED
      BY <1>1, <1>8, <1>9, <2>1, <2>3, <3>1
         DEF Progress, Unprefilled, Unsampled, NumTokens, HasSlot
  <2> QED BY <2>2, <2>3
<1> QED BY <1>8, <1>10 DEF Going

LEMMA ForwardGoing ==
  ASSUME Safe, Lists, Going, Forward
  PROVE  Going'
<1>1. pc = "forward"
  BY DEF Forward
<1>2. ASSUME NEW x \in Seqs, status[x] = "RUNNING"
      PROVE  /\ Contains(todo, x) /\ num_computed[x] = NumTokens(x) - 1
             /\ num_computed[x] < ModelBlockSize
             /\ BlocksNeeded(num_computed[x] + 1) <= Len(block_table[x])
             /\ Len(block_table[x]) = BlocksNeeded(num_computed[x] + 1)
  <2>1. /\ Progress(x) /\ ~ Unprefilled(x) /\ ~ Unsampled(x)
    BY <1>1 DEF Going, Unprefilled, Unsampled
  <2>2. /\ prompt_len[x] \in Nat /\ output_len[x] \in Nat /\ max_tokens[x] \in Int
        /\ num_computed[x] \in Nat /\ ModelBlockSize \in Nat
    BY EngineAssumption
  <2>3. /\ Contains(todo, x) /\ num_computed[x] = NumTokens(x) - 1
        /\ output_len[x] >= 1
        /\ output_len[x] = 0 \/ output_len[x] < max_tokens[x]
        /\ prompt_len[x] + max_tokens[x] <= ModelBlockSize
        /\ HasSlot(x, num_computed[x])
        /\ \/ Len(block_table[x]) = BlocksNeeded(num_computed[x])
           \/ Len(block_table[x]) = BlocksNeeded(num_computed[x] + 1)
    BY <1>1, <1>2, <2>1 DEF Progress
  <2>4. num_computed[x] < ModelBlockSize
    BY <2>2, <2>3 DEF NumTokens
  <2>5. /\ BlocksNeeded(num_computed[x]) \in Nat /\ BlocksNeeded(num_computed[x] + 1) \in Nat
        /\ BlocksNeeded(num_computed[x]) <= BlocksNeeded(num_computed[x] + 1)
    <3>1. num_computed[x] + 1 \in Nat /\ num_computed[x] <= num_computed[x] + 1
      BY <2>2
    <3> QED BY <2>2, <3>1, BlocksNeededNat, BlocksMonotone
  <2> QED BY <2>3, <2>4, <2>5 DEF HasSlot
<1>3. ASSUME NEW i \in 1 .. Len(todo) PROVE DecodeOK(todo[i])
  <2> DEFINE x == todo[i]
             n == num_computed[x]
  <2>1. x \in Seqs /\ Contains(todo, x)
    BY ElementOfSeq DEF Contains
  <2>2. status[x] = "RUNNING"
    BY <1>1, <2>1 DEF Lists, ListsMatchStatus, TodoIsRunning
  <2>3. n \in Nat /\ ModelBlockSize \in Nat
    BY <2>1, EngineAssumption
  <2>4. /\ n < ModelBlockSize
        /\ Len(block_table[x]) = BlocksNeeded(n + 1)
    BY <1>2, <2>1, <2>2
  <2> HIDE DEF x, n
  <2>5. BlocksNeeded(n + 1) = n \div BlockSize + 1 /\ n \div BlockSize \in Nat
    BY <2>3, NextBlocks, DivBounds, BlockManagerAssumption
  <2>6. BlocksNeeded(n + 1) <= BlocksNeeded(ModelBlockSize)
    BY <2>3, <2>4, BlocksMonotone
  <2>7. n \div BlockSize < Len(block_table[x])
    BY <2>4, <2>5
  <2> QED
    BY <2>4, <2>6, <2>7 DEF DecodeOK, PositionInTable, MaxBlocksPerSeq, x, n
<1>4. /\ num_computed' = [s \in Seqs |->
           IF Contains(todo, s) THEN num_computed[s] + 1 ELSE num_computed[s]]
      /\ pc' = "sample"
      /\ UNCHANGED <<free, block_table, status, prompt_len, max_tokens, output_len,
                     todo, detokenizers>>
  BY <1>3 DEF Forward, bmVars
<1>5. ASSUME NEW x \in Seqs PROVE Progress(x)'
  <2>1. Progress(x) /\ num_computed[x] \in Nat
    BY DEF Going
  <2>2. CASE status[x] = "RUNNING"
    <3>1. /\ Contains(todo, x) /\ num_computed[x] = NumTokens(x) - 1
          /\ Len(block_table[x]) = BlocksNeeded(num_computed[x] + 1)
      BY <1>2, <2>2
    <3>2. Unsampled(x)' /\ ~ Unprefilled(x)' /\ ~ Unprefilled(x)
      BY <1>1, <1>4, <3>1 DEF Unsampled, Unprefilled
    <3>3. num_computed'[x] = num_computed[x] + 1
      BY <1>4, <3>1
    <3>4. NumTokens(x)' = NumTokens(x) /\ NumTokens(x) \in Int
      BY <1>4 DEF NumTokens
    <3>5. num_computed'[x] = NumTokens(x)'
      BY <2>1, <3>1, <3>3, <3>4
    <3> QED BY <1>4, <2>1, <2>2, <3>1, <3>2, <3>3, <3>5 DEF Progress
  <2>3. CASE status[x] # "RUNNING"
    <3>1. ~ Contains(todo, x)
      BY <1>1, <2>3 DEF Lists, ListsMatchStatus, TodoIsRunning
    <3>2. num_computed'[x] = num_computed[x]
      BY <1>4, <3>1
    <3> QED BY <1>4, <2>1, <2>3, <3>2 DEF Progress
  <2> QED BY <2>2, <2>3
<1> QED BY <1>4, <1>5 DEF Going

LEMMA SampleRowGoing ==
  ASSUME Safe, Lists, Going, SampleRow
  PROVE  Going'
<1>1. pc = "sample" /\ todo # << >>
  BY DEF SampleRow
<1>s. PICK s \in Seqs : s = Head(todo)
  BY <1>1, HeadOfList
<1>2. s \in Seqs /\ Contains(todo, s) /\ status[s] = "RUNNING"
  BY <1>s, <1>1, TailOfDistinct DEF Lists, ListsMatchStatus, TodoIsRunning
<1>3. Progress(s) /\ ~ Unprefilled(s) /\ Unsampled(s)
  BY <1>1, <1>2 DEF Going, Unprefilled, Unsampled
<1>4. s \in detokenizers
  BY <1>2, <1>3 DEF Progress
<1>5. PICK r \in Outcomes(s) : SampleAndAdvance(s, r)
  BY <1>s, <1>4 DEF SampleRow
<1>6. todo' = Tail(todo) /\ UNCHANGED <<prompt_len, max_tokens, num_computed, pc, detokenizers>>
  BY <1>s, <1>4 DEF SampleRow
<1>7. /\ \A x : Contains(todo', x) <=> Contains(todo, x) /\ x # s
      /\ \A x \in Seqs : x # s =>
           /\ status'[x] = status[x] /\ output_len'[x] = output_len[x]
           /\ block_table'[x] = block_table[x]
      /\ \/ status'[s] = "FINISHED"
         \/ /\ status'[s] = "RUNNING" /\ block_table'[s] = block_table[s]
            /\ output_len'[s] = output_len[s] + 1
            /\ output_len[s] + 1 < max_tokens[s]
  BY <1>s, <1>1, <1>5, <1>6, RowEffect
<1>8. ASSUME NEW x \in Seqs PROVE Progress(x)'
  <2>1. Progress(x)
    BY DEF Going
  <2>2. CASE x = s
    <3>1. CASE status'[s] = "FINISHED"
      BY <2>2, <3>1 DEF Progress
    <3>2. CASE /\ status'[s] = "RUNNING" /\ block_table'[s] = block_table[s]
               /\ output_len'[s] = output_len[s] + 1
               /\ output_len[s] + 1 < max_tokens[s]
      <4>1. ~ Unprefilled(s)' /\ ~ Unsampled(s)'
        BY <1>1, <1>6, <1>7 DEF Unprefilled, Unsampled
      <4>2. output_len[s] \in Nat /\ prompt_len[s] \in Nat
        BY <1>2
      <4>3. NumTokens(s)' - 1 = NumTokens(s)
        BY <1>6, <3>2, <4>2 DEF NumTokens
      <4>4. num_computed'[s] = NumTokens(s)
        BY <1>2, <1>3, <1>6 DEF Progress
      <4>5. Len(block_table'[s]) = BlocksNeeded(num_computed'[s])
        BY <1>1, <1>2, <1>3, <1>6, <3>2 DEF Progress
      <4> QED
        BY <1>1, <1>2, <1>3, <1>6, <2>2, <3>2, <4>1, <4>2, <4>3, <4>4, <4>5 DEF Progress
    <3> QED BY <1>7, <3>1, <3>2
  <2>3. CASE x # s
    BY <1>1, <1>6, <1>7, <2>1, <2>3
       DEF Progress, Unprefilled, Unsampled, NumTokens, HasSlot
  <2> QED BY <2>2, <2>3
<1> QED BY <1>6, <1>8 DEF Going

LEMMA StepEndGoing ==
  ASSUME Safe, Lists, Going, StepEnd
  PROVE  Going'
<1>1. /\ pc \in {"prefill", "sample"} /\ pc' = "idle" /\ todo = << >>
      /\ UNCHANGED <<free, block_table, status, prompt_len, max_tokens, output_len,
                     num_computed, todo, detokenizers>>
  BY DEF StepEnd, bmVars, seqVars
<1>2. ASSUME NEW x \in Seqs PROVE Progress(x)'
  <2>1. Progress(x) /\ ~ Contains(todo, x)
    BY <1>1, EmptyHolds DEF Going
  <2> QED
    BY <1>1, <2>1 DEF Progress, Unprefilled, Unsampled, NumTokens, HasSlot
<1> QED BY <1>1, <1>2 DEF Going

\* Every step keeps each sequence's progress, empty prompts excluded.
LEMMA NextGoing ==
  ASSUME 0 \notin PromptLens, Safe, Lists, Going, [Next]_vars
  PROVE  Going'
<1>1. ASSUME NEW s \in Seqs, NEW p \in PromptLens, NEW m \in MaxTokensValues,
             AddRequest(s, p, m)
      PROVE  Going'
  BY <1>1, AddRequestGoing
<1>2. ASSUME NEW s \in Seqs, CancelRequest(s) PROVE Going'
  BY <1>2, CancelRequestGoing
<1>3. CASE /\ ScheduleBegin \/ SchedulePrefill \/ ScheduleDecode \/ SkipPreempted \/ CapacityDone
           /\ UNCHANGED detokenizers
  BY <1>3, ListStepGoing
<1>4. CASE AdmitHead /\ UNCHANGED detokenizers
  BY <1>4, AdmitHeadGoing
<1>5. CASE SecureSlot /\ UNCHANGED detokenizers
  BY <1>5, SecureSlotGoing
<1>6. CASE PreemptVictim /\ UNCHANGED detokenizers
  <2> DEFINE v == running[Max(VictimIndices(Head(todo)))]
  <2>1. v \in Seqs /\ status[v] = "RUNNING" /\ Preempt(v)
    BY <1>6, VictimOfList DEF PreemptVictim
  <2> HIDE DEF v
  <2>2. pc = "capacity" /\ UNCHANGED <<prompt_len, max_tokens, output_len, pc, todo>>
    BY <1>6 DEF PreemptVictim, Claiming
  <2> QED BY <1>6, <2>1, <2>2, PreemptGoing
<1>7. CASE PreemptSelf /\ UNCHANGED detokenizers
  <2> DEFINE v == Head(todo)
  <2>1. v \in Seqs /\ status[v] = "RUNNING" /\ Preempt(v)
    BY <1>7, HeadOfList DEF PreemptSelf, Claiming
  <2>2. \A x : Contains(todo', x) <=> Contains(todo, x) /\ x # v
    BY <1>7, TailOfDistinct DEF PreemptSelf, Claiming, Lists, ListsMatchStatus
  <2> HIDE DEF v
  <2>3. pc = "capacity" /\ UNCHANGED <<prompt_len, max_tokens, output_len, pc>>
    BY <1>7 DEF PreemptSelf, Claiming
  <2> QED BY <1>7, <2>1, <2>2, <2>3, PreemptGoing
<1>8. CASE PrefillOne
  BY <1>8, PrefillOneGoing
<1>9. CASE Forward
  BY <1>9, ForwardGoing
<1>10. CASE SampleRow
  BY <1>10, SampleRowGoing
<1>11. CASE StepEnd
  BY <1>11, StepEndGoing
<1>12. CASE UNCHANGED vars
  BY <1>12 DEF vars, schedVars, bmVars, seqVars, Going, Progress, Unprefilled, Unsampled,
     NumTokens, HasSlot
<1> QED
  BY <1>1, <1>2, <1>3, <1>4, <1>5, <1>6, <1>7, <1>8, <1>9, <1>10, <1>11, <1>12
     DEF Next, Step, Bookkeeping, SchedulerStep, Call

-----------------------------------------------------------------------------
(* A preempted sequence is never behind a fresh one.                       *)

\* Only the front of the queue gains sequences with output.
LEMMA NextOrder ==
  ASSUME Safe, Lists, Going, PreemptedBeforeFresh, [Next]_vars
  PROVE  PreemptedBeforeFresh'
<1>1. waiting \in Seq(Seqs) /\ Ordered(waiting, output_len)
  BY DEF PreemptedBeforeFresh, Ordered
<1> SUFFICES Ordered(waiting', output_len')
  BY DEF PreemptedBeforeFresh, Ordered
<1>2. ASSUME NEW s \in Seqs, NEW p \in PromptLens, NEW m \in MaxTokensValues,
             AddRequest(s, p, m)
      PROVE  Ordered(waiting', output_len')
  <2>1. waiting' = Append(waiting, s) /\ output_len' = output_len /\ status[s] = "NEW"
    BY <1>2 DEF AddRequest, Enqueue
  <2>2. output_len[s] = 0
    BY <2>1 DEF Going, Progress
  <2> QED BY <1>1, <2>1, <2>2, OrderedAppend
<1>3. ASSUME NEW s \in Seqs, CancelRequest(s)
      PROVE  Ordered(waiting', output_len')
  <2>1. output_len' = output_len
    BY <1>3 DEF CancelRequest
  <2>2. CASE Contains(waiting, s) /\ waiting' = RemoveFirst(waiting, s)
    BY <1>1, <2>1, <2>2, OrderedRemove DEF Contains
  <2>3. CASE UNCHANGED waiting
    BY <1>1, <2>1, <2>3
  <2> QED BY <1>3, <2>2, <2>3 DEF CancelRequest, CancelById
<1>4. CASE UNCHANGED <<waiting, output_len>>
  BY <1>1, <1>4
<1>5. CASE AdmitHead
  <2>1. output_len' = output_len /\ waiting # << >>
    BY <1>5 DEF AdmitHead, HeadFits
  <2>2. waiting' = Tail(waiting) \/ waiting' = waiting
    BY <1>5 DEF AdmitHead
  <2> QED BY <1>1, <2>1, <2>2, OrderedTail
<1>6. ASSUME NEW v \in Seqs, status[v] = "RUNNING", pc = "capacity", Preempt(v),
             output_len' = output_len
      PROVE  Ordered(waiting', output_len')
  <2>1. output_len[v] \in Nat /\ output_len[v] >= 1
    BY <1>6 DEF Going, Progress, Unprefilled
  <2>2. output_len[v] > 0 /\ waiting' = <<v>> \o waiting
    BY <1>6, <2>1 DEF Preempt
  <2> QED BY <1>1, <1>6, <2>2, OrderedPushFront
<1>7. CASE PreemptVictim
  <2> DEFINE v == running[Max(VictimIndices(Head(todo)))]
  <2>1. v \in Seqs /\ status[v] = "RUNNING" /\ Preempt(v)
    BY <1>7, VictimOfList DEF PreemptVictim
  <2> HIDE DEF v
  <2> QED BY <1>6, <1>7, <2>1 DEF PreemptVictim, Claiming
<1>8. CASE PreemptSelf
  <2>1. Head(todo) \in Seqs /\ status[Head(todo)] = "RUNNING" /\ Preempt(Head(todo))
    BY <1>8, HeadOfList DEF PreemptSelf, Claiming
  <2> QED BY <1>6, <1>8, <2>1 DEF PreemptSelf, Claiming
<1>9. ASSUME pc \in {"prefill", "sample"}, todo # << >>, NEW r,
             SampleAndAdvance(Head(todo), r), UNCHANGED waiting
      PROVE  Ordered(waiting', output_len')
  <2>1. /\ Head(todo) \in Seqs /\ status[Head(todo)] = "RUNNING"
    BY <1>9, HeadOfList, TailOfDistinct DEF Lists, ListsMatchStatus, TodoIsRunning
  <2>2. \A i \in 1 .. Len(waiting) :
          waiting[i] \in Seqs /\ status[waiting[i]] = "WAITING"
    <3>1. \A i \in 1 .. Len(waiting) : waiting[i] \in Seqs /\ Contains(waiting, waiting[i])
      BY ElementOfSeq DEF Contains
    <3> QED BY <3>1 DEF Lists, ListsMatchStatus
  <2>3. \A i \in 1 .. Len(waiting) : output_len'[waiting[i]] = output_len[waiting[i]]
    BY <1>9, <2>1, <2>2 DEF SampleAndAdvance
  <2> QED BY <1>1, <1>9, <2>3 DEF Ordered
<1>10. CASE PrefillOne
  BY <1>4, <1>9, <1>10 DEF PrefillOne, Raise, seqVars
<1>11. CASE SampleRow
  BY <1>4, <1>9, <1>11 DEF SampleRow, Raise, seqVars
<1>12. CASE \/ ScheduleBegin \/ SchedulePrefill \/ ScheduleDecode \/ SkipPreempted
            \/ SecureSlot \/ CapacityDone \/ Forward \/ StepEnd \/ UNCHANGED vars
  <2>1. UNCHANGED <<waiting, output_len>>
    BY <1>12 DEF ScheduleBegin, SchedulePrefill, ScheduleDecode, SkipPreempted, SecureSlot,
       CapacityDone, Forward, StepEnd, Raise, vars, schedVars, seqVars
  <2> QED BY <1>4, <2>1
<1> QED
  BY <1>2, <1>3, <1>5, <1>7, <1>8, <1>10, <1>11, <1>12
     DEF Next, Step, Bookkeeping, SchedulerStep, Call

-----------------------------------------------------------------------------
(* Whoever is evicted held a block.                                        *)

\* During the capacity pass a running sequence has computed a token, so it
\* holds a block.
LEMMA RunningHoldsBlock ==
  ASSUME Safe, Going, NEW v \in Seqs, status[v] = "RUNNING", pc = "capacity"
  PROVE  Len(block_table[v]) >= 1
<1> DEFINE n == num_computed[v]
<1>1. /\ Progress(v) /\ ~ Unprefilled(v) /\ ~ Unsampled(v)
  BY DEF Going, Unprefilled, Unsampled
<1>2. n \in Nat /\ prompt_len[v] \in Nat /\ output_len[v] \in Nat
  OBVIOUS
<1>3. /\ n = NumTokens(v) - 1 /\ output_len[v] >= 1 /\ prompt_len[v] >= 1
      /\ Len(block_table[v]) = BlocksNeeded(n) \/ Len(block_table[v]) = BlocksNeeded(n + 1)
  BY <1>1 DEF Progress
<1>4. n >= 1
  BY <1>2, <1>3 DEF NumTokens
<1> HIDE DEF n
<1>5. n - 1 \in Nat /\ n + 1 \in Nat /\ n <= n + 1 /\ (n - 1) + 1 = n
  BY <1>2, <1>4
<1>6. BlocksNeeded(n) = (n - 1) \div BlockSize + 1 /\ (n - 1) \div BlockSize \in Nat
  BY <1>5, NextBlocks, DivBounds, BlockManagerAssumption
<1>7. /\ BlocksNeeded(n) \in Nat /\ BlocksNeeded(n + 1) \in Nat
      /\ BlocksNeeded(n) <= BlocksNeeded(n + 1)
  BY <1>2, <1>5, BlocksNeededNat, BlocksMonotone
<1> QED BY <1>3, <1>6, <1>7

\* The victim's blocks are free at once.
LEMMA EvictionFrees ==
  ASSUME Safe, Going, PreemptVictim
  PROVE  free' # << >>
<1> DEFINE v == running[Max(VictimIndices(Head(todo)))]
<1>1. v \in Seqs /\ status[v] = "RUNNING" /\ Free(v) /\ pc = "capacity"
  BY VictimOfList DEF PreemptVictim, Preempt, Claiming
<1> HIDE DEF v
<1>2. Len(free') = Len(free) + Len(block_table[v])
  BY <1>1, FreeOwnership
<1>3. Len(block_table[v]) >= 1 /\ Len(free) \in Nat /\ Len(block_table[v]) \in Nat
  BY <1>1, RunningHoldsBlock, LenProperties
<1>4. Len(free') # 0
  BY <1>2, <1>3
<1> QED BY <1>4, EmptySeq

-----------------------------------------------------------------------------
(* Each step maps to a step of Completion or to none.                      *)

Phase(s) == CASE status[s] = "NEW" -> "new"
              [] status[s] = "FINISHED" -> "done"
              [] OTHER -> "live"

LEMMA InitPromise == Init => Promise!Init
BY DEF Init, SchedulerInit, Promise!Init

\* A step is a step of one request of Completion, or invisible there.
LEMMA NextPromise ==
  ASSUME Safe, Lists, Going, [Next]_vars
  PROVE  [Promise!Next]_(Promise!completionVars)
<1> DEFINE phase == [s \in Seqs |-> CASE status[s] = "NEW" -> "new"
                               [] status[s] = "FINISHED" -> "done"
                               [] OTHER -> "live"]
<1>a. ASSUME UNCHANGED <<max_tokens, output_len, finish_reason>>,
             \A x \in Seqs : Phase(x)' = Phase(x)
      PROVE  UNCHANGED Promise!completionVars
  BY <1>a DEF Promise!completionVars, Phase
<1>1. ASSUME NEW s \in Seqs, NEW p \in PromptLens, NEW m \in MaxTokensValues,
             AddRequest(s, p, m)
      PROVE  Promise!Submit(s, m)
  <2>1. /\ status[s] = "NEW" /\ status' = [status EXCEPT ![s] = "WAITING"]
        /\ max_tokens' = [max_tokens EXCEPT ![s] = m]
        /\ UNCHANGED <<output_len, finish_reason>>
    BY <1>1 DEF AddRequest, Enqueue
  <2>2. phase[s] = "new" /\ phase' = [phase EXCEPT ![s] = "live"]
    BY <2>1
  <2> QED BY <2>1, <2>2 DEF Promise!Submit
<1>2. ASSUME NEW s \in Seqs, CancelRequest(s)
      PROVE  Promise!Cancel(s) \/ UNCHANGED Promise!completionVars
  <2>1. UNCHANGED <<max_tokens, output_len>> /\ status[s] # "NEW" /\ pc # "admit"
    BY <1>2 DEF CancelRequest
  <2>2. CASE UNCHANGED <<status, finish_reason>>
    BY <2>1, <2>2, <1>a DEF Phase
  <2>3. CASE /\ status' = [status EXCEPT ![s] = "FINISHED"]
             /\ finish_reason' = [finish_reason EXCEPT ![s] = "cancelled"]
             /\ Contains(running, s) \/ Contains(waiting, s)
    <3>1. status[s] \in {"WAITING", "RUNNING"}
      BY <2>1, <2>3 DEF Lists, ListsMatchStatus
    <3>2. phase[s] = "live" /\ phase' = [phase EXCEPT ![s] = "done"]
      BY <2>3, <3>1
    <3> QED BY <2>1, <2>3, <3>2 DEF Promise!Cancel
  <2> QED BY <1>2, <2>2, <2>3 DEF CancelRequest, CancelById, Finish
<1>3. ASSUME pc \in {"prefill", "sample"}, todo # << >>, NEW r \in Outcomes(Head(todo)),
             SampleAndAdvance(Head(todo), r), UNCHANGED max_tokens
      PROVE  Promise!Next
  <2>s. PICK s \in Seqs : s = Head(todo)
    BY <1>3, HeadOfList
  <2>1. status[s] = "RUNNING"
    BY <1>3, <2>s, TailOfDistinct DEF Lists, ListsMatchStatus, TodoIsRunning
  <2>2. /\ output_len[s] \in Nat /\ max_tokens[s] \in Int
        /\ output_len[s] = 0 \/ output_len[s] < max_tokens[s]
    BY <2>1 DEF Going, Progress
  <2>3. phase[s] = "live" /\ output_len' = [output_len EXCEPT ![s] = @ + 1]
    BY <1>3, <2>s, <2>1 DEF SampleAndAdvance
  <2>4. CASE r = "none"
    <3>1. output_len[s] + 1 < max_tokens[s]
      BY <1>3, <2>s, <2>4, OutcomeNone
    <3>2. UNCHANGED <<status, finish_reason>>
      BY <1>3, <2>4 DEF SampleAndAdvance
    <3>3. Promise!EmitMore(s)
      BY <1>3, <2>3, <3>1, <3>2 DEF Promise!EmitMore
    <3> QED BY <3>3 DEF Promise!Next
  <2>5. CASE r # "none"
    <3>1. r \in {"eot", "length", "stop"} /\ (r = "length" => output_len[s] + 1 >= max_tokens[s])
      <4>1. \A eot, stopped \in BOOLEAN :
              LET c == CheckFinish(s, eot, stopped)
              IN  /\ c \in {"none", "eot", "length", "stop"}
                  /\ c = "length" => output_len[s] + 1 >= max_tokens[s]
        BY DEF CheckFinish
      <4> QED BY <1>3, <2>s, <2>5, <4>1 DEF Outcomes
    <3>2. /\ status' = [status EXCEPT ![s] = "FINISHED"]
          /\ finish_reason' = [finish_reason EXCEPT ![s] = r]
      BY <1>3, <2>s, <2>5 DEF SampleAndAdvance, Finish
    <3>3. phase' = [phase EXCEPT ![s] = "done"]
      BY <3>2
    <3>4. Promise!EmitLast(s, r)
      BY <1>3, <2>2, <2>3, <3>1, <3>2, <3>3 DEF Promise!EmitLast
    <3> QED BY <3>1, <3>4 DEF Promise!Next
  <2> QED BY <2>4, <2>5
<1>4. ASSUME NEW v \in Seqs, status[v] = "RUNNING", Preempt(v),
             UNCHANGED <<max_tokens, output_len, finish_reason>>
      PROVE  UNCHANGED Promise!completionVars
  <2>1. \A x \in Seqs : Phase(x)' = Phase(x)
    BY <1>4 DEF Preempt, Phase
  <2> QED BY <1>4, <2>1, <1>a
<1>5. CASE Call
  BY <1>1, <1>2, <1>5 DEF Call, Promise!Next
<1>6. CASE PrefillOne
  <2>1. PrefillOK(Head(todo)) \/ Raise
    BY <1>6 DEF PrefillOne
  <2>2. CASE PrefillOK(Head(todo))
    BY <1>3, <1>6, <2>2 DEF PrefillOne
  <2>3. CASE Raise
    BY <1>a, <2>3 DEF Raise, seqVars, Phase
  <2> QED BY <2>1, <2>2, <2>3
<1>7. CASE SampleRow
  <2>1. CASE Head(todo) \in detokenizers
    BY <1>3, <1>7, <2>1 DEF SampleRow
  <2>2. CASE Head(todo) \notin detokenizers
    BY <1>a, <1>7, <2>2 DEF SampleRow, Raise, seqVars, Phase
  <2> QED BY <2>1, <2>2
<1>8. CASE AdmitHead
  <2>1. UNCHANGED <<max_tokens, output_len, finish_reason>>
    BY <1>8 DEF AdmitHead
  <2>2. /\ Head(waiting) \in Seqs /\ status[Head(waiting)] = "WAITING"
        /\ status' = status \/ status' = [status EXCEPT ![Head(waiting)] = "RUNNING"]
    BY <1>8, AdmitHeadAllocates DEF AdmitHead
  <2>3. \A x \in Seqs : Phase(x)' = Phase(x)
    BY <2>2 DEF Phase
  <2> QED BY <1>a, <2>1, <2>3
<1>9. CASE PreemptVictim
  <2> DEFINE v == running[Max(VictimIndices(Head(todo)))]
  <2>1. v \in Seqs /\ status[v] = "RUNNING" /\ Preempt(v)
    BY <1>9, VictimOfList DEF PreemptVictim
  <2> HIDE DEF v
  <2> QED BY <1>4, <1>9, <2>1 DEF PreemptVictim
<1>10. CASE PreemptSelf
  <2>1. Head(todo) \in Seqs /\ status[Head(todo)] = "RUNNING" /\ Preempt(Head(todo))
    BY <1>10, HeadOfList DEF PreemptSelf, Claiming
  <2> QED BY <1>4, <1>10, <2>1 DEF PreemptSelf
<1>11. CASE \/ ScheduleBegin \/ SchedulePrefill \/ ScheduleDecode \/ SkipPreempted
            \/ SecureSlot \/ CapacityDone \/ Forward \/ StepEnd \/ UNCHANGED vars
  <2>1. UNCHANGED <<status, max_tokens, output_len, finish_reason>>
    BY <1>11 DEF ScheduleBegin, SchedulePrefill, ScheduleDecode, SkipPreempted, SecureSlot,
       CapacityDone, Forward, StepEnd, Raise, vars, schedVars, seqVars
  <2> QED BY <1>a, <2>1 DEF Phase
<1> QED
  BY <1>5, <1>6, <1>7, <1>8, <1>9, <1>10, <1>11
     DEF Next, Step, Bookkeeping, SchedulerStep

-----------------------------------------------------------------------------
(* The theorems.                                                           *)

\* The inductive invariant of all of them.
Inductive == Safe /\ Lists /\ Going

LEMMA InductiveHolds ==
  ASSUME 0 \notin PromptLens
  PROVE  Spec => []Inductive
<1>1. Init => Inductive
  BY InitSafe, InitLists, InitGoing DEF Inductive
<1>2. Inductive /\ [Next]_vars => Inductive'
  BY NextSafe, NextLists, NextGoing DEF Inductive
<1> QED BY <1>1, <1>2, PTL DEF Spec

\* The two lists and every status field agree, no list holds a sequence twice,
\* and whoever is not running holds no block: for every pool, batch and mix of
\* requests, empty prompts included.
THEOREM ListsMatchStatusHolds == Spec => []ListsMatchStatus
<1>1. Init => Safe /\ Lists
  BY InitSafe, InitLists
<1>2. Safe /\ Lists /\ [Next]_vars => Safe' /\ Lists'
  BY NextSafe, NextLists
<1>3. Safe /\ Lists => ListsMatchStatus
  BY DEF Lists
<1> QED
  BY <1>1, <1>2, <1>3, PTL DEF Spec

\* No assertion, index or lookup of step() fails, as long as no prompt is empty.
THEOREM StepNeverRaisesHolds ==
  ASSUME 0 \notin PromptLens
  PROVE  Spec => []StepNeverRaises
<1>1. Inductive => StepNeverRaises
  BY DEF Inductive, Going, StepNeverRaises
<1> QED BY <1>1, InductiveHolds, PTL

\* A running sequence has computed all its tokens but the one fed next.
THEOREM NextPositionHolds ==
  ASSUME 0 \notin PromptLens
  PROVE  Spec => []NextPosition
<1>1. Inductive => NextPosition
  BY DEF Inductive, Going, Progress, NextPosition
<1> QED BY <1>1, InductiveHolds, PTL

\* A running sequence holds the blocks of its tokens and no others.
THEOREM TablesMatchProgressHolds ==
  ASSUME 0 \notin PromptLens
  PROVE  Spec => []TablesMatchProgress
<1>1. Inductive => TablesMatchProgress
  BY DEF Inductive, Going, Progress, TablesMatchProgress
<1> QED BY <1>1, InductiveHolds, PTL

\* Preempted sequences stay ahead of fresh ones in the queue.
THEOREM PreemptedBeforeFreshHolds ==
  ASSUME 0 \notin PromptLens
  PROVE  Spec => []PreemptedBeforeFresh
<1>1. Init => PreemptedBeforeFresh
  BY EmptySeq DEF Init, SchedulerInit, PreemptedBeforeFresh
<1>2. Inductive /\ PreemptedBeforeFresh /\ [Next]_vars => PreemptedBeforeFresh'
  BY NextOrder DEF Inductive
<1> QED BY <1>1, <1>2, InductiveHolds, PTL DEF Spec

\* The eviction of one sequence always makes room for the claimant.
THEOREM OneEvictionSufficesHolds ==
  ASSUME 0 \notin PromptLens
  PROVE  Spec => OneEvictionSuffices
<1>1. Inductive /\ [Next]_vars => [PreemptVictim => free' # << >>]_vars
  BY EvictionFrees DEF Inductive
<1> QED BY <1>1, InductiveHolds, PTL DEF Spec, OneEvictionSuffices

\* The engine implements Completion: every step is a step of one request there,
\* or nothing a client sees.
THEOREM ImplementsCompletion ==
  ASSUME 0 \notin PromptLens
  PROVE  Spec => KeepsPromise
<1>1. Inductive /\ [Next]_vars => [Promise!Next]_(Promise!completionVars)
  BY NextPromise DEF Inductive
<1> QED BY <1>1, InitPromise, InductiveHolds, PTL DEF Spec, KeepsPromise, Promise!Spec

-----------------------------------------------------------------------------
(* No phantom OOM: counting the blocks when nobody, or only one, runs.     *)

HIDE DEF Safe, TypeOK, SchedulerTypeOK, BMTypeOK

\* A list of all blocks without repetition is as long as the pool is large.
LEMMA FullLength ==
  ASSUME NEW q \in Seq(Blocks), \A i, j \in 1 .. Len(q) : q[i] = q[j] => i = j,
         \A b \in Blocks : \E i \in 1 .. Len(q) : q[i] = b
  PROVE  Len(q) = NumBlocks
<1>1. /\ Len(q) \in Nat /\ NumBlocks \in Nat
      /\ q \in [1 .. Len(q) -> Blocks]
  BY LenProperties, BlockManagerAssumption
<1>2. ExistsBijection(1 .. Len(q), Blocks)
  BY <1>1 DEF ExistsBijection, Bijection, Injection, Surjection, IsInjective
<1>3. IsFiniteSet(1 .. Len(q)) /\ Cardinality(1 .. Len(q)) = Len(q)
  <2> DEFINE n == Len(q)
  <2>1. 1 \in Int /\ n \in Int /\ n \in Nat
    BY <1>1
  <2> HIDE DEF n
  <2>2. IsFiniteSet(1 .. n) /\ Cardinality(1 .. n) = IF 1 > n THEN 0 ELSE n - 1 + 1
    BY <2>1, FS_Interval
  <2>3. (IF 1 > n THEN 0 ELSE n - 1 + 1) = n
    BY <2>1
  <2> QED BY <2>2, <2>3 DEF n
<1>4. Cardinality(Blocks) = NumBlocks
  <2> DEFINE last == NumBlocks - 1
  <2>1. last \in Int
    BY <1>1
  <2>2. Cardinality(0 .. last) = IF 0 > last THEN 0 ELSE last - 0 + 1
    BY <2>1, FS_Interval
  <2> QED BY <1>1, <2>2 DEF Blocks
<1> QED BY <1>2, <1>3, <1>4, FS_Bijection

\* With no blocks in tables, all are free.
LEMMA PoolFree ==
  ASSUME BMTypeOK, BlockOwnership, \A s \in Seqs : block_table[s] = << >>
  PROVE  Len(free) = NumBlocks
<1>1. free \in Seq(Blocks) /\ \A s \in Seqs : Len(block_table[s]) = 0
  BY EmptySeq DEF BMTypeOK
<1>2. \A b \in Blocks : \E i \in 1 .. Len(free) : free[i] = b
  BY <1>1 DEF BlockOwnership, NoneLost
<1> QED BY <1>1, <1>2, FullLength DEF BlockOwnership, FreeDistinct

\* With none free and none in other tables, all are in one.
LEMMA PoolTaken ==
  ASSUME BMTypeOK, BlockOwnership, free = << >>,
         NEW s \in Seqs, \A x \in Seqs : x # s => block_table[x] = << >>
  PROVE  Len(block_table[s]) = NumBlocks
<1> DEFINE q == block_table[s]
<1>1. /\ q \in Seq(Blocks) /\ Len(free) = 0
      /\ \A x \in Seqs : x # s => Len(block_table[x]) = 0
  BY EmptySeq DEF BMTypeOK
<1>2. \A b \in Blocks : \E i \in 1 .. Len(q) : q[i] = b
  BY <1>1 DEF BlockOwnership, NoneLost
<1>3. \A i, j \in 1 .. Len(q) : q[i] = q[j] => i = j
  BY DEF BlockOwnership, TablesDistinct
<1> HIDE DEF q
<1>4. Len(q) = NumBlocks
  BY <1>1, <1>2, <1>3, FullLength
<1> QED BY <1>4 DEF q

\* A decode step that has evicted everyone has a request too large in front.
EmptiedByUnfit ==
    pc = "capacity" /\ running = << >> =>
      /\ waiting # << >>
      /\ BlocksNeeded(NumTokens(Head(waiting))) > NumBlocks

LEMMA SelfEvictedUnfit ==
  ASSUME Inductive, PreemptSelf
  PROVE  EmptiedByUnfit'
<1> USE DEF Inductive
<1>1. pc = "capacity" /\ todo # << >>
  BY DEF PreemptSelf, Claiming
<1>s. PICK s \in Seqs : s = Head(todo)
  BY <1>1, HeadOfList DEF Safe, TypeOK, SchedulerTypeOK
<1>2. /\ status[s] = "RUNNING" /\ VictimIndices(s) = {}
      /\ ~ CanAppendSlot(s, num_computed[s])
      /\ waiting' = <<s>> \o waiting
      /\ UNCHANGED <<prompt_len, output_len>>
  BY <1>s DEF PreemptSelf, Claiming, Preempt
<1>3. ASSUME NEW x \in Seqs, x # s PROVE block_table[x] = << >>
  <2>1. ~ (status[x] = "RUNNING" /\ Contains(running, x))
    <3> SUFFICES ASSUME status[x] = "RUNNING", NEW i \in 1 .. Len(running), running[i] = x
                 PROVE  FALSE
      BY DEF Contains
    <3>1. i \in VictimIndices(s)
      BY <1>3 DEF VictimIndices
    <3> QED BY <1>2, <3>1
  <2> QED BY <1>1, <2>1 DEF Lists, ListsMatchStatus
<1>4. free = << >> /\ ~ HasSlot(s, num_computed[s])
  BY <1>2 DEF CanAppendSlot
<1>5. Len(block_table[s]) = NumBlocks
  BY <1>3, <1>4, PoolTaken DEF Safe, TypeOK, SchedulerTypeOK
<1>6. num_computed[s] + 1 = NumTokens(s)
  <2>1. Progress(s) /\ ~ Unprefilled(s) /\ ~ Unsampled(s)
    BY <1>1 DEF Going, Unprefilled, Unsampled
  <2>2. num_computed[s] = NumTokens(s) - 1
    BY <1>2, <2>1 DEF Progress
  <2>3. NumTokens(s) \in Nat
    BY DEF NumTokens, Safe, TypeOK, SchedulerTypeOK
  <2> QED BY <2>2, <2>3
<1>7. BlocksNeeded(NumTokens(s)) > NumBlocks
  <2>1. NumTokens(s) \in Nat
    BY DEF NumTokens, Safe, TypeOK, SchedulerTypeOK
  <2>2. BlocksNeeded(NumTokens(s)) \in Nat /\ NumBlocks \in Nat
    BY <2>1, BlocksNeededNat, BlockManagerAssumption
  <2> QED BY <1>4, <1>5, <1>6, <2>2 DEF HasSlot
<1>8. waiting' # << >> /\ Head(waiting') = s
  <2>1. waiting \in Seq(Seqs)
    BY DEF Safe, TypeOK, SchedulerTypeOK
  <2> QED BY <1>2, <2>1
<1>9. NumTokens(s)' = NumTokens(s)
  BY <1>2 DEF NumTokens
<1> QED BY <1>7, <1>8, <1>9 DEF EmptiedByUnfit, BlocksNeeded

LEMMA NextUnfit ==
  ASSUME Inductive, EmptiedByUnfit, [Next]_vars
  PROVE  EmptiedByUnfit'
<1>1. CASE \/ pc' # "capacity"
           \/ UNCHANGED <<pc, running, waiting, prompt_len, output_len>>
  BY <1>1 DEF EmptiedByUnfit, NumTokens, BlocksNeeded
<1>2. CASE PreemptSelf
  BY <1>2, SelfEvictedUnfit
<1>3. CASE PreemptVictim
  <2>1. pc = "capacity" /\ todo # << >> /\ status[Head(todo)] = "RUNNING"
    BY <1>3 DEF PreemptVictim, Claiming
  <2>s. PICK s \in Seqs : s = Head(todo)
    BY <2>1, HeadOfList DEF Inductive, Safe, TypeOK, SchedulerTypeOK
  <2>2. PICK v \in Seqs : status[v] = "RUNNING" /\ v # s /\ Preempt(v)
    <3> DEFINE v == running[Max(VictimIndices(Head(todo)))]
    <3>1. v \in Seqs /\ status[v] = "RUNNING" /\ v # s
      BY <1>3, <2>s, VictimOfList DEF PreemptVictim, Inductive, Safe, TypeOK
    <3>2. Preempt(v)
      BY <1>3 DEF PreemptVictim
    <3> QED BY <3>1, <3>2
  <2>3. Contains(running', s)
    BY <2>1, <2>s, <2>2, PreemptLists DEF Inductive, Lists, ListsMatchStatus
  <2> QED BY <2>3, EmptyHolds DEF EmptiedByUnfit
<1>4. CASE ScheduleDecode
  BY <1>4 DEF ScheduleDecode, EmptiedByUnfit
<1>5. CASE Call
  <2>1. pc' = pc /\ pc \in {"idle", "raised"}
    BY <1>5 DEF Call, AddRequest, CancelRequest
  <2> QED BY <1>1, <2>1
<1>6. CASE PrefillOne \/ Forward \/ SampleRow \/ StepEnd
  <2>1. pc' # "capacity"
    BY <1>6 DEF PrefillOne, Forward, SampleRow, StepEnd, Raise
  <2> QED BY <1>1, <2>1
<1>7. CASE ScheduleBegin \/ AdmitHead \/ SchedulePrefill \/ CapacityDone
  <2>1. pc' # "capacity"
    BY <1>7 DEF ScheduleBegin, AdmitHead, SchedulePrefill, CapacityDone
  <2> QED BY <1>1, <2>1
<1>8. CASE SkipPreempted \/ SecureSlot \/ UNCHANGED vars
  <2>1. UNCHANGED <<pc, running, waiting, prompt_len, output_len>>
    BY <1>8 DEF SkipPreempted, SecureSlot, vars, schedVars, seqVars
  <2> QED BY <1>1, <2>1
<1> QED
  BY <1>2, <1>3, <1>4, <1>5, <1>6, <1>7, <1>8
     DEF Next, Step, Bookkeeping, SchedulerStep

LEMMA StallExplained ==
  ASSUME Inductive, EmptiedByUnfit, Next,
         pc = "admit" \/ pc = "capacity", pc' = "idle"
  PROVE  /\ running = << >> /\ Len(free) = NumBlocks
         /\ waiting # << >> => BlocksNeeded(NumTokens(Head(waiting))) > NumBlocks
<1> USE DEF Inductive
<1>1. ScheduleDecode \/ CapacityDone
  <2>1. ~ Call
    BY DEF Call, AddRequest, CancelRequest
  <2>2. ~ (PrefillOne \/ Forward \/ SampleRow \/ StepEnd)
    BY DEF PrefillOne, Forward, SampleRow, StepEnd
  <2>3. ~ (ScheduleBegin \/ AdmitHead \/ SchedulePrefill)
    BY DEF ScheduleBegin, AdmitHead, SchedulePrefill
  <2>4. ~ (SkipPreempted \/ SecureSlot \/ PreemptVictim \/ PreemptSelf)
    BY DEF SkipPreempted, SecureSlot, PreemptVictim, PreemptSelf, Claiming
  <2> QED BY <2>1, <2>2, <2>3, <2>4 DEF Next, Step, Bookkeeping, SchedulerStep
<1>2. running = << >> /\ todo = << >>
  BY <1>1 DEF ScheduleDecode, CapacityDone
<1>3. \A x \in Seqs : block_table[x] = << >>
  BY <1>2, EmptyHolds DEF Lists, ListsMatchStatus
<1>4. Len(free) = NumBlocks
  BY <1>3, PoolFree DEF Safe, TypeOK, SchedulerTypeOK
<1>5. ASSUME waiting # << >> PROVE BlocksNeeded(NumTokens(Head(waiting))) > NumBlocks
  <2>1. CASE CapacityDone
    BY <1>2, <2>1 DEF CapacityDone, EmptiedByUnfit
  <2>2. CASE ScheduleDecode
    <3>1. BatchHasRoom
      <4>1. Len(running) = 0 /\ Len(todo) = 0
        BY <1>2, EmptySeq
      <4> QED BY <4>1, SchedulerAssumption DEF BatchHasRoom
    <3>2. ~ CanAllocate(NumTokens(Head(waiting)))
      BY <1>5, <2>2, <3>1 DEF ScheduleDecode, HeadFits
    <3>3. NumTokens(Head(waiting)) \in Nat
      BY <1>5, HeadOfList DEF NumTokens, Safe, TypeOK, SchedulerTypeOK
    <3>4. BlocksNeeded(NumTokens(Head(waiting))) \in Nat /\ NumBlocks \in Nat
      BY <3>3, BlocksNeededNat, BlockManagerAssumption
    <3> QED BY <1>4, <3>2, <3>4 DEF CanAllocate
  <2> QED BY <1>1, <2>1, <2>2
<1> QED BY <1>2, <1>4, <1>5

\* A step with work to do comes back empty-handed only if the whole pool is free
\* and the request in front is larger than it.
THEOREM StallOnlyIfUnfitHolds ==
  ASSUME 0 \notin PromptLens
  PROVE  Spec => StallOnlyIfUnfit
<1>1. Init => EmptiedByUnfit
  BY DEF Init, SchedulerInit, EmptiedByUnfit
<1>2. Inductive /\ EmptiedByUnfit /\ [Next]_vars => EmptiedByUnfit'
  BY NextUnfit
<1>3. Inductive /\ EmptiedByUnfit /\ [Next]_vars =>
        [ (pc = "admit" \/ pc = "capacity") /\ pc' = "idle" =>
            /\ running = << >> /\ Len(free) = NumBlocks
            /\ waiting # << >> => BlocksNeeded(NumTokens(Head(waiting))) > NumBlocks ]_vars
  BY StallExplained
<1> QED BY <1>1, <1>2, <1>3, InductiveHolds, PTL DEF Spec, StallOnlyIfUnfit
=============================================================================
