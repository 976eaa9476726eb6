------------------------- MODULE PagedEngine_proofs -------------------------
(***************************************************************************)
(* The KV pool under the engine, for every pool, block size, batch limit   *)
(* and mix of requests: ownership of blocks and the positions of running   *)
(* sequences, carried over to what the slots of the pool hold.             *)
(***************************************************************************)
EXTENDS PagedEngine, LLMEngine_proofs

HIDE DEF Safe, TypeOK, SchedulerTypeOK, BMTypeOK, Contains

-----------------------------------------------------------------------------
(* Slots: a position is a block of the table and an offset in it.          *)

\* The block of a position that the table covers.
LEMMA BlockOfPosition ==
  ASSUME Safe, NEW s \in Seqs, NEW p \in Nat, p < Len(block_table[s]) * BlockSize
  PROVE  /\ p \div BlockSize \in Nat
         /\ p \div BlockSize < Len(block_table[s])
         /\ p \div BlockSize + 1 \in 1 .. Len(block_table[s])
         /\ p % BlockSize \in 0 .. BlockSize - 1
         /\ block_table[s][p \div BlockSize + 1] \in Blocks
<1> DEFINE b == BlockSize
           q == p \div b
           n == Len(block_table[s])
<1>1. b \in Nat \ {0}
  BY BlockManagerAssumption
<1>2. n \in Nat /\ block_table[s] \in Seq(Blocks)
  BY LenProperties DEF Safe, TypeOK, SchedulerTypeOK, BMTypeOK
<1>3. q \in Nat /\ p % b \in 0 .. b - 1 /\ p = b * q + (p % b)
  BY <1>1, DivMod
<1>4. p < n * b
  OBVIOUS
<1> HIDE DEF b, q, n
<1>5. q < n
  <2> SUFFICES ASSUME n <= q PROVE FALSE
    BY <1>2, <1>3
  <2>1. n * b <= b * q
    BY <1>1, <1>2, <1>3
  <2>2. b * q \in Nat /\ n * b \in Nat
    BY <1>1, <1>2, <1>3
  <2> QED BY <1>1, <1>3, <1>4, <2>1, <2>2
<1>6. q + 1 \in 1 .. n
  BY <1>2, <1>3, <1>5
<1>7. block_table[s][q + 1] \in Blocks
  BY <1>2, <1>6, ElementOfSeq DEF n
<1> QED BY <1>3, <1>5, <1>6, <1>7 DEF b, q, n

LEMMA SlotInPool ==
  ASSUME Safe, NEW s \in Seqs, NEW p \in Nat, p < Len(block_table[s]) * BlockSize
  PROVE  SlotFor(s, p) \in Slots
<1> DEFINE b == BlockSize
           x == block_table[s][p \div b + 1]
           m == p % b
<1>1. b \in Nat \ {0} /\ NumBlocks \in Nat
  BY BlockManagerAssumption
<1>2. x \in Blocks /\ m \in 0 .. b - 1
  BY BlockOfPosition
<1>3. SlotFor(s, p) = x * b + m
  BY DEF SlotFor
<1> HIDE DEF b, x, m
<1>4. x \in Nat /\ x + 1 <= NumBlocks
  BY <1>1, <1>2 DEF Blocks
<1>5. (x + 1) * b <= NumBlocks * b
  BY <1>1, <1>4
<1>6. (x + 1) * b = x * b + b /\ x * b \in Nat /\ NumBlocks * b \in Nat
  BY <1>1, <1>4
<1>7. x * b + m \in 0 .. NumBlocks * b - 1
  BY <1>1, <1>2, <1>5, <1>6
<1> QED BY <1>3, <1>7 DEF Slots, b

\* No two positions, of one sequence or of two, share a slot.
LEMMA SlotsDistinct ==
  ASSUME Safe,
         NEW s \in Seqs, NEW p \in Nat, p < Len(block_table[s]) * BlockSize,
         NEW t \in Seqs, NEW q \in Nat, q < Len(block_table[t]) * BlockSize,
         SlotFor(s, p) = SlotFor(t, q)
  PROVE  s = t /\ p = q
<1> DEFINE b == BlockSize
           x == block_table[s][p \div b + 1]
           y == block_table[t][q \div b + 1]
<1>1. b \in Nat \ {0} /\ NumBlocks \in Nat
  BY BlockManagerAssumption
<1>2. /\ x \in Blocks /\ p % b \in 0 .. b - 1
      /\ p \div b + 1 \in 1 .. Len(block_table[s])
  BY BlockOfPosition
<1>3. /\ y \in Blocks /\ q % b \in 0 .. b - 1
      /\ q \div b + 1 \in 1 .. Len(block_table[t])
  BY BlockOfPosition
<1>4. x * b + (p % b) = y * b + (q % b)
  BY DEF SlotFor
<1>5. x \in Nat /\ y \in Nat
  BY <1>1, <1>2, <1>3 DEF Blocks
<1>6. x = y /\ p % b = q % b
  <2> DEFINE m == p % b
             n == q % b
  <2> HIDE DEF b, x, y, m, n
  <2>1. /\ b \in Nat \ {0} /\ m \in 0 .. b - 1 /\ n \in 0 .. b - 1
        /\ x * b + m = y * b + n
    BY <1>1, <1>2, <1>3, <1>4 DEF m, n
  <2>2. x = y /\ m = n
    BY <1>5, <2>1, SlotParts
  <2> QED BY <2>2 DEF m, n
<1>7. s = t /\ p \div b + 1 = q \div b + 1
  BY <1>2, <1>3, <1>6 DEF Safe, BlockOwnership, TablesDistinct
<1>8. /\ p \div b \in Nat /\ p = b * (p \div b) + (p % b)
      /\ q \div b \in Nat /\ q = b * (q \div b) + (q % b)
  BY <1>1, DivMod
<1>9. p \div b = q \div b
  BY <1>7, <1>8
<1> QED BY <1>6, <1>7, <1>8, <1>9

\* The table of a running sequence covers what it has computed, and when it is
\* about to be fed, the slot of the next position, too.
LEMMA ComputedCovered ==
  ASSUME Safe, Going, NEW s \in Seqs, status[s] = "RUNNING"
  PROVE  /\ num_computed[s] \in Nat
         /\ \A p \in Nat : p < num_computed[s] => p < Len(block_table[s]) * BlockSize
         /\ pc = "forward" => num_computed[s] < Len(block_table[s]) * BlockSize
<1> DEFINE n == num_computed[s]
           m == Len(block_table[s])
           b == BlockSize
<1>1. n \in Nat /\ m \in Nat /\ b \in Nat \ {0}
  BY LenProperties, BlockManagerAssumption DEF Safe, TypeOK, SchedulerTypeOK, BMTypeOK
<1>2. n + 1 \in Nat /\ n <= n + 1
  BY <1>1
<1>3. /\ BlocksNeeded(n) \in Nat /\ BlocksNeeded(n + 1) \in Nat
      /\ BlocksNeeded(n) <= BlocksNeeded(n + 1)
      /\ n <= BlocksNeeded(n) * b /\ n + 1 <= BlocksNeeded(n + 1) * b
  BY <1>1, <1>2, BlocksNeededNat, BlocksMonotone, BlocksHold
<1>4. /\ n = 0 \/ BlocksNeeded(n) <= m
      /\ pc = "forward" => BlocksNeeded(n + 1) <= m
  <2>1. /\ n = 0 \/ ~ Unprefilled(s)
        /\ Unprefilled(s) \/ m = BlocksNeeded(n) \/ m = BlocksNeeded(n + 1)
        /\ pc = "forward" => BlocksNeeded(n + 1) <= m
    BY DEF Going, Progress, HasSlot
  <2> QED BY <1>1, <1>3, <2>1
<1> HIDE DEF n, m, b
<1>5. ASSUME NEW k \in Nat, k <= m PROVE k * b <= m * b
  BY <1>1, <1>5
<1>6. m * b \in Nat /\ BlocksNeeded(n) * b \in Nat /\ BlocksNeeded(n + 1) * b \in Nat
  BY <1>1, <1>3
<1>7. n = 0 \/ n <= m * b
  BY <1>1, <1>3, <1>4, <1>5, <1>6
<1>8. pc = "forward" => n < m * b
  BY <1>1, <1>3, <1>4, <1>5, <1>6
<1>9. \A p \in Nat : p < n => p < m * b
  BY <1>1, <1>6, <1>7
<1> QED BY <1>1, <1>8, <1>9 DEF n, m, b

-----------------------------------------------------------------------------
(* What the two scatters write.                                            *)

LEMMA PrefillWrites ==
  ASSUME Safe, NEW s \in Seqs, s = Head(todo), PrefillLen(s) \in Nat,
         PrefillLen(s) <= Len(block_table[s]) * BlockSize, WritePrefill
  PROVE  /\ \A p \in 0 .. PrefillLen(s) - 1 : kv_pool'[SlotFor(s, p)] = <<s, p>>
         /\ \A k \in Slots :
              (\A p \in 0 .. PrefillLen(s) - 1 : SlotFor(s, p) # k) =>
                kv_pool'[k] = kv_pool[k]
<1> DEFINE slotOf == [i \in 0 .. PrefillLen(s) - 1 |-> SlotFor(s, i)]
<1>1. kv_pool' = [k \in Slots |->
          IF \E i \in DOMAIN slotOf : slotOf[i] = k
          THEN <<s, CHOOSE i \in DOMAIN slotOf : slotOf[i] = k>>
          ELSE kv_pool[k]]
  BY DEF WritePrefill
<1>2. ASSUME NEW p \in 0 .. PrefillLen(s) - 1
      PROVE  p \in Nat /\ p < Len(block_table[s]) * BlockSize
  <2>1. Len(block_table[s]) \in Nat /\ BlockSize \in Nat
    BY LenProperties, BlockManagerAssumption DEF Safe, TypeOK, SchedulerTypeOK, BMTypeOK
  <2>2. Len(block_table[s]) * BlockSize \in Nat
    BY <2>1
  <2> QED BY <2>2
<1>3. DOMAIN slotOf = 0 .. PrefillLen(s) - 1
  OBVIOUS
<1>4. \A p \in 0 .. PrefillLen(s) - 1 : slotOf[p] = SlotFor(s, p)
  OBVIOUS
<1> HIDE DEF slotOf
<1>5. ASSUME NEW p \in 0 .. PrefillLen(s) - 1
      PROVE  kv_pool'[SlotFor(s, p)] = <<s, p>>
  <2> DEFINE k == SlotFor(s, p)
             c == CHOOSE i \in DOMAIN slotOf : slotOf[i] = k
  <2>1. k \in Slots
    BY <1>2, SlotInPool
  <2>2. p \in DOMAIN slotOf /\ slotOf[p] = k
    BY <1>3, <1>4
  <2>3. c \in DOMAIN slotOf /\ slotOf[c] = k
    BY <2>2
  <2>4. kv_pool'[k] = <<s, c>>
    BY <1>1, <2>1, <2>2
  <2> HIDE DEF c
  <2>5. c \in 0 .. PrefillLen(s) - 1 /\ SlotFor(s, c) = SlotFor(s, p)
    BY <1>3, <1>4, <2>3
  <2>6. c = p
    BY <1>2, <2>5, SlotsDistinct
  <2> QED BY <2>4, <2>6
<1>6. ASSUME NEW k \in Slots, \A p \in 0 .. PrefillLen(s) - 1 : SlotFor(s, p) # k
      PROVE  kv_pool'[k] = kv_pool[k]
  BY <1>1, <1>3, <1>4, <1>6
<1> QED BY <1>5, <1>6

LEMMA DecodeWrites ==
  ASSUME Safe, Lists, Going, pc = "forward", WriteDecode
  PROVE  /\ \A x \in Seqs : Contains(todo, x) =>
              kv_pool'[DecodeSlot(x)] = <<x, FedToken(x)>>
         /\ \A k \in Slots :
              (\A x \in Seqs : Contains(todo, x) => DecodeSlot(x) # k) =>
                kv_pool'[k] = kv_pool[k]
<1> DEFINE written == { DecodeSlot(todo[i]) : i \in 1 .. Len(todo) }
<1>1. PICK row \in [written -> 1 .. Len(todo)] :
        /\ \A k \in written : DecodeSlot(todo[row[k]]) = k
        /\ kv_pool' = [k \in Slots |->
               IF k \in written THEN <<todo[row[k]], FedToken(todo[row[k]])>>
               ELSE kv_pool[k]]
  BY DEF WriteDecode
<1>2. \A i \in 1 .. Len(todo) : todo[i] \in Seqs /\ Contains(todo, todo[i])
  BY ElementOfSeq DEF Safe, TypeOK, SchedulerTypeOK, Contains
<1>3. ASSUME NEW x \in Seqs, Contains(todo, x)
      PROVE  /\ num_computed[x] \in Nat
             /\ num_computed[x] < Len(block_table[x]) * BlockSize
  <2>1. status[x] = "RUNNING"
    BY <1>3 DEF Lists, ListsMatchStatus, TodoIsRunning
  <2> QED BY <2>1, ComputedCovered
<1>4. ASSUME NEW x \in Seqs, Contains(todo, x)
      PROVE  kv_pool'[DecodeSlot(x)] = <<x, FedToken(x)>>
  <2> DEFINE k == DecodeSlot(x)
             y == todo[row[k]]
  <2>1. k \in Slots
    BY <1>3, <1>4, SlotInPool DEF DecodeSlot
  <2>2. k \in written
    BY <1>4 DEF Contains
  <2>3. y \in Seqs /\ Contains(todo, y) /\ DecodeSlot(y) = k
    BY <1>1, <1>2, <2>2
  <2>4. kv_pool'[k] = <<y, FedToken(y)>>
    BY <1>1, <2>1, <2>2
  <2> HIDE DEF k, y
  <2>5. y = x
    BY <1>3, <1>4, <2>3, SlotsDistinct DEF DecodeSlot, k
  <2> QED BY <2>4, <2>5 DEF k
<1>5. ASSUME NEW k \in Slots, \A x \in Seqs : Contains(todo, x) => DecodeSlot(x) # k
      PROVE  kv_pool'[k] = kv_pool[k]
  <2>1. k \notin written
    BY <1>2, <1>5
  <2> QED BY <1>1, <2>1
<1> QED BY <1>4, <1>5

-----------------------------------------------------------------------------
(* Each step keeps the cache of every running sequence.                    *)

LEMMA PagedPrefillHolds ==
  ASSUME Inductive, CacheHoldsOwnTokens, PagedPrefill
  PROVE  CacheHoldsOwnTokens'
<1> USE DEF Inductive
<1>1. pc = "prefill" /\ todo # << >>
  BY DEF PagedPrefill, PrefillOne
<1>s. PICK s \in Seqs : s = Head(todo)
  BY <1>1, HeadOfList DEF Safe, TypeOK, SchedulerTypeOK
<1>2. PrefillOK(s)
  <2>1. pc' # "raised"
    BY PrefillOneGoing DEF PagedPrefill, Going
  <2> QED BY <1>s, <2>1 DEF PagedPrefill, PrefillOne, Raise
<1>3. PICK r \in Outcomes(s) : SampleAndAdvance(s, r)
  BY <1>s, <1>2 DEF PagedPrefill, PrefillOne
<1>4. /\ num_computed' = [num_computed EXCEPT ![s] = PrefillLen(s)]
      /\ todo' = Tail(todo) /\ WritePrefill
  BY <1>s, <1>2 DEF PagedPrefill, PrefillOne
<1>5. /\ PrefillLen(s) \in Nat
      /\ PrefillLen(s) <= Len(block_table[s]) * BlockSize
  BY <1>2 DEF PrefillOK, PrefillLen, NumTokens, Safe, TypeOK, SchedulerTypeOK
<1>6. /\ \A p \in 0 .. PrefillLen(s) - 1 : kv_pool'[SlotFor(s, p)] = <<s, p>>
      /\ \A k \in Slots :
           (\A p \in 0 .. PrefillLen(s) - 1 : SlotFor(s, p) # k) => kv_pool'[k] = kv_pool[k]
  BY <1>s, <1>4, <1>5, PrefillWrites
<1>7. /\ \A x \in Seqs : x # s =>
           status'[x] = status[x] /\ block_table'[x] = block_table[x]
      /\ \/ status'[s] = "FINISHED"
         \/ block_table'[s] = block_table[s]
  BY <1>1, <1>s, <1>3, <1>4, RowEffect
<1>8. num_computed \in [Seqs -> Nat] /\ Len(block_table[s]) * BlockSize \in Nat
  <2>1. Len(block_table[s]) \in Nat /\ BlockSize \in Nat
    BY LenProperties, BlockManagerAssumption DEF Safe, TypeOK, SchedulerTypeOK, BMTypeOK
  <2> QED BY <2>1 DEF Safe, TypeOK, SchedulerTypeOK
<1>9. ASSUME NEW x \in Seqs, status'[x] = "RUNNING", NEW p \in 0 .. num_computed'[x] - 1
      PROVE  kv_pool'[SlotFor(x, p)'] = <<x, p>>
  <2>1. SlotFor(x, p)' = SlotFor(x, p)
    BY <1>7, <1>9 DEF SlotFor
  <2>2. CASE x = s
    BY <1>4, <1>6, <1>8, <2>1, <2>2
  <2>3. CASE x # s
    <3>1. status[x] = "RUNNING" /\ num_computed'[x] = num_computed[x]
      BY <1>4, <1>7, <1>8, <1>9, <2>3
    <3>2. p \in Nat /\ p < num_computed[x] /\ p \in 0 .. num_computed[x] - 1
      BY <1>8, <3>1
    <3>3. p < Len(block_table[x]) * BlockSize
      BY <3>1, <3>2, ComputedCovered
    <3>4. kv_pool[SlotFor(x, p)] = <<x, p>>
      BY <3>1, <3>2 DEF CacheHoldsOwnTokens
    <3>5. ASSUME NEW i \in 0 .. PrefillLen(s) - 1 PROVE SlotFor(s, i) # SlotFor(x, p)
      <4>1. i \in Nat /\ i < Len(block_table[s]) * BlockSize
        BY <1>5, <1>8
      <4> QED BY <2>3, <3>2, <3>3, <4>1, SlotsDistinct
    <3>6. SlotFor(x, p) \in Slots
      BY <3>2, <3>3, SlotInPool
    <3> QED BY <1>6, <2>1, <3>4, <3>5, <3>6
  <2> QED BY <2>2, <2>3
<1> QED BY <1>9 DEF CacheHoldsOwnTokens

LEMMA PagedForwardHolds ==
  ASSUME Inductive, CacheHoldsOwnTokens, PagedForward
  PROVE  CacheHoldsOwnTokens'
<1> USE DEF Inductive
<1>1. pc = "forward"
  BY DEF PagedForward, Forward
<1>2. \A i \in 1 .. Len(todo) : DecodeOK(todo[i])
  <2>1. pc' # "raised"
    BY ForwardGoing DEF PagedForward, Going
  <2> QED BY <2>1 DEF PagedForward, Forward, Raise
<1>3. /\ num_computed' = [s \in Seqs |->
           IF Contains(todo, s) THEN num_computed[s] + 1 ELSE num_computed[s]]
      /\ UNCHANGED <<block_table, status>>
      /\ WriteDecode
  BY <1>2 DEF PagedForward, Forward, bmVars
<1>4. /\ \A x \in Seqs : Contains(todo, x) =>
              kv_pool'[DecodeSlot(x)] = <<x, FedToken(x)>>
      /\ \A k \in Slots :
              (\A x \in Seqs : Contains(todo, x) => DecodeSlot(x) # k) =>
                kv_pool'[k] = kv_pool[k]
  BY <1>1, <1>3, DecodeWrites
<1>5. ASSUME NEW x \in Seqs, status[x] = "RUNNING", NEW p \in 0 .. num_computed'[x] - 1
      PROVE  kv_pool'[SlotFor(x, p)'] = <<x, p>>
  <2>1. SlotFor(x, p)' = SlotFor(x, p)
    BY <1>3 DEF SlotFor
  <2>2. /\ num_computed[x] \in Nat /\ Contains(todo, x)
        /\ num_computed[x] = NumTokens(x) - 1
    BY <1>1, <1>5 DEF Going, Progress, Unprefilled, Unsampled, Safe, TypeOK, SchedulerTypeOK
  <2>3. num_computed'[x] = num_computed[x] + 1
    BY <1>3, <2>2
  <2>4. CASE p = num_computed[x]
    <3>1. SlotFor(x, p) = DecodeSlot(x) /\ FedToken(x) = p
      BY <2>2, <2>4 DEF DecodeSlot, FedToken
    <3> QED BY <1>4, <2>1, <2>2, <3>1
  <2>5. CASE p # num_computed[x]
    <3>1. p \in Nat /\ p < num_computed[x] /\ p \in 0 .. num_computed[x] - 1
      BY <2>2, <2>3, <2>5
    <3>2. p < Len(block_table[x]) * BlockSize
      BY <1>5, <3>1, ComputedCovered
    <3>3. kv_pool[SlotFor(x, p)] = <<x, p>>
      BY <1>5, <3>1 DEF CacheHoldsOwnTokens
    <3>4. ASSUME NEW y \in Seqs, Contains(todo, y) PROVE DecodeSlot(y) # SlotFor(x, p)
      <4>1. status[y] = "RUNNING"
        BY <1>1, <3>4 DEF Lists, ListsMatchStatus, TodoIsRunning
      <4>2. num_computed[y] \in Nat /\ num_computed[y] < Len(block_table[y]) * BlockSize
        BY <1>1, <4>1, ComputedCovered
      <4> QED BY <2>5, <3>1, <3>2, <4>2, SlotsDistinct DEF DecodeSlot
    <3>5. SlotFor(x, p) \in Slots
      BY <3>1, <3>2, SlotInPool
    <3> QED BY <1>4, <2>1, <3>3, <3>4, <3>5
  <2> QED BY <2>4, <2>5
<1> QED BY <1>3, <1>5 DEF CacheHoldsOwnTokens

-----------------------------------------------------------------------------
(* The other steps write nothing, and whoever runs after one of them with  *)
(* something computed ran before it, with as much computed and in the same *)
(* blocks; only new blocks may have been appended.                         *)

RunningKept ==
    \A x \in Seqs : status'[x] = "RUNNING" /\ num_computed'[x] # 0 =>
      /\ status[x] = "RUNNING" /\ num_computed'[x] = num_computed[x]
      /\ \A i \in 1 .. Len(block_table[x]) : block_table'[x][i] = block_table[x][i]

LEMMA KeptHolds ==
  ASSUME Inductive, CacheHoldsOwnTokens, UNCHANGED kv_pool, RunningKept, Safe'
  PROVE  CacheHoldsOwnTokens'
<1> USE DEF Inductive
<1>1. num_computed' \in [Seqs -> Nat]
  BY DEF Safe, TypeOK, SchedulerTypeOK
<1>2. ASSUME NEW x \in Seqs, status'[x] = "RUNNING", NEW p \in 0 .. num_computed'[x] - 1
      PROVE  kv_pool'[SlotFor(x, p)'] = <<x, p>>
  <2>1. num_computed'[x] # 0 /\ num_computed'[x] \in Nat
    BY <1>1
  <2>2. /\ status[x] = "RUNNING" /\ num_computed'[x] = num_computed[x]
        /\ \A i \in 1 .. Len(block_table[x]) : block_table'[x][i] = block_table[x][i]
    BY <1>2, <2>1 DEF RunningKept
  <2>3. p \in Nat /\ p < num_computed[x] /\ p \in 0 .. num_computed[x] - 1
    BY <2>1, <2>2
  <2>4. p < Len(block_table[x]) * BlockSize
    BY <2>2, <2>3, ComputedCovered
  <2>5. p \div BlockSize + 1 \in 1 .. Len(block_table[x])
    BY <2>3, <2>4, BlockOfPosition
  <2>6. SlotFor(x, p)' = SlotFor(x, p)
    BY <2>2, <2>5 DEF SlotFor
  <2>7. kv_pool[SlotFor(x, p)] = <<x, p>>
    BY <2>2, <2>3 DEF CacheHoldsOwnTokens
  <2> QED BY <2>6, <2>7
<1> QED BY <1>2 DEF CacheHoldsOwnTokens

LEMMA CallKeeps ==
  ASSUME Inductive, Call
  PROVE  RunningKept
<1> USE DEF Inductive
<1>1. ASSUME NEW s \in Seqs, NEW p \in PromptLens, NEW m \in MaxTokensValues,
             AddRequest(s, p, m)
      PROVE  RunningKept
  <2>1. /\ status' = [status EXCEPT ![s] = "WAITING"]
        /\ UNCHANGED <<block_table, num_computed>>
    BY <1>1 DEF AddRequest, Enqueue, bmVars
  <2>2. status \in [Seqs -> Statuses]
    BY DEF Safe, TypeOK, SchedulerTypeOK
  <2> QED BY <2>1, <2>2 DEF RunningKept
<1>2. ASSUME NEW s \in Seqs, CancelRequest(s)
      PROVE  RunningKept
  <2>1. UNCHANGED num_computed
    BY <1>2 DEF CancelRequest
  <2>2. status \in [Seqs -> Statuses] /\ block_table \in [Seqs -> Seq(Blocks)]
    BY DEF Safe, TypeOK, SchedulerTypeOK, BMTypeOK
  <2>3. CASE Finish(s, "cancelled")
    BY <2>1, <2>2, <2>3 DEF Finish, Free, RunningKept
  <2>4. CASE status' = [status EXCEPT ![s] = "FINISHED"] /\ UNCHANGED bmVars
    BY <2>1, <2>2, <2>4 DEF bmVars, RunningKept
  <2>5. CASE UNCHANGED <<bmVars, status>>
    BY <2>1, <2>5 DEF bmVars, RunningKept
  <2> QED BY <1>2, <2>3, <2>4, <2>5 DEF CancelRequest, CancelById
<1> QED BY <1>1, <1>2 DEF Call

LEMMA PreemptKeeps ==
  ASSUME Inductive, NEW v \in Seqs, status[v] = "RUNNING", pc = "capacity", Preempt(v)
  PROVE  RunningKept
<1>1. \A x \in Seqs :
        /\ status'[x] = IF x = v THEN "WAITING" ELSE status[x]
        /\ block_table'[x] = IF x = v THEN << >> ELSE block_table[x]
        /\ num_computed'[x] = IF x = v THEN 0 ELSE num_computed[x]
  BY PreemptLists DEF Inductive, Lists
<1> QED BY <1>1 DEF RunningKept

LEMMA AdmitHeadKeeps ==
  ASSUME Inductive, AdmitHead
  PROVE  RunningKept
<1> USE DEF Inductive
<1>s. PICK s \in Seqs : s = Head(waiting)
  BY AdmitHeadAllocates
<1>1. /\ status[s] = "WAITING" /\ block_table[s] = << >> /\ NumTokens(s) \in Nat
      /\ BlocksNeeded(NumTokens(s)) \in 0 .. Len(free)
      /\ AllocateAsserts(s, NumTokens(s))
  BY <1>s, AdmitHeadAllocates
<1>2. /\ Allocate(s, NumTokens(s))
      /\ status' = [status EXCEPT ![s] = "RUNNING"]
      /\ UNCHANGED num_computed
  BY <1>s, <1>1 DEF AdmitHead
<1>3. \A x \in Seqs : x # s => block_table'[x] = block_table[x]
  BY <1>1, <1>2, AllocateTable
<1>4. num_computed[s] = 0
  BY <1>1 DEF Going, Progress
<1>5. status \in [Seqs -> Statuses]
  BY DEF Safe, TypeOK, SchedulerTypeOK
<1> QED BY <1>2, <1>3, <1>4, <1>5 DEF RunningKept

LEMMA SecureSlotKeeps ==
  ASSUME Inductive, SecureSlot
  PROVE  RunningKept
<1> USE DEF Inductive
<1>s. PICK s \in Seqs : s = Head(todo)
  BY SecureSlotTables
<1>1. /\ CanAppendSlot(s, num_computed[s]) /\ AppendSlot(s, num_computed[s])
      /\ UNCHANGED <<status, num_computed>>
  BY <1>s DEF SecureSlot, seqVars
<1>2. BMTypeOK /\ free \in Seq(Blocks)
  BY DEF Safe, TypeOK, SchedulerTypeOK, BMTypeOK
<1>3. ASSUME NEW x \in Seqs, NEW i \in 1 .. Len(block_table[x])
      PROVE  block_table'[x][i] = block_table[x][i]
  <2>1. CASE HasSlot(s, num_computed[s])
    BY <1>1, <2>1 DEF AppendSlot, bmVars
  <2>2. CASE ~ HasSlot(s, num_computed[s])
    <3>1. free # << >> /\ Grow(s, 1)
      BY <1>1, <2>2 DEF CanAppendSlot, AppendSlot
    <3>2. 1 \in 0 .. Len(free)
      BY <1>2, <3>1, EmptySeq, LenProperties
    <3>3. /\ \A t \in Seqs : t # s => block_table'[t] = block_table[t]
          /\ Len(block_table'[s]) = Len(block_table[s]) + 1
          /\ \A j \in 1 .. Len(block_table'[s]) :
               j <= Len(block_table[s]) => block_table'[s][j] = block_table[s][j]
      BY <1>2, <3>1, <3>2, GrowEffect
    <3>4. Len(block_table[s]) \in Nat
      BY LenProperties DEF Safe, TypeOK, SchedulerTypeOK, BMTypeOK
    <3> QED BY <3>3, <3>4
  <2> QED BY <2>1, <2>2
<1> QED BY <1>1, <1>3 DEF RunningKept

LEMMA SampleRowKeeps ==
  ASSUME Inductive, SampleRow
  PROVE  RunningKept
<1> USE DEF Inductive
<1>1. pc = "sample" /\ todo # << >>
  BY DEF SampleRow
<1>2. CASE Raise
  BY <1>2 DEF Raise, bmVars, seqVars, RunningKept
<1>3. CASE ~ Raise
  <2>s. PICK s \in Seqs : s = Head(todo)
    BY <1>1, HeadOfList DEF Safe, TypeOK, SchedulerTypeOK
  <2>1. PICK r \in Outcomes(s) : SampleAndAdvance(s, r)
    BY <1>3, <2>s DEF SampleRow
  <2>2. todo' = Tail(todo) /\ UNCHANGED num_computed
    BY <1>3, <2>s DEF SampleRow
  <2>3. /\ status[s] = "RUNNING"
        /\ \A x \in Seqs : x # s =>
             status'[x] = status[x] /\ block_table'[x] = block_table[x]
        /\ status'[s] = "FINISHED" \/ block_table'[s] = block_table[s]
    BY <1>1, <2>s, <2>1, <2>2, RowEffect
  <2> QED BY <2>2, <2>3 DEF RunningKept
<1> QED BY <1>2, <1>3

LEMMA BookkeepingKeeps ==
  ASSUME Inductive, Bookkeeping
  PROVE  RunningKept
<1>1. CASE \/ ScheduleBegin \/ SchedulePrefill \/ ScheduleDecode \/ SkipPreempted
           \/ CapacityDone \/ StepEnd
  BY <1>1 DEF ScheduleBegin, SchedulePrefill, ScheduleDecode, SkipPreempted,
     CapacityDone, StepEnd, bmVars, seqVars, RunningKept
<1>2. CASE PreemptVictim
  <2>1. PICK v \in Seqs : status[v] = "RUNNING" /\ Preempt(v)
    <3> DEFINE v == running[Max(VictimIndices(Head(todo)))]
    <3>1. v \in Seqs /\ status[v] = "RUNNING"
      BY <1>2, VictimOfList DEF PreemptVictim, Inductive, Safe, TypeOK, SchedulerTypeOK
    <3>2. Preempt(v)
      BY <1>2 DEF PreemptVictim
    <3> QED BY <3>1, <3>2
  <2> QED BY <1>2, <2>1, PreemptKeeps DEF PreemptVictim, Claiming
<1>3. CASE PreemptSelf
  <2>1. PICK v \in Seqs : status[v] = "RUNNING" /\ Preempt(v)
    BY <1>3, HeadOfList
       DEF PreemptSelf, Claiming, Inductive, Safe, TypeOK, SchedulerTypeOK
  <2> QED BY <1>3, <2>1, PreemptKeeps DEF PreemptSelf, Claiming
<1> QED
  BY <1>1, <1>2, <1>3, AdmitHeadKeeps, SecureSlotKeeps, SampleRowKeeps
     DEF Bookkeeping, SchedulerStep

-----------------------------------------------------------------------------
\* A step of the engine with its pool is a step of the engine.
LEMMA PagedIsEngine == [PagedNext]_pagedVars => [Next]_vars
BY DEF PagedNext, PagedPrefill, PagedForward, Next, Step, pagedVars

LEMMA PagedNextHolds ==
  ASSUME 0 \notin PromptLens, Inductive, CacheHoldsOwnTokens, [PagedNext]_pagedVars
  PROVE  Inductive' /\ CacheHoldsOwnTokens'
<1>1. Inductive'
  BY PagedIsEngine, NextSafe, NextLists, NextGoing DEF Inductive
<1>2. CASE PagedPrefill
  BY <1>1, <1>2, PagedPrefillHolds
<1>3. CASE PagedForward
  BY <1>1, <1>3, PagedForwardHolds
<1>4. CASE (Bookkeeping \/ Call) /\ UNCHANGED kv_pool
  <2>1. RunningKept
    BY <1>4, BookkeepingKeeps, CallKeeps
  <2> QED BY <1>1, <1>4, <2>1, KeptHolds DEF Inductive
<1>5. CASE UNCHANGED pagedVars
  <2>1. UNCHANGED kv_pool /\ RunningKept
    BY <1>5 DEF pagedVars, vars, schedVars, bmVars, seqVars, RunningKept
  <2> QED BY <1>1, <2>1, KeptHolds DEF Inductive
<1> QED BY <1>1, <1>2, <1>3, <1>4, <1>5 DEF PagedNext

LEMMA PagedInductive ==
  ASSUME 0 \notin PromptLens
  PROVE  PagedSpec => [](Inductive /\ CacheHoldsOwnTokens)
<1>1. PagedInit => Inductive
  BY InitSafe, InitLists, InitGoing DEF PagedInit, Inductive
<1>2. PagedInit => CacheHoldsOwnTokens
  BY DEF PagedInit, Init, SchedulerInit, CacheHoldsOwnTokens
<1>3. Inductive /\ CacheHoldsOwnTokens /\ [PagedNext]_pagedVars
        => Inductive' /\ CacheHoldsOwnTokens'
  BY PagedNextHolds
<1> QED BY <1>1, <1>2, <1>3, PTL DEF PagedSpec

\* Every slot a running sequence may read holds its own token of that position,
\* however often blocks changed hands before.
THEOREM CacheHoldsOwnTokensHolds ==
  ASSUME 0 \notin PromptLens
  PROVE  PagedSpec => []CacheHoldsOwnTokens
<1>1. Inductive /\ CacheHoldsOwnTokens => CacheHoldsOwnTokens
  OBVIOUS
<1> QED BY <1>1, PagedInductive, PTL

-----------------------------------------------------------------------------
(* From the pool to what a row of a batched decode attends to.             *)

\* A row waiting for its sample has computed all its tokens, a table row's worth
\* at most.
LEMMA RowComputed ==
  ASSUME Inductive, pc = "sample", NEW s \in Seqs, Contains(todo, s)
  PROVE  /\ status[s] = "RUNNING" /\ num_computed[s] = NumTokens(s)
         /\ num_computed[s] \in 0 .. ModelBlockSize
<1> USE DEF Inductive
<1>1. status[s] = "RUNNING"
  BY DEF Lists, ListsMatchStatus, TodoIsRunning
<1>2. Progress(s) /\ Unsampled(s) /\ ~ Unprefilled(s)
  BY DEF Going, Unsampled, Unprefilled
<1>3. num_computed[s] = NumTokens(s)
  BY <1>1, <1>2 DEF Progress
<1>4. /\ prompt_len[s] >= 1 /\ prompt_len[s] <= ModelBlockSize
      /\ prompt_len[s] + max_tokens[s] <= ModelBlockSize
      /\ output_len[s] = 0 \/ output_len[s] < max_tokens[s]
  BY <1>1, <1>2 DEF Progress
<1>5. /\ prompt_len[s] \in Nat /\ output_len[s] \in Nat /\ max_tokens[s] \in Int
      /\ ModelBlockSize \in Nat
  BY EngineAssumption DEF Safe, TypeOK, SchedulerTypeOK
<1>6. prompt_len[s] + output_len[s] \in 0 .. ModelBlockSize
  BY <1>4, <1>5
<1> QED BY <1>1, <1>3, <1>6 DEF NumTokens

\* The gather reads, at a column of the row's own context, that token.
LEMMA GatheredOwn ==
  ASSUME Inductive, CacheHoldsOwnTokens, NEW s \in Seqs, status[s] = "RUNNING",
         NEW c \in Nat, c < num_computed[s]
  PROVE  Gathered(s, c) = <<s, c>>
<1> USE DEF Inductive
<1>1. c < Len(block_table[s]) * BlockSize /\ num_computed[s] \in Nat
  BY ComputedCovered
<1>2. /\ c \div BlockSize < Len(block_table[s])
      /\ c \div BlockSize \in Nat
  BY <1>1, BlockOfPosition
<1>3. TableEntry(s, c \div BlockSize) = block_table[s][c \div BlockSize + 1]
  BY <1>2 DEF TableEntry
<1>4. Gathered(s, c) = kv_pool[SlotFor(s, c)]
  BY <1>3 DEF Gathered, SlotFor
<1>5. c \in 0 .. num_computed[s] - 1
  BY <1>1
<1> QED BY <1>4, <1>5 DEF CacheHoldsOwnTokens

LEMMA ContextExact ==
  ASSUME Inductive, CacheHoldsOwnTokens
  PROVE  AttendsExactContext
<1> SUFFICES ASSUME pc = "sample", NEW i \in 1 .. Len(todo)
             PROVE  { Gathered(todo[i], c) :
                        c \in { x \in 0 .. MaxLen - 1 : Unmasked(todo[i], x) } }
                      = { <<todo[i], p>> : p \in 0 .. NumTokens(todo[i]) - 1 }
  BY DEF AttendsExactContext
<1>1. ASSUME NEW j \in 1 .. Len(todo)
      PROVE  /\ todo[j] \in Seqs /\ status[todo[j]] = "RUNNING"
             /\ num_computed[todo[j]] = NumTokens(todo[j])
             /\ num_computed[todo[j]] \in 0 .. ModelBlockSize
  <2>1. todo[j] \in Seqs
    BY ElementOfSeq DEF Inductive, Safe, TypeOK, SchedulerTypeOK
  <2>2. Contains(todo, todo[j])
    BY DEF Contains
  <2> QED BY <2>1, <2>2, RowComputed
<1>s. PICK s \in Seqs : s = todo[i]
  BY <1>1
<1> DEFINE lengths == { num_computed[todo[j]] : j \in 1 .. Len(todo) }
<1>2. lengths \in SUBSET (0 .. ModelBlockSize) /\ num_computed[s] \in lengths
  BY <1>1, <1>s
<1>3. MaxLen = Max(lengths)
  BY DEF MaxLen
<1>4. ModelBlockSize \in Int
  BY EngineAssumption
<1> HIDE DEF lengths
<1>5. Max(lengths) \in lengths /\ num_computed[s] <= Max(lengths)
  BY <1>2, <1>4, MaxInterval
<1>6. MaxLen \in Int /\ num_computed[s] \in Nat /\ num_computed[s] <= MaxLen
  <2>1. Max(lengths) \in 0 .. ModelBlockSize /\ num_computed[s] \in 0 .. ModelBlockSize
    BY <1>1, <1>2, <1>5, <1>s
  <2>2. \A x \in 0 .. ModelBlockSize : x \in Int /\ x \in Nat
    BY <1>4
  <2> QED BY <1>3, <1>5, <2>1, <2>2, Zenon
<1>7. { x \in 0 .. MaxLen - 1 : Unmasked(s, x) } = 0 .. NumTokens(s) - 1
  <2>1. NumTokens(s) = num_computed[s]
    BY <1>1, <1>s
  <2>2. \A x : x \in 0 .. MaxLen - 1 /\ x < num_computed[s] <=> x \in 0 .. num_computed[s] - 1
    BY <1>6
  <2> QED BY <2>1, <2>2 DEF Unmasked
<1>8. \A c \in 0 .. NumTokens(s) - 1 : Gathered(s, c) = <<s, c>>
  <2> SUFFICES ASSUME NEW c \in 0 .. NumTokens(s) - 1 PROVE Gathered(s, c) = <<s, c>>
    OBVIOUS
  <2>1. status[s] = "RUNNING" /\ num_computed[s] = NumTokens(s)
    BY <1>1, <1>s
  <2>2. c \in Nat /\ c < num_computed[s]
    BY <1>6, <2>1
  <2> QED BY <2>1, <2>2, GatheredOwn
<1> QED BY <1>7, <1>8, <1>s

\* A row of a batched decode attends to its own context, all of it and nothing
\* else, whatever the other rows are and the table is padded with.
THEOREM AttendsExactContextHolds ==
  ASSUME 0 \notin PromptLens
  PROVE  PagedSpec => []AttendsExactContext
<1>1. Inductive /\ CacheHoldsOwnTokens => AttendsExactContext
  BY ContextExact
<1> QED BY <1>1, PagedInductive, PTL

-----------------------------------------------------------------------------
(* The Triton kernel: a walk over the blocks of a row, folded into sums    *)
(* that are rescaled whenever a larger score comes up.                     *)

BlockIds == [i \in 1 .. MaxBlocksPerSeq |-> i - 1]

NoTerms == [m |-> MinusInf, terms |-> {}]

\* g holds the sums after any set of blocks, visited in order.
Walk(s, g) ==
    g = [T \in SUBSET DOMAIN BlockIds |->
           IF T = {} THEN NoTerms ELSE KernelBlock(s, g[T \ {Max(T)}], BlockIds[Max(T)])]

LEMMA KernelUnfolds ==
  ASSUME NEW s
  PROVE  KernelOutput(s) = (CHOOSE g : Walk(s, g))[DOMAIN BlockIds].terms
  BY Zenon DEF KernelOutput, FoldLeft, MapThenFoldSet, Walk, BlockIds, NoTerms

\* What the columns C of a row add to the sums when the maximum is top.
TermOf(s, c, top) == [col |-> c, read |-> <<s, c>>, exp |-> Score(<<s, c>>) - top]
TermsOf(s, C, top) == { TermOf(s, c, top) : c \in C }
ScoresOf(s, C) == { Score(<<s, c>>) : c \in C }

\* The columns of the row's context in block k, and in the first k blocks.
ColsIn(s, k) == { c \in 0 .. num_computed[s] - 1 : k * BlockSize <= c /\ c < (k + 1) * BlockSize }
ColsTo(s, k) == { c \in 0 .. num_computed[s] - 1 : c < k * BlockSize }

Sums(s) == [m : Int, terms : SUBSET [col : Nat, read : {s} \X Nat, exp : Int]]

LEMMA ScoreType ==
  ASSUME NEW s, NEW c \in Nat
  PROVE  Score(<<s, c>>) \in 0 .. 5
<1>1. (c * c) % 5 \in 0 .. 4
  <2>1. c * c \in Nat
    OBVIOUS
  <2>2. PICK d \in Nat : d = c * c
    BY <2>1
  <2>3. d % 5 \in 0 .. 4
    BY <2>2
  <2> QED BY <2>2, <2>3
<1>2. <<s, c>>[2] = c
  OBVIOUS
<1> QED BY <1>1, <1>2 DEF Score

LEMMA ScoresType ==
  ASSUME NEW s, NEW C \in SUBSET Nat
  PROVE  ScoresOf(s, C) \in SUBSET (0 .. 5) /\ IsFiniteSet(ScoresOf(s, C))
<1>1. ScoresOf(s, C) \in SUBSET (0 .. 5)
  BY ScoreType DEF ScoresOf
<1>2. IsFiniteSet(0 .. 5)
  <2>1. \A lo, hi \in Int : IsFiniteSet(lo .. hi)
    BY FS_Interval
  <2>2. 0 \in Int /\ 5 \in Int
    OBVIOUS
  <2> QED BY <2>1, <2>2, Zenon
<1> QED BY <1>1, <1>2, FS_Subset

\* A running row whose slots hold its own tokens.
Reads(s) ==
    /\ s \in Seqs /\ status[s] = "RUNNING"
    /\ num_computed[s] \in 1 .. ModelBlockSize

\* The lanes that block_active and slot_mask let through are the columns of the
\* row's context in the block, and each reads its own token.
LEMMA LanesRead ==
  ASSUME Inductive, CacheHoldsOwnTokens, NEW s, Reads(s), NEW k \in Nat
  PROVE  /\ \A l \in 0 .. BlockSize - 1 : SlotMask(s, k, l) <=> k * BlockSize + l \in ColsIn(s, k)
         /\ \A c \in ColsIn(s, k) :
              \E l \in 0 .. BlockSize - 1 : SlotMask(s, k, l) /\ c = k * BlockSize + l
         /\ \A l \in 0 .. BlockSize - 1 : SlotMask(s, k, l) =>
              kv_pool[TableEntry(s, k) * BlockSize + l] = <<s, k * BlockSize + l>>
<1> DEFINE b == BlockSize
           n == num_computed[s]
<1>1. b \in Nat \ {0} /\ n \in Nat /\ s \in Seqs /\ status[s] = "RUNNING"
  BY BlockManagerAssumption, EngineAssumption DEF Reads
<1>2. k * b \in Nat /\ (k + 1) * b = k * b + b
  BY <1>1
<1>3. ASSUME k * b < n PROVE k < BlocksNeeded(n)
  <2>1. BlocksNeeded(n) \in Nat
    BY <1>1, BlocksNeededNat
  <2>2. n <= BlocksNeeded(n) * b
    BY <1>1, BlocksHold
  <2>3. PICK j \in Nat : j = BlocksNeeded(n)
    BY <2>1
  <2> HIDE DEF b, n
  <2>4. ASSUME j <= k PROVE FALSE
    <3>1. j * b <= k * b /\ j * b \in Nat
      BY <1>1, <2>4
    <3> QED BY <1>1, <1>2, <1>3, <2>2, <2>3, <3>1
  <2> QED BY <2>3, <2>4
<1>4. ASSUME NEW l \in 0 .. b - 1
      PROVE  SlotMask(s, k, l) <=> k * b + l < n
  <2>1. k * b + l < n => k * b < n
    BY <1>1, <1>2
  <2> QED BY <1>3, <2>1 DEF SlotMask
<1>5. ASSUME NEW l \in 0 .. b - 1
      PROVE  k * b + l \in Nat /\ (k * b + l < n <=> k * b + l \in ColsIn(s, k))
  <2>1. PICK j \in Nat : j = k * b
    BY <1>2
  <2>2. j + l \in Nat /\ (j + l < n <=> j + l \in { c \in 0 .. n - 1 : j <= c /\ c < j + b })
    BY <1>1
  <2> QED BY <1>2, <2>1, <2>2, Zenon DEF ColsIn
<1>6. ASSUME NEW c \in ColsIn(s, k)
      PROVE  \E l \in 0 .. b - 1 : SlotMask(s, k, l) /\ c = k * b + l
  <2>1. PICK j \in Nat : j = k * b
    BY <1>2
  <2>2. c \in 0 .. n - 1 /\ j <= c /\ c < j + b
    BY <1>2, <2>1, Zenon DEF ColsIn
  <2>3. c - j \in 0 .. b - 1 /\ c = j + (c - j) /\ c < n
    BY <1>1, <2>2
  <2> HIDE DEF b, n
  <2>4. PICK l \in 0 .. b - 1 : c = j + l
    BY <2>3
  <2>5. SlotMask(s, k, l)
    BY <1>4, <2>1, <2>3, <2>4, Zenon
  <2> QED BY <2>1, <2>4, <2>5, Zenon
<1>7. ASSUME NEW l \in 0 .. b - 1, SlotMask(s, k, l)
      PROVE  kv_pool[TableEntry(s, k) * b + l] = <<s, k * b + l>>
  <2>1. PICK c \in Nat : c = k * b + l
    BY <1>5
  <2>2. c < n
    BY <1>4, <1>7, <2>1, Zenon
  <2>3. c \div b = k /\ c % b = l
    <3>1. /\ c \div b \in Nat /\ c % b \in 0 .. b - 1
          /\ c = b * (c \div b) + (c % b)
      BY <1>1, DivMod
    <3>2. PICK q \in Nat, x \in 0 .. b - 1 : q = c \div b /\ x = c % b
      BY <3>1
    <3>3. q * b + x = k * b + l
      BY <1>1, <2>1, <3>1, <3>2
    <3>4. q = k /\ x = l
      BY <1>1, <3>3, SlotParts
    <3> QED BY <3>2, <3>4
  <2>4. Gathered(s, c) = <<s, c>>
    BY <1>1, <2>2, GatheredOwn
  <2>5. Gathered(s, c) = kv_pool[TableEntry(s, c \div b) * b + (c % b)]
    BY Zenon DEF Gathered
  <2> HIDE DEF b
  <2> QED BY <2>1, <2>3, <2>4, <2>5, Zenon
<1> QED BY <1>4, <1>5, <1>6, <1>7, Zenon

\* Sums taken on by the columns C: rescaled to the larger maximum, and the terms
\* of C added.
Absorb(s, acc, C) ==
    LET top == Max({acc.m} \cup ScoresOf(s, C))
        finite == IF top = MinusInf THEN 0 ELSE top
    IN  [m |-> finite, terms |-> Rescaled(acc.terms, acc.m - finite) \cup TermsOf(s, C, finite)]

\* What the sums over the columns C have to be.
Top(s, C) == IF C = {} THEN MinusInf ELSE Max(ScoresOf(s, C))
AccOf(s, C) == [m |-> Top(s, C), terms |-> TermsOf(s, C, Top(s, C))]

\* A block of the kernel takes on the columns of the context in that block.
LEMMA BlockAbsorbs ==
  ASSUME Inductive, CacheHoldsOwnTokens, NEW s, Reads(s), NEW k \in Nat, NEW acc
  PROVE  KernelBlock(s, acc, k) = Absorb(s, acc, ColsIn(s, k))
<1> DEFINE lanes == { l \in 0 .. BlockSize - 1 : SlotMask(s, k, l) }
           k_block == [l \in lanes |-> kv_pool[TableEntry(s, k) * BlockSize + l]]
           scores == { Score(k_block[l]) : l \in lanes }
           finite == IF Max({acc.m} \cup scores) = MinusInf THEN 0 ELSE Max({acc.m} \cup scores)
           terms(top) == { [col |-> k * BlockSize + l, read |-> k_block[l],
                            exp |-> Score(k_block[l]) - top] : l \in lanes }
<1>1. \A l \in lanes : k_block[l] = <<s, k * BlockSize + l>> /\ k * BlockSize + l \in ColsIn(s, k)
  BY LanesRead, Zenon
<1>2. \A c \in ColsIn(s, k) : \E l \in lanes : c = k * BlockSize + l
  <2> SUFFICES ASSUME NEW c \in ColsIn(s, k) PROVE \E l \in lanes : c = k * BlockSize + l
    OBVIOUS
  <2>1. PICK l \in 0 .. BlockSize - 1 : SlotMask(s, k, l) /\ c = k * BlockSize + l
    BY LanesRead, Zenon
  <2> QED BY <2>1, Zenon
<1>3. KernelBlock(s, acc, k)
        = [m |-> finite, terms |-> Rescaled(acc.terms, acc.m - finite) \cup terms(finite)]
  BY Zenon DEF KernelBlock
<1> PICK col : col = [l \in lanes |-> k * BlockSize + l]
  OBVIOUS
<1>4. /\ \A l \in lanes : col[l] = k * BlockSize + l
      /\ \A l \in lanes : k_block[l] = <<s, col[l]>> /\ col[l] \in ColsIn(s, k)
      /\ \A c \in ColsIn(s, k) : \E l \in lanes : c = col[l]
  <2> HIDE DEF k_block
  <2>1. \A l \in lanes : col[l] = k * BlockSize + l
    BY Zenon
  <2> HIDE DEF lanes
  <2> QED BY <1>1, <1>2, <2>1, Zenon
<1>5. \A top : terms(top) = { [col |-> col[l], read |-> k_block[l],
                               exp |-> Score(k_block[l]) - top] : l \in lanes }
  <2> HIDE DEF k_block, lanes
  <2> QED BY <1>4, Zenon
<1> HIDE DEF k_block, lanes
<1>6. scores = ScoresOf(s, ColsIn(s, k))
  <2>1. ASSUME NEW x \in scores PROVE x \in ScoresOf(s, ColsIn(s, k))
    <3>1. PICK l \in lanes : x = Score(k_block[l])
      BY <2>1, Zenon
    <3>2. x = Score(<<s, col[l]>>) /\ col[l] \in ColsIn(s, k)
      BY <1>4, <3>1, Zenon
    <3> QED BY <3>2, Zenon DEF ScoresOf
  <2>2. ASSUME NEW x \in ScoresOf(s, ColsIn(s, k)) PROVE x \in scores
    <3>1. PICK c \in ColsIn(s, k) : x = Score(<<s, c>>)
      BY <2>2, Zenon DEF ScoresOf
    <3>2. PICK l \in lanes : c = col[l]
      BY <1>4, Zenon
    <3>3. x = Score(k_block[l])
      BY <1>4, <3>1, <3>2, Zenon
    <3> QED BY <3>3, Zenon
  <2> QED BY <2>1, <2>2, Zenon
<1>7. \A top : terms(top) = TermsOf(s, ColsIn(s, k), top)
  <2> SUFFICES ASSUME NEW top PROVE terms(top) = TermsOf(s, ColsIn(s, k), top)
    OBVIOUS
  <2> DEFINE term(l) == [col |-> col[l], read |-> k_block[l], exp |-> Score(k_block[l]) - top]
  <2>1. \A l \in lanes : term(l) = TermOf(s, col[l], top)
    BY <1>4, Zenon DEF TermOf
  <2>2. terms(top) = { term(l) : l \in lanes }
    BY <1>5, Zenon
  <2> HIDE DEF term, terms
  <2>3. ASSUME NEW x \in terms(top) PROVE x \in TermsOf(s, ColsIn(s, k), top)
    <3>1. PICK l \in lanes : x = term(l)
      BY <2>2, <2>3, Zenon
    <3> QED BY <1>4, <2>1, <3>1, Zenon DEF TermsOf
  <2>4. ASSUME NEW x \in TermsOf(s, ColsIn(s, k), top) PROVE x \in terms(top)
    <3>1. PICK c \in ColsIn(s, k) : x = TermOf(s, c, top)
      BY <2>4, Zenon DEF TermsOf
    <3>2. PICK l \in lanes : c = col[l]
      BY <1>4, Zenon
    <3> QED BY <2>1, <2>2, <3>1, <3>2, Zenon
  <2> QED BY <2>3, <2>4, Zenon
<1> HIDE DEF scores, terms
<1> QED BY <1>3, <1>6, <1>7, Zenon DEF Absorb

\* Sums stay sums: a maximum that is a number, and terms of the row.
LEMMA AbsorbType ==
  ASSUME NEW s, NEW acc \in Sums(s), NEW C \in SUBSET Nat
  PROVE  Absorb(s, acc, C) \in Sums(s)
<1> DEFINE all == {acc.m} \cup ScoresOf(s, C)
           top == Max(all)
           finite == IF top = MinusInf THEN 0 ELSE top
<1>0. acc.m \in Int /\ acc.terms \in SUBSET [col : Nat, read : {s} \X Nat, exp : Int]
  BY DEF Sums
<1>1. top \in Int
  <2>1. ScoresOf(s, C) \in SUBSET (0 .. 5) /\ IsFiniteSet(ScoresOf(s, C))
    BY ScoresType
  <2>2. IsFiniteSet({acc.m})
    BY FS_Singleton
  <2>3. IsFiniteSet(all)
    BY <2>1, <2>2, FS_Union
  <2>4. all \in SUBSET Int /\ all # {}
    BY <1>0, <2>1
  <2> HIDE DEF all
  <2> QED BY <2>3, <2>4, MaxFinite
<1> HIDE DEF all, top
<1>2. finite \in Int
  BY <1>1
<1> HIDE DEF finite
<1>3. Rescaled(acc.terms, acc.m - finite) \in SUBSET [col : Nat, read : {s} \X Nat, exp : Int]
  <2>1. PICK shift \in Int : shift = acc.m - finite
    BY <1>0, <1>2
  <2>2. \A t \in acc.terms : [t EXCEPT !.exp = @ + shift] \in [col : Nat, read : {s} \X Nat, exp : Int]
    BY <1>0
  <2> QED BY <2>1, <2>2 DEF Rescaled
<1>4. TermsOf(s, C, finite) \in SUBSET [col : Nat, read : {s} \X Nat, exp : Int]
  <2> SUFFICES ASSUME NEW c \in C
               PROVE  TermOf(s, c, finite) \in [col : Nat, read : {s} \X Nat, exp : Int]
    BY DEF TermsOf
  <2>1. Score(<<s, c>>) \in 0 .. 5
    BY ScoreType
  <2>2. Score(<<s, c>>) - finite \in Int
    BY <1>2, <2>1
  <2> QED BY <2>2 DEF TermOf
<1>5. Absorb(s, acc, C) = [m |-> finite, terms |-> Rescaled(acc.terms, acc.m - finite) \cup TermsOf(s, C, finite)]
  BY Zenon DEF Absorb, finite, top, all
<1> QED BY <1>2, <1>3, <1>4, <1>5 DEF Sums

\* The maximum of the scores of columns is one of the scores.
LEMMA TopIs ==
  ASSUME NEW s, NEW C \in SUBSET Nat, C # {}
  PROVE  /\ Top(s, C) \in ScoresOf(s, C) /\ Top(s, C) \in 0 .. 5
         /\ \A y \in ScoresOf(s, C) : y <= Top(s, C)
<1>1. ScoresOf(s, C) \in SUBSET (0 .. 5) /\ ScoresOf(s, C) # {}
  BY ScoresType DEF ScoresOf
<1>2. PICK five \in Int : five = 5
  OBVIOUS
<1>3. Max(ScoresOf(s, C)) \in ScoresOf(s, C) /\ \A y \in ScoresOf(s, C) : y <= Max(ScoresOf(s, C))
  <2>1. ScoresOf(s, C) \in SUBSET (0 .. five)
    BY <1>1, <1>2, Zenon
  <2> QED BY <1>1, <2>1, MaxInterval, Zenon
<1> QED BY <1>1, <1>3, Zenon DEF Top

\* The largest of a running maximum and of new scores.
LEMMA TopOfUnion ==
  ASSUME NEW s, NEW C \in SUBSET Nat, NEW D \in SUBSET Nat, C \cup D # {}
  PROVE  Max({Top(s, C)} \cup ScoresOf(s, D)) = Top(s, C \cup D)
<1> DEFINE all == {Top(s, C)} \cup ScoresOf(s, D)
           top == Top(s, C \cup D)
<1>1. /\ top \in ScoresOf(s, C \cup D) /\ top \in 0 .. 5
      /\ \A y \in ScoresOf(s, C \cup D) : y <= top
  BY TopIs
<1>2. ScoresOf(s, D) \in SUBSET (0 .. 5)
  BY ScoresType
<1>3. ScoresOf(s, C \cup D) = ScoresOf(s, C) \cup ScoresOf(s, D)
  BY DEF ScoresOf
<1>4. CASE C = {}
  <2>1. Top(s, C) = MinusInf /\ ScoresOf(s, C) = {}
    BY <1>4 DEF Top, ScoresOf
  <2>2. MinusInf \in Int /\ MinusInf <= top
    BY <1>1 DEF MinusInf
  <2> HIDE DEF top
  <2>3. all \in SUBSET Int /\ top \in all
    BY <1>1, <1>2, <1>3, <2>1, <2>2
  <2>4. \A y \in all : y <= top
    BY <1>1, <1>3, <2>1, <2>2, Zenon
  <2> HIDE DEF all
  <2>5. Max(all) = top
    BY <2>3, <2>4, MaxIs
  <2> QED BY <2>5 DEF all, top
<1>5. CASE C # {}
  <2>1. /\ Top(s, C) \in ScoresOf(s, C) /\ Top(s, C) \in 0 .. 5
        /\ \A y \in ScoresOf(s, C) : y <= Top(s, C)
    BY <1>5, TopIs
  <2> HIDE DEF top
  <2>2. all \in SUBSET Int
    BY <1>2, <2>1
  <2>3. \A y \in all : y <= top
    BY <1>1, <1>3, <2>1, Zenon
  <2>4. top \in all
    <3>1. CASE top \in ScoresOf(s, D)
      BY <3>1
    <3>2. CASE top \in ScoresOf(s, C)
      <4>1. PICK m \in 0 .. 5 : m = Top(s, C)
        BY <2>1
      <4>2. top <= m /\ m <= top
        BY <1>1, <1>3, <2>1, <3>2, <4>1, Zenon
      <4>3. top = m
        BY <1>1, <4>2
      <4> QED BY <4>1, <4>3
    <3> QED BY <1>1, <1>3, <3>1, <3>2
  <2> HIDE DEF all
  <2>5. Max(all) = top
    BY <2>2, <2>3, <2>4, MaxIs
  <2> QED BY <2>5 DEF all, top
<1> QED BY <1>4, <1>5

\* Terms scaled to one maximum, rescaled to another.
LEMMA TermsRescaled ==
  ASSUME NEW s, NEW C \in SUBSET Nat, NEW m \in Int, NEW top \in Int
  PROVE  Rescaled(TermsOf(s, C, m), m - top) = TermsOf(s, C, top)
<1>1. ASSUME NEW c \in C
      PROVE  [TermOf(s, c, m) EXCEPT !.exp = @ + (m - top)] = TermOf(s, c, top)
  <2>1. PICK score \in Int : score = Score(<<s, c>>)
    BY ScoreType
  <2>2. (score - m) + (m - top) = score - top
    BY <2>1
  <2>3. PICK read : read = <<s, c>>
    OBVIOUS
  <2> QED BY <2>1, <2>2, <2>3 DEF TermOf
<1> DEFINE moved(t) == [t EXCEPT !.exp = @ + (m - top)]
<1>2. Rescaled(TermsOf(s, C, m), m - top) = { moved(t) : t \in TermsOf(s, C, m) }
  BY Zenon DEF Rescaled
<1>3. \A c \in C : moved(TermOf(s, c, m)) = TermOf(s, c, top)
  BY <1>1, Zenon
<1> HIDE DEF moved
<1>4. { moved(t) : t \in { TermOf(s, c, m) : c \in C } } = { TermOf(s, c, top) : c \in C }
  BY <1>3
<1> QED BY <1>2, <1>4, Zenon DEF TermsOf

\* Sums over C that take on D are the sums over both: what was summed before a
\* larger score came up is rescaled to it.
LEMMA AbsorbBoth ==
  ASSUME NEW s, NEW C \in SUBSET Nat, NEW D \in SUBSET Nat, C \cup D # {}
  PROVE  Absorb(s, AccOf(s, C), D) = AccOf(s, C \cup D)
<1>1. PICK m : m = Top(s, C)
  OBVIOUS
<1>2. PICK top \in 0 .. 5 : top = Top(s, C \cup D)
  BY TopIs
<1>3. Max({m} \cup ScoresOf(s, D)) = top
  BY <1>1, <1>2, TopOfUnion
<1>4. top \in Int /\ top # MinusInf
  BY DEF MinusInf
<1>5. Absorb(s, AccOf(s, C), D)
        = [m |-> top, terms |-> Rescaled(TermsOf(s, C, m), m - top) \cup TermsOf(s, D, top)]
  BY <1>1, <1>3, <1>4 DEF Absorb, AccOf
<1>6. Rescaled(TermsOf(s, C, m), m - top) = TermsOf(s, C, top)
  <2>1. m \in Int
    <3>1. CASE C = {}
      BY <1>1, <3>1 DEF Top, MinusInf
    <3>2. CASE C # {}
      BY <1>1, <3>2, TopIs
    <3> QED BY <3>1, <3>2
  <2> QED BY <1>4, <2>1, TermsRescaled
<1>7. TermsOf(s, C, top) \cup TermsOf(s, D, top) = TermsOf(s, C \cup D, top)
  BY DEF TermsOf
<1> QED BY <1>2, <1>5, <1>6, <1>7 DEF AccOf

\* The columns of the first blocks, one block at a time.
LEMMA ColsGrow ==
  ASSUME NEW s, num_computed[s] \in Nat \ {0}
  PROVE  /\ ColsTo(s, 0) = {}
         /\ \A k \in Nat : /\ ColsTo(s, k) \in SUBSET Nat /\ ColsIn(s, k) \in SUBSET Nat
                           /\ ColsTo(s, k + 1) = ColsTo(s, k) \cup ColsIn(s, k)
                           /\ ColsTo(s, k + 1) # {}
<1> PICK n \in Nat \ {0}, b \in Nat \ {0} : n = num_computed[s] /\ b = BlockSize
  BY BlockManagerAssumption
<1>1. ColsTo(s, 0) = {}
  BY DEF ColsTo
<1>2. ASSUME NEW k \in Nat
      PROVE  /\ ColsTo(s, k) \in SUBSET Nat /\ ColsIn(s, k) \in SUBSET Nat
             /\ ColsTo(s, k + 1) = ColsTo(s, k) \cup ColsIn(s, k)
             /\ ColsTo(s, k + 1) # {}
  <2>1. PICK j \in Nat : j = k * b
    OBVIOUS
  <2>2. (k + 1) * b = j + b
    BY <2>1
  <2>3. /\ ColsTo(s, k) = { c \in 0 .. n - 1 : c < j }
        /\ ColsIn(s, k) = { c \in 0 .. n - 1 : j <= c /\ c < j + b }
        /\ ColsTo(s, k + 1) = { c \in 0 .. n - 1 : c < j + b }
    BY <2>1, <2>2, Zenon DEF ColsTo, ColsIn
  <2>4. 0 \in { c \in 0 .. n - 1 : c < j + b }
    OBVIOUS
  <2>5. { c \in 0 .. n - 1 : c < j + b }
          = { c \in 0 .. n - 1 : c < j } \cup { c \in 0 .. n - 1 : j <= c /\ c < j + b }
    OBVIOUS
  <2> QED BY <2>3, <2>4, <2>5
<1> QED BY <1>1, <1>2

\* The walk the kernel's fold is defined by exists.
LEMMA WalkExists ==
  ASSUME Inductive, CacheHoldsOwnTokens, NEW s, Reads(s)
  PROVE  \E g : Walk(s, g)
<1> DEFINE S == 1 .. MaxBlocksPerSeq
           V == Sums(s)
           pick == [T \in SUBSET S |-> Max(T)]
           step == [p \in S \X V |-> KernelBlock(s, p[2], p[1] - 1)]
<1>1. MaxBlocksPerSeq \in Nat
  BY EngineAssumption, BlocksNeededNat DEF MaxBlocksPerSeq
<1>2. IsFiniteSet(S)
  <2>1. \A lo, hi \in Int : IsFiniteSet(lo .. hi)
    BY FS_Interval
  <2>2. 1 \in Int /\ MaxBlocksPerSeq \in Int
    BY <1>1
  <2> QED BY <2>1, <2>2, Zenon
<1>3. NoTerms \in V
  BY DEF NoTerms, MinusInf, Sums
<1>4. \A T \in SUBSET S : T # {} => pick[T] \in T
  <2> SUFFICES ASSUME NEW T \in SUBSET S, T # {} PROVE Max(T) \in T
    OBVIOUS
  <2> QED BY <1>1, MaxIndex
<1>5. ASSUME NEW i \in S, NEW acc \in V PROVE KernelBlock(s, acc, i - 1) \in V
  <2>1. PICK k \in Nat : k = i - 1
    BY <1>1
  <2>2. ColsIn(s, k) \in SUBSET Nat
    BY ColsGrow, <2>1 DEF Reads
  <2>3. KernelBlock(s, acc, k) = Absorb(s, acc, ColsIn(s, k))
    BY BlockAbsorbs
  <2>4. Absorb(s, acc, ColsIn(s, k)) \in V
    BY <2>2, AbsorbType
  <2> QED BY <2>1, <2>3, <2>4, Zenon
<1>6. step \in [S \X V -> V]
  <2> HIDE DEF S, V
  <2>1. \A p \in S \X V : p[1] \in S /\ p[2] \in V
    OBVIOUS
  <2>2. \A p \in S \X V : KernelBlock(s, p[2], p[1] - 1) \in V
    BY <1>5, <2>1, Zenon
  <2> QED BY <2>2, Zenon
<1>7. PICK g \in [SUBSET S -> V] : IsFold(S, NoTerms, pick, step, g)
  <2> HIDE DEF S, V, pick, step
  <2> QED BY <1>2, <1>3, <1>4, <1>6, FoldExists, Zenon
<1>8. DOMAIN BlockIds = S /\ \A i \in S : BlockIds[i] = i - 1
  BY DEF BlockIds
<1>9. ASSUME NEW T \in SUBSET S
      PROVE  g[T] = IF T = {} THEN NoTerms
                    ELSE KernelBlock(s, g[T \ {Max(T)}], BlockIds[Max(T)])
  <2>1. g[T] = IF T = {} THEN NoTerms ELSE step[<<pick[T], g[T \ {pick[T]}]>>]
    BY <1>7, Zenon DEF IsFold
  <2>2. CASE T = {}
    BY <2>1, <2>2, Zenon
  <2>3. CASE T # {}
    <3>1. pick[T] = Max(T) /\ Max(T) \in S /\ T \ {Max(T)} \in SUBSET S
      BY <1>4, <2>3, Zenon
    <3>2. PICK i \in S : i = Max(T)
      BY <3>1, Zenon
    <3>3. PICK acc \in V : acc = g[T \ {i}]
      <4> HIDE DEF S, V
      <4> QED BY <1>7, <3>1, <3>2
    <3>4. step[<<i, acc>>] = KernelBlock(s, acc, i - 1)
      <4> HIDE DEF S, V
      <4>1. <<i, acc>> \in S \X V /\ <<i, acc>>[1] = i /\ <<i, acc>>[2] = acc
        OBVIOUS
      <4> QED BY <4>1, Zenon
    <3> HIDE DEF S, V, step, pick
    <3> QED BY <1>8, <2>1, <2>3, <3>1, <3>2, <3>3, <3>4, Zenon
  <2> QED BY <2>2, <2>3
<1>10. g = [T \in SUBSET S |-> IF T = {} THEN NoTerms
                               ELSE KernelBlock(s, g[T \ {Max(T)}], BlockIds[Max(T)])]
  <2> HIDE DEF S, V
  <2> QED BY <1>7, <1>9, Zenon
<1> HIDE DEF S
<1> QED BY <1>8, <1>10, Zenon DEF Walk

\* After the first k blocks the sums are those over the columns of these blocks.
LEMMA WalkSums ==
  ASSUME Inductive, CacheHoldsOwnTokens, NEW s, Reads(s), NEW g, Walk(s, g),
         NEW k \in 0 .. MaxBlocksPerSeq
  PROVE  g[1 .. k] = AccOf(s, ColsTo(s, k))
<1> DEFINE Bad == { n \in Nat : n <= MaxBlocksPerSeq /\ g[1 .. n] # AccOf(s, ColsTo(s, n)) }
<1>0. MaxBlocksPerSeq \in Nat
  BY EngineAssumption, BlocksNeededNat DEF MaxBlocksPerSeq
<1>1. /\ ColsTo(s, 0) = {}
      /\ \A n \in Nat : /\ ColsTo(s, n) \in SUBSET Nat /\ ColsIn(s, n) \in SUBSET Nat
                        /\ ColsTo(s, n + 1) = ColsTo(s, n) \cup ColsIn(s, n)
                        /\ ColsTo(s, n + 1) # {}
  <2>1. num_computed[s] \in Nat \ {0}
    BY EngineAssumption DEF Reads
  <2> QED BY <2>1, ColsGrow, Zenon
<1>2. DOMAIN BlockIds = 1 .. MaxBlocksPerSeq /\ \A i \in 1 .. MaxBlocksPerSeq : BlockIds[i] = i - 1
  BY DEF BlockIds
<1>3. \A T \in SUBSET (1 .. MaxBlocksPerSeq) :
        g[T] = IF T = {} THEN NoTerms
               ELSE KernelBlock(s, g[T \ {Max(T)}], BlockIds[Max(T)])
  <2>1. g = [T \in SUBSET DOMAIN BlockIds |->
               IF T = {} THEN NoTerms ELSE KernelBlock(s, g[T \ {Max(T)}], BlockIds[Max(T)])]
    BY Zenon DEF Walk
  <2>2. \A U : \A T \in SUBSET U :
          [X \in SUBSET U |-> IF X = {} THEN NoTerms
               ELSE KernelBlock(s, g[X \ {Max(X)}], BlockIds[Max(X)])][T]
            = IF T = {} THEN NoTerms ELSE KernelBlock(s, g[T \ {Max(T)}], BlockIds[Max(T)])
    BY Zenon
  <2> QED BY <1>2, <2>1, <2>2, Zenon
<1>4. ASSUME Bad # {} PROVE FALSE
  <2>1. PICK n \in Bad : \A m \in Nat : m < n => m \notin Bad
    <3>1. Bad \in SUBSET Nat
      OBVIOUS
    <3> HIDE DEF Bad
    <3> QED BY <1>4, <3>1, FirstNat
  <2>2. n \in Nat /\ n <= MaxBlocksPerSeq /\ g[1 .. n] # AccOf(s, ColsTo(s, n))
    OBVIOUS
  <2>3. CASE n = 0
    <3>1. 1 .. n = {}
      BY <2>3
    <3>2. g[1 .. n] = NoTerms
      <4>1. {} \in SUBSET (1 .. MaxBlocksPerSeq)
        OBVIOUS
      <4> QED BY <1>3, <3>1, <4>1, Zenon
    <3>3. AccOf(s, {}) = NoTerms
      BY DEF AccOf, Top, TermsOf, NoTerms
    <3> QED BY <1>1, <2>2, <2>3, <3>2, <3>3, Zenon
  <2>4. CASE n # 0
    <3>1. PICK j \in Nat : n = j + 1
      <4>1. n - 1 \in Nat /\ n = (n - 1) + 1
        BY <2>2, <2>4
      <4> QED BY <4>1
    <3>2. g[1 .. j] = AccOf(s, ColsTo(s, j))
      <4>1. j < n /\ j <= MaxBlocksPerSeq
        BY <1>0, <2>2, <3>1
      <4> QED BY <2>1, <4>1, Zenon
    <3>3. /\ 1 .. n \in SUBSET (1 .. MaxBlocksPerSeq) /\ 1 .. n # {}
          /\ Max(1 .. n) = n /\ (1 .. n) \ {n} = 1 .. j /\ n \in 1 .. MaxBlocksPerSeq
      <4>1. /\ 1 .. n \in SUBSET Int /\ n \in 1 .. n /\ \A y \in 1 .. n : y <= n
        BY <2>2, <2>4
      <4>2. PICK S : S = 1 .. n
        OBVIOUS
      <4>3. Max(S) = n
        BY <4>1, <4>2, MaxIs
      <4> QED BY <1>0, <2>2, <3>1, <4>1, <4>2, <4>3
    <3>4. BlockIds[n] = j
      BY <1>2, <3>1, <3>3
    <3>5. g[1 .. n] = KernelBlock(s, g[1 .. j], j)
      BY <1>3, <3>3, <3>4, Zenon
    <3>6. KernelBlock(s, g[1 .. j], j) = Absorb(s, AccOf(s, ColsTo(s, j)), ColsIn(s, j))
      BY <3>2, BlockAbsorbs, Zenon
    <3>7. Absorb(s, AccOf(s, ColsTo(s, j)), ColsIn(s, j)) = AccOf(s, ColsTo(s, j) \cup ColsIn(s, j))
      <4>1. /\ ColsTo(s, j) \in SUBSET Nat /\ ColsIn(s, j) \in SUBSET Nat
            /\ ColsTo(s, j) \cup ColsIn(s, j) # {}
        BY <1>1, Zenon
      <4> QED BY <4>1, AbsorbBoth
    <3>8. ColsTo(s, n) = ColsTo(s, j) \cup ColsIn(s, j)
      BY <1>1, <3>1, Zenon
    <3> QED BY <2>2, <3>5, <3>6, <3>7, <3>8, Zenon
  <2> QED BY <2>3, <2>4
<1>5. k \in Nat /\ k <= MaxBlocksPerSeq
  BY <1>0
<1> QED BY <1>4, <1>5, Zenon

\* The kernel's terms: one for each position of the row's context, scaled to the
\* largest of their scores.
LEMMA KernelExact ==
  ASSUME Inductive, CacheHoldsOwnTokens, NEW s, Reads(s)
  PROVE  KernelOutput(s)
           = TermsOf(s, 0 .. num_computed[s] - 1, Max(ScoresOf(s, 0 .. num_computed[s] - 1)))
<1>1. MaxBlocksPerSeq \in Nat /\ ModelBlockSize \in Nat
  BY EngineAssumption, BlocksNeededNat DEF MaxBlocksPerSeq
<1>2. PICK g : g = CHOOSE h : Walk(s, h)
  OBVIOUS
<1>3. Walk(s, g)
  BY <1>2, WalkExists, Zenon
<1>4. DOMAIN BlockIds = 1 .. MaxBlocksPerSeq
  BY DEF BlockIds
<1>5. KernelOutput(s) = g[1 .. MaxBlocksPerSeq].terms
  BY <1>2, <1>4, KernelUnfolds, Zenon
<1>6. g[1 .. MaxBlocksPerSeq] = AccOf(s, ColsTo(s, MaxBlocksPerSeq))
  <2>1. MaxBlocksPerSeq \in 0 .. MaxBlocksPerSeq
    BY <1>1
  <2> QED BY <1>3, <2>1, WalkSums
<1>7. ColsTo(s, MaxBlocksPerSeq) = 0 .. num_computed[s] - 1 /\ 0 .. num_computed[s] - 1 # {}
  <2>1. ModelBlockSize <= MaxBlocksPerSeq * BlockSize
    BY <1>1, BlocksHold DEF MaxBlocksPerSeq
  <2>2. PICK j \in Nat : j = MaxBlocksPerSeq * BlockSize
    BY <1>1, BlockManagerAssumption
  <2>3. PICK n : n = num_computed[s]
    OBVIOUS
  <2>4. n \in 1 .. ModelBlockSize
    BY <2>3 DEF Reads
  <2>5. { c \in 0 .. n - 1 : c < j } = 0 .. n - 1 /\ 0 \in 0 .. n - 1
    BY <1>1, <2>1, <2>2, <2>4
  <2>6. ColsTo(s, MaxBlocksPerSeq) = { c \in 0 .. n - 1 : c < j }
    BY <2>2, <2>3, Zenon DEF ColsTo
  <2> QED BY <2>3, <2>5, <2>6
<1>8. AccOf(s, ColsTo(s, MaxBlocksPerSeq)).terms
        = TermsOf(s, ColsTo(s, MaxBlocksPerSeq), Top(s, ColsTo(s, MaxBlocksPerSeq)))
  BY DEF AccOf
<1> QED BY <1>5, <1>6, <1>7, <1>8, Zenon DEF Top

ReadsContext(s) ==
    LET scores == { Score(<<s, p>>) : p \in 0 .. NumTokens(s) - 1 }
    IN  KernelOutput(s) =
          { [col |-> p, read |-> <<s, p>>, exp |-> Score(<<s, p>>) - Max(scores)]
              : p \in 0 .. NumTokens(s) - 1 }

LEMMA KernelExactInv ==
  ASSUME Inductive, CacheHoldsOwnTokens
  PROVE  KernelReadsContext
<1> SUFFICES ASSUME pc = "sample", todo = running, todo # << >>, NEW i \in 1 .. Len(todo)
             PROVE  ReadsContext(todo[i])
  BY Zenon DEF KernelReadsContext, ReadsContext
<1> PICK s : s = todo[i]
  OBVIOUS
<1>1. s \in Seqs /\ Contains(todo, s)
  <2>1. s \in Seqs
    BY ElementOfSeq DEF Inductive, Safe, TypeOK, SchedulerTypeOK
  <2> QED BY <2>1 DEF Contains
<1>2. /\ status[s] = "RUNNING" /\ num_computed[s] = NumTokens(s)
      /\ num_computed[s] \in 0 .. ModelBlockSize
  BY <1>1, RowComputed
<1>3. NumTokens(s) \in Nat \ {0}
  <2>1. Progress(s)
    BY <1>1, <1>2 DEF Inductive, Going
  <2>2. prompt_len[s] >= 1 /\ prompt_len[s] \in Nat /\ output_len[s] \in Nat
    BY <1>1, <1>2, <2>1 DEF Progress, Inductive, Safe, TypeOK, SchedulerTypeOK
  <2> QED BY <2>2 DEF NumTokens
<1>4. Reads(s)
  BY <1>1, <1>2, <1>3, EngineAssumption DEF Reads
<1>5. KernelOutput(s) = TermsOf(s, 0 .. NumTokens(s) - 1, Max(ScoresOf(s, 0 .. NumTokens(s) - 1)))
  BY <1>2, <1>4, KernelExact, Zenon
<1>6. ReadsContext(s)
  BY <1>5, Zenon DEF TermsOf, TermOf, ScoresOf, ReadsContext
<1> QED BY <1>6, Zenon

\* On every row of a batched decode the Triton kernel computes what the gather
\* path does: it reads each position of the row's context once and nothing else,
\* and scales all terms to the same maximum.
THEOREM KernelReadsContextHolds ==
  ASSUME 0 \notin PromptLens
  PROVE  PagedSpec => []KernelReadsContext
<1>1. Inductive /\ CacheHoldsOwnTokens => KernelReadsContext
  BY KernelExactInv
<1> QED BY <1>1, PagedInductive, PTL

=============================================================================
