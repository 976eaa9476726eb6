------------------------- MODULE StaticBatch_proofs -------------------------
(***************************************************************************)
(* Static batching decodes every row as if it were alone, for every batch, *)
(* model, limit and padding token.                                         *)
(***************************************************************************)
EXTENDS StaticBatch, Lemmas

Cell == ((Tokens \cup {Pad}) \X Nat) \cup {Blank}

\* A model draws tokens of its vocabulary.
TargetGivesTokens == \A c \in Seq(Cell) : Target(c) \subseteq Tokens

\* Prompt and limit together fit the position table.
PromptsFit == \A p \in Prompts : Len(p) + MaxNewTokens <= ModelBlockSize

\* What the proofs below assume of the constants.
Assumed == TargetGivesTokens /\ PromptsFit

LEMMA Constants ==
  /\ Rows # {} /\ IsFiniteSet(Rows)
  /\ \A p \in Prompts : p \in Seq(Tokens) /\ Len(p) \in Nat \ {0}
  /\ MaxNewTokens \in Nat /\ ModelBlockSize \in Nat
<1>1. \A p \in Prompts : p \in Seq(Tokens) /\ p # << >>
  BY StaticBatchAssumption
<1> QED BY <1>1, EmptySeq, StaticBatchAssumption

\* A function on 1 .. n is a sequence of length n.
LEMMA FunctionIsSeq ==
  ASSUME NEW S, NEW n \in Nat, NEW f \in [1 .. n -> S]
  PROVE  f \in Seq(S) /\ Len(f) = n
<1>1. f \in Seq(S) /\ DOMAIN f = 1 .. n
  BY SeqDef
<1> QED BY <1>1, LenProperties

-----------------------------------------------------------------------------
(* The batch and its padding.                                              *)

\* PromptLen is the length of the longest prompt.
LEMMA PromptLenIsMax ==
  ASSUME prompts \in [Rows -> Prompts]
  PROVE  /\ PromptLen \in Nat \ {0}
         /\ \E r \in Rows : PromptLen = Len(prompts[r])
         /\ \A r \in Rows : /\ prompts[r] \in Seq(Tokens) /\ Len(prompts[r]) \in Nat \ {0}
                            /\ Len(prompts[r]) <= PromptLen
<1> DEFINE L == { Len(prompts[r]) : r \in Rows }
<1>1. \A r \in Rows : prompts[r] \in Seq(Tokens) /\ Len(prompts[r]) \in Nat \ {0}
  BY Constants
<1>2. IsFiniteSet(L)
  <2> DEFINE f == [r \in Rows |-> Len(prompts[r])]
  <2>1. f \in Surjection(Rows, L)
    BY DEF Surjection
  <2> HIDE DEF f, L
  <2> QED BY <2>1, Constants, FS_Surjection
<1>3. L \in SUBSET Nat /\ L # {}
  BY <1>1, Constants
<1>4. Max(L) \in L /\ \A y \in L : y <= Max(L)
  <2> HIDE DEF L
  <2> QED BY <1>2, <1>3, MaxFinite
<1>5. PromptLen = Max(L)
  BY DEF PromptLen
<1>6. PromptLen \in L /\ \A y \in L : y <= PromptLen
  BY <1>4, <1>5, Zenon
<1> QED BY <1>1, <1>6

\* The pad columns of a row and its prompt fill the columns of the prefill.
LEMMA PadLenEffect ==
  ASSUME prompts \in [Rows -> Prompts], NEW r \in Rows
  PROVE  PadLen(r) \in Nat /\ PadLen(r) + Len(prompts[r]) = PromptLen
  BY PromptLenIsMax DEF PadLen

\* The cache has room for the prefill and a token more for every step.
LEMMA CacheSizeEffect ==
  ASSUME Assumed, prompts \in [Rows -> Prompts]
  PROVE  CacheSize \in Nat /\ PromptLen + MaxNewTokens <= CacheSize
                           /\ PromptLen + MaxNewTokens <= ModelBlockSize
<1>1. PromptLen \in Nat /\ PromptLen + MaxNewTokens <= ModelBlockSize
  <2>1. PICK r \in Rows : PromptLen = Len(prompts[r])
    BY PromptLenIsMax
  <2> QED BY <2>1, PromptLenIsMax DEF Assumed, PromptsFit
<1> QED BY <1>1, Constants DEF CacheSize

-----------------------------------------------------------------------------
(* A row of the cache.                                                     *)

\* A sequence is placed as its entries say, and as nothing else.
LEMMA PlacedUnique ==
  ASSUME NEW s \in Seq(Tokens), NEW n \in Nat, n = Len(s), NEW f,
         f = [i \in 1 .. n |-> <<s[i], i - 1>>]
  PROVE  f = Placed(s) /\ f \in Seq(Cell)
<1>1. \A i \in 1 .. n : 0 + i - 1 = i - 1 /\ i - 1 \in Nat /\ s[i] \in Tokens
  BY ElementOfSeq
<1>2. f = Placed(s)
  BY <1>1, Zenon DEF Placed, PlacedFrom
<1>3. f \in [1 .. n -> Cell]
  BY <1>1 DEF Cell
<1>4. f \in Seq(Cell)
  BY <1>3, FunctionIsSeq, Zenon
<1> QED BY <1>2, <1>4

\* Entries e in the columns of a row behind the first start ones, and no other.
Written(N, new, row, start, e) ==
    /\ new \in [1 .. N -> Cell]
    /\ \A i \in 1 .. N : new[i] =
         IF i \in start + 1 .. start + Len(e) THEN e[i - start] ELSE row[i]

LEMMA WriteEffect ==
  ASSUME NEW N \in Nat, NEW row \in [1 .. N -> Cell], NEW start \in Nat, NEW e \in Seq(Cell)
  PROVE  Written(N, Write(row, start, e), row, start, e)
<1>1. Len(row) = N
  BY FunctionIsSeq, Zenon
<1>2. Len(e) \in Nat /\ \A i \in 1 .. Len(e) : e[i] \in Cell
  BY LenProperties, ElementOfSeq
<1>3. \A i \in 1 .. N :
         (IF i \in start + 1 .. start + Len(e) THEN e[i - start] ELSE row[i]) \in Cell
  <2> SUFFICES ASSUME NEW i \in 1 .. N
               PROVE  (IF i \in start + 1 .. start + Len(e)
                       THEN e[i - start] ELSE row[i]) \in Cell
    OBVIOUS
  <2>1. i \in start + 1 .. start + Len(e) => i - start \in 1 .. Len(e)
    BY <1>2
  <2> QED BY <1>2, <2>1
<1> QED
  BY <1>1, <1>3, Zenon DEF Write, Written

\* A mask that leaves an interval of columns shows them in order.
LEMMA UnmaskedInterval ==
  ASSUME NEW row, NEW a \in Nat, NEW n \in Nat
  PROVE  Unmasked(row, a + 1 .. a + n) = [i \in 1 .. n |-> row[a + i]]
<1> DEFINE columns == a + 1 .. a + n
           nth(i) == CHOOSE c \in columns : Cardinality({d \in columns : d <= c}) = i
<1>1. Cardinality(columns) = n
  <2>1. Cardinality(columns) = IF a + 1 > a + n THEN 0 ELSE a + n - (a + 1) + 1
    BY FS_Interval
  <2> HIDE DEF columns
  <2> QED BY <2>1
<1>2. ASSUME NEW c \in columns
      PROVE  Cardinality({d \in columns : d <= c}) = c - a
  <2>1. {d \in columns : d <= c} = a + 1 .. c
    OBVIOUS
  <2>2. Cardinality(a + 1 .. c) = IF a + 1 > c THEN 0 ELSE c - (a + 1) + 1
    BY FS_Interval
  <2>3. c \in Int /\ a + 1 <= c
    OBVIOUS
  <2>4. (IF a + 1 > c THEN 0 ELSE c - (a + 1) + 1) = c - a
    BY <2>3
  <2> HIDE DEF columns
  <2> QED BY <2>1, <2>2, <2>4, Zenon
<1>3. ASSUME NEW i \in 1 .. n PROVE nth(i) = a + i
  <2>1. a + i \in columns /\ a + i - a = i
    OBVIOUS
  <2>2. ASSUME NEW c \in columns, c - a = i PROVE c = a + i
    BY <2>2
  <2>3. Cardinality({d \in columns : d <= a + i}) = i
    <3>1. Cardinality({d \in columns : d <= a + i}) = a + i - a
      BY <1>2, <2>1
    <3> QED BY <2>1, <3>1, Zenon
  <2>4. ASSUME NEW c \in columns, Cardinality({d \in columns : d <= c}) = i
        PROVE  c = a + i
    <3>1. Cardinality({d \in columns : d <= c}) = c - a
      BY <1>2
    <3> QED BY <2>2, <2>4, <3>1, Zenon
  <2> HIDE DEF columns
  <2> QED BY <2>1, <2>3, <2>4, Zenon
<1>4. Unmasked(row, columns) = [i \in 1 .. Cardinality(columns) |-> row[nth(i)]]
  BY Zenon DEF Unmasked
<1> HIDE DEF columns, nth
<1>5. [i \in 1 .. n |-> row[nth(i)]] = [i \in 1 .. n |-> row[a + i]]
  BY <1>3, Zenon
<1>6. Unmasked(row, columns) = [i \in 1 .. n |-> row[a + i]]
  BY <1>1, <1>4, <1>5, Zenon
<1> QED BY <1>6 DEF columns

\* A row has s behind its padding, every token at its own position.
Holds(row, pad, s) == \A i \in 1 .. Len(s) : row[pad + i] = <<s[i], i - 1>>

Behind(pad, k) == pad + 1 .. pad + k

\* Seeing the first k columns behind the padding is seeing the first k tokens.
LEMMA UnmaskedIsPlaced ==
  ASSUME NEW row, NEW pad \in Nat, NEW s \in Seq(Tokens), NEW k \in 0 .. Len(s),
         Holds(row, pad, s)
  PROVE  Unmasked(row, Behind(pad, k)) = Placed(SubSeq(s, 1, k))
<1> DEFINE u == SubSeq(s, 1, k)
<1>1. Len(s) \in Nat /\ k \in Nat
  BY LenProperties
<1>2. u \in Seq(Tokens) /\ Len(u) = k /\ \A i \in 1 .. k : u[i] = s[i]
  <2>1. \A i \in 1 .. k : s[i] \in Tokens
    BY <1>1, ElementOfSeq
  <2>2. \A i \in 1 .. k : u[i] = s[1 + i - 1]
    BY <1>1, <2>1, SubSeqProperties
  <2>3. \A i \in 1 .. k : 1 + i - 1 = i
    BY <1>1
  <2>4. Len(u) = IF 1 <= k THEN k - 1 + 1 ELSE 0
    BY <1>1, <2>1, SubSeqProperties
  <2>5. u \in Seq(Tokens)
    BY <1>1, <2>1, SubSeqProperties
  <2> HIDE DEF u
  <2> QED BY <1>1, <2>2, <2>3, <2>4, <2>5
<1>3. \A i \in 1 .. k : row[pad + i] = <<u[i], i - 1>>
  <2>1. \A i \in 1 .. k : i \in 1 .. Len(s)
    BY <1>1
  <2>2. \A i \in 1 .. Len(s) : row[pad + i] = <<s[i], i - 1>>
    BY DEF Holds
  <2> HIDE DEF u
  <2> QED BY <1>2, <2>1, <2>2, Zenon
<1>4. Unmasked(row, pad + 1 .. pad + k) = [i \in 1 .. k |-> row[pad + i]]
  <2>1. k \in Nat
    BY <1>1
  <2>2. \A n \in Nat : Unmasked(row, pad + 1 .. pad + n) = [i \in 1 .. n |-> row[pad + i]]
    BY UnmaskedInterval
  <2> QED BY <2>1, <2>2
<1> HIDE DEF u
<1>5. Unmasked(row, pad + 1 .. pad + k) = [i \in 1 .. k |-> <<u[i], i - 1>>]
  BY <1>3, <1>4, Zenon
<1>6. Unmasked(row, pad + 1 .. pad + k) = Placed(u)
  BY <1>1, <1>2, <1>5, PlacedUnique
<1> QED BY <1>6 DEF u, Behind

\* Whatever columns an interval leaves, a query sees cells.
LEMMA UnmaskedType ==
  ASSUME NEW N \in Nat, NEW row \in [1 .. N -> Cell], NEW a \in Nat, NEW b \in Nat, b <= N
  PROVE  Unmasked(row, a + 1 .. b) \in Seq(Cell)
<1>1. CASE a <= b
  <2>1. b - a \in Nat /\ a + (b - a) = b
    BY <1>1
  <2>2. Unmasked(row, a + 1 .. b) = [i \in 1 .. b - a |-> row[a + i]]
    BY <2>1, UnmaskedInterval
  <2>3. \A i \in 1 .. b - a : a + i \in 1 .. N
    BY <1>1
  <2>4. [i \in 1 .. b - a |-> row[a + i]] \in [1 .. b - a -> Cell]
    BY <2>3
  <2> QED BY <2>1, <2>2, <2>4, SeqDef
<1>2. CASE b < a
  <2>1. a + 1 .. b = {} /\ a + 1 .. a + 0 = {}
    BY <1>2
  <2>2. Unmasked(row, a + 1 .. a + 0) = [i \in 1 .. 0 |-> row[a + i]]
    <3>1. 0 \in Nat
      OBVIOUS
    <3>2. \A n \in Nat : Unmasked(row, a + 1 .. a + n) = [i \in 1 .. n |-> row[a + i]]
      BY UnmaskedInterval
    <3> QED BY <3>1, <3>2, Zenon
  <2>3. Unmasked(row, a + 1 .. b) = [i \in 1 .. 0 |-> row[a + i]]
    BY <2>1, <2>2, Zenon
  <2>4. [i \in 1 .. 0 |-> row[a + i]] \in [1 .. 0 -> Cell]
    OBVIOUS
  <2>5. 0 \in Nat
    OBVIOUS
  <2>6. [i \in 1 .. 0 |-> row[a + i]] \in Seq(Cell)
    BY <2>4, <2>5, SeqDef
  <2> QED BY <2>3, <2>6, Zenon
<1> QED BY <1>1, <1>2

-----------------------------------------------------------------------------
(* The inductive invariant.  NeverRaises and QueriesSeeOwnRow are not      *)
(* inductive: they need to know how far every row is, where its tokens are *)
(* in the cache, and that the rows still decoding have kept step.          *)

Typed ==
    /\ prompts \in [Rows -> Prompts]
    /\ driver \in Drivers
    /\ eot \in {EOT, NoEOT}
    /\ generated \in [Rows -> Seq(Tokens)]
    /\ slots \in [Rows -> [1 .. CacheSize -> Cell]]
    /\ cache_len \in Nat
    /\ seen \in [Rows -> Seq(Seq(Cell))]
    /\ finished \in [Rows -> BOOLEAN]
    /\ steps \in 0 .. MaxNewTokens
    /\ pc \in {"prefill", "loop", "done"}

\* Before the prefill.
Fresh == generated = prompts /\ finished = [r \in Rows |-> FALSE] /\ steps = 0 /\ cache_len = 0

\* The prompt, then at most a token for every step; exactly one, and none of
\* them EOT, when the row is not finished.
RowDecoded(r) ==
    /\ Len(prompts[r]) <= Len(generated[r])
    /\ Len(generated[r]) <= Len(prompts[r]) + steps
    /\ \A i \in 1 .. Len(prompts[r]) : generated[r][i] = prompts[r][i]
    /\ finished[r] => eot \in Tokens
    /\ ~ finished[r] =>
         /\ Len(generated[r]) = Len(prompts[r]) + steps
         /\ \A i \in Len(prompts[r]) + 1 .. Len(generated[r]) : generated[r][i] # eot

\* The tokens are in the columns behind the padding, at their own positions.
RowCached(r) == Holds(slots[r], PadLen(r), generated[r])

\* What the queries of the last forward saw, counted back from the last.
RowSeen(r) ==
    /\ Len(seen[r]) >= 1
    /\ \A q \in 1 .. Len(seen[r]) :
         LET own == Len(generated[r]) - (Len(seen[r]) - q)
         IN  own >= 1 => seen[r][q] = Placed(SubSeq(generated[r], 1, own))

Inv ==
    /\ Typed
    /\ pc = "prefill" => Fresh
    /\ \A r \in Rows : RowDecoded(r)
    /\ pc = "loop" =>
         /\ cache_len = PromptLen + steps
         /\ \A r \in Rows : ~ finished[r] => RowCached(r) /\ RowSeen(r)

LEMMA SameBatch ==
  ASSUME UNCHANGED <<prompts, driver>>
  PROVE  /\ PromptLen' = PromptLen /\ CacheSize' = CacheSize
         /\ \A r \in Rows : PadLen(r)' = PadLen(r)
<1>1. PromptLen' = PromptLen
  BY DEF PromptLen
<1> QED BY <1>1 DEF CacheSize, PadLen

\* A row of the cache is as long as the cache.
LEMMA SlotsLen == Typed => \A r \in Rows : Len(slots[r]) = CacheSize
<1> SUFFICES ASSUME Typed, NEW r \in Rows PROVE Len(slots[r]) = CacheSize
  OBVIOUS
<1>1. prompts \in [Rows -> Prompts] /\ slots[r] \in [1 .. CacheSize -> Cell]
  BY DEF Typed
<1>2. CacheSize \in Nat
  BY <1>1, PromptLenIsMax, Constants DEF CacheSize
<1> QED BY <1>1, <1>2, FunctionIsSeq, Zenon

LEMMA InitInv == Init => Inv
<1> SUFFICES ASSUME Init PROVE Inv
  OBVIOUS
<1>1. /\ prompts \in [Rows -> Prompts] /\ generated = prompts
      /\ finished = [r \in Rows |-> FALSE] /\ steps = 0 /\ cache_len = 0
      /\ pc = "prefill" /\ driver \in Drivers /\ eot \in {EOT, NoEOT}
  BY DEF Init
<1>2. slots \in [Rows -> [1 .. CacheSize -> Cell]]
  <2>1. EmptySlots(CacheSize) \in [1 .. CacheSize -> Cell]
    BY Zenon DEF EmptySlots, Cell
  <2> QED BY <2>1 DEF Init
<1>3. seen \in [Rows -> Seq(Seq(Cell))]
  <2>1. << >> \in Seq(Seq(Cell))
    BY EmptySeq
  <2> QED BY <2>1 DEF Init
<1>4. \A r \in Rows : prompts[r] \in Seq(Tokens) /\ Len(prompts[r]) \in Nat
  BY <1>1, PromptLenIsMax
<1>5. Typed
  <2>1. generated \in [Rows -> Seq(Tokens)] /\ finished \in [Rows -> BOOLEAN]
    BY <1>1, <1>4
  <2>2. steps \in 0 .. MaxNewTokens
    BY <1>1, Constants
  <2> QED BY <1>1, <1>2, <1>3, <2>1, <2>2 DEF Typed
<1>6. \A r \in Rows : RowDecoded(r)
  BY <1>1, <1>4 DEF RowDecoded
<1> QED BY <1>1, <1>5, <1>6 DEF Inv, Fresh

\* The prefill's input: padding, then the prompt at positions from 0 on.
LEMMA InputEffect ==
  ASSUME prompts \in [Rows -> Prompts], NEW r \in Rows
  PROVE  /\ PrefillInput[r] \in Seq(Cell) /\ Len(PrefillInput[r]) = PromptLen
         /\ \A c \in 1 .. PromptLen : PrefillInput[r][c][2] < PromptLen
         /\ \A i \in 1 .. Len(prompts[r]) :
              PrefillInput[r][PadLen(r) + i] = <<prompts[r][i], i - 1>>
<1> DEFINE e == [c \in 1 .. PromptLen |-> <<InputId(r, c), PositionId(r, c)>>]
<1>1. PrefillInput[r] = e
  BY Zenon DEF PrefillInput
<1>2. /\ PromptLen \in Nat /\ PadLen(r) \in Nat /\ Len(prompts[r]) \in Nat \ {0}
      /\ PadLen(r) + Len(prompts[r]) = PromptLen /\ prompts[r] \in Seq(Tokens)
  BY PromptLenIsMax, PadLenEffect
<1>3. ASSUME NEW c \in 1 .. PromptLen
      PROVE  /\ PositionId(r, c) = IF PadLen(r) < c THEN c - PadLen(r) - 1 ELSE 0
             /\ PositionId(r, c) \in Nat /\ PositionId(r, c) < PromptLen
  <2>1. c - PadLen(r) - 1 \in Int /\ 0 \in Int
    BY <1>2
  <2>2. Max({0, c - PadLen(r) - 1}) =
          IF 0 <= c - PadLen(r) - 1 THEN c - PadLen(r) - 1 ELSE 0
    BY <2>1, MinMaxPair
  <2>3. PositionId(r, c) = IF 0 <= c - PadLen(r) - 1 THEN c - PadLen(r) - 1 ELSE 0
    BY <2>2, Zenon DEF PositionId
  <2> HIDE DEF PositionId
  <2> QED BY <1>2, <2>3
<1>4. ASSUME NEW c \in 1 .. PromptLen PROVE InputId(r, c) \in Tokens \cup {Pad}
  <2>1. c > PadLen(r) => c - PadLen(r) \in 1 .. Len(prompts[r])
    BY <1>2
  <2>2. \A i \in 1 .. Len(prompts[r]) : prompts[r][i] \in Tokens
    BY <1>2, ElementOfSeq
  <2> QED BY <1>2, <2>1, <2>2 DEF InputId
<1>5. e \in Seq(Cell) /\ Len(e) = PromptLen
  <2>1. \A c \in 1 .. PromptLen : <<InputId(r, c), PositionId(r, c)>> \in Cell
    BY <1>3, <1>4 DEF Cell
  <2>2. e \in [1 .. PromptLen -> Cell]
    BY <2>1, Zenon
  <2> HIDE DEF e
  <2> QED BY <1>2, <2>2, FunctionIsSeq, Zenon
<1>6. \A c \in 1 .. PromptLen : e[c][2] < PromptLen
  BY <1>3, Zenon
<1>7. ASSUME NEW i \in 1 .. Len(prompts[r])
      PROVE  e[PadLen(r) + i] = <<prompts[r][i], i - 1>>
  <2> DEFINE c == PadLen(r) + i
  <2>1. /\ c \in 1 .. PromptLen /\ ~ (c <= PadLen(r)) /\ PadLen(r) < c
        /\ c - PadLen(r) = i /\ c - PadLen(r) - 1 = i - 1
    BY <1>2
  <2> HIDE DEF c
  <2>2. InputId(r, c) = prompts[r][i]
    BY <2>1, Zenon DEF InputId
  <2>3. PositionId(r, c) = i - 1
    BY <1>3, <2>1, Zenon
  <2>4. e[c] = <<prompts[r][i], i - 1>>
    BY <2>1, <2>2, <2>3, Zenon
  <2> QED BY <2>4 DEF c
<1> HIDE DEF e
<1> QED BY <1>1, <1>5, <1>6, <1>7, Zenon

\* Rows of n entries, with an interval of columns in view of each.
Fits(n, input, mask) ==
    \A r \in Rows : /\ input[r] \in Seq(Cell) /\ Len(input[r]) = n
                    /\ \A i \in 1 .. n :
                         \E a, b \in Nat : b <= CacheSize /\ mask[r][i] = a + 1 .. b

\* What a forward pass leaves in the cache and in seen.
Ran(n, input, mask) ==
    /\ slots' \in [Rows -> [1 .. CacheSize -> Cell]]
    /\ \A r \in Rows : \A c \in 1 .. CacheSize : slots'[r][c] =
         IF c \in cache_len + 1 .. cache_len + n
         THEN input[r][c - cache_len] ELSE slots[r][c]
    /\ seen' \in [Rows -> Seq(Seq(Cell))]
    /\ \A r \in Rows : /\ Len(seen'[r]) = n
                       /\ \A i \in 1 .. n :
                            seen'[r][i] = Unmasked(slots'[r], mask[r][i])
    /\ cache_len' = cache_len + n

LEMMA ForwardEffect ==
  ASSUME Assumed, Typed, NEW n \in Nat, NEW input, NEW mask, Fits(n, input, mask),
         Forward(n, input, mask)
  PROVE  Ran(n, input, mask)
<1>1. /\ CacheSize \in Nat /\ cache_len \in Nat
      /\ slots \in [Rows -> [1 .. CacheSize -> Cell]]
  BY CacheSizeEffect DEF Typed
<1>2. /\ slots' = [r \in Rows |-> Write(slots[r], cache_len, input[r])]
      /\ seen' = [r \in Rows |-> [i \in 1 .. n |-> Unmasked(slots'[r], mask[r][i])]]
      /\ cache_len' = cache_len + n
  BY DEF Forward
<1>3. ASSUME NEW r \in Rows
      PROVE  /\ slots'[r] \in [1 .. CacheSize -> Cell]
             /\ \A c \in 1 .. CacheSize : slots'[r][c] =
                  IF c \in cache_len + 1 .. cache_len + n
                  THEN input[r][c - cache_len] ELSE slots[r][c]
  <2>1. slots'[r] = Write(slots[r], cache_len, input[r])
    BY <1>2, Zenon
  <2>2. /\ input[r] \in Seq(Cell) /\ Len(input[r]) = n
        /\ slots[r] \in [1 .. CacheSize -> Cell]
    BY <1>1 DEF Fits
  <2>3. Written(CacheSize, Write(slots[r], cache_len, input[r]), slots[r], cache_len, input[r])
    BY <1>1, <2>2, WriteEffect, Zenon
  <2> QED BY <2>1, <2>2, <2>3, Zenon DEF Written
<1>4. slots' \in [Rows -> [1 .. CacheSize -> Cell]]
  BY <1>2, <1>3
<1>5. ASSUME NEW r \in Rows
      PROVE  /\ seen'[r] \in Seq(Seq(Cell)) /\ Len(seen'[r]) = n
             /\ \A i \in 1 .. n : seen'[r][i] = Unmasked(slots'[r], mask[r][i])
  <2>1. seen'[r] = [i \in 1 .. n |-> Unmasked(slots'[r], mask[r][i])]
    BY <1>2, Zenon
  <2>2. ASSUME NEW i \in 1 .. n PROVE Unmasked(slots'[r], mask[r][i]) \in Seq(Cell)
    <3>1. PICK a \in Nat, b \in Nat : b <= CacheSize /\ mask[r][i] = a + 1 .. b
      BY DEF Fits
    <3>2. Unmasked(slots'[r], a + 1 .. b) \in Seq(Cell)
      BY <1>1, <1>3, <3>1, UnmaskedType
    <3> QED BY <3>1, <3>2, Zenon
  <2>3. seen'[r] \in [1 .. n -> Seq(Cell)]
    BY <2>1, <2>2, Zenon
  <2>4. seen'[r] \in Seq(Seq(Cell)) /\ Len(seen'[r]) = n
    BY <2>3, FunctionIsSeq, Zenon
  <2> QED BY <2>1, <2>4, Zenon
<1>6. seen' \in [Rows -> Seq(Seq(Cell))]
  BY <1>2, <1>5
<1> QED BY <1>2, <1>3, <1>4, <1>5, <1>6 DEF Ran

\* The prefill's mask leaves an interval of columns to every query.
LEMMA PrefillMaskEffect ==
  ASSUME NEW r \in Rows, NEW q \in 1 .. PromptLen
  PROVE  PrefillMask[r][q] = PadLen(r) + 1 .. q
  BY Zenon DEF PrefillMask

LEMMA PrefillInv ==
  ASSUME Assumed, Inv, Prefill
  PROVE  Inv'
<1>1. /\ Typed /\ prompts \in [Rows -> Prompts]
      /\ generated = prompts /\ cache_len = 0 /\ steps = 0
      /\ finished = [r \in Rows |-> FALSE]
      /\ \A r \in Rows : RowDecoded(r)
  BY DEF Inv, Fresh, Typed, Prefill
<1>2. /\ PromptLen \in Nat \ {0} /\ CacheSize \in Nat
      /\ PromptLen <= CacheSize /\ PromptLen <= ModelBlockSize
  BY <1>1, PromptLenIsMax, CacheSizeEffect, Constants
<1>3. \A r \in Rows :
        /\ PrefillInput[r] \in Seq(Cell) /\ Len(PrefillInput[r]) = PromptLen
        /\ \A c \in 1 .. PromptLen : PrefillInput[r][c][2] < PromptLen
        /\ \A i \in 1 .. Len(prompts[r]) :
             PrefillInput[r][PadLen(r) + i] = <<prompts[r][i], i - 1>>
  BY <1>1, InputEffect
<1>4. ForwardOK(PromptLen, PrefillInput)
  <2> SUFFICES ASSUME NEW r \in Rows
               PROVE  /\ \A i \in 1 .. PromptLen : PrefillInput[r][i][2] < ModelBlockSize
                      /\ HasRoom(slots[r], cache_len, PromptLen)
    BY Zenon DEF ForwardOK
  <2>1. ASSUME NEW i \in 1 .. PromptLen PROVE PrefillInput[r][i][2] < ModelBlockSize
    <3>1. PrefillInput[r][i] = <<InputId(r, i), PositionId(r, i)>>
      BY Zenon DEF PrefillInput
    <3>2. PositionId(r, i) \in Int
      <4>1. PadLen(r) \in Nat
        BY <1>1, PadLenEffect
      <4>2. 0 \in Int /\ i - PadLen(r) - 1 \in Int
        BY <4>1
      <4>3. Max({0, i - PadLen(r) - 1}) \in Int
        BY <4>2, MinMaxPair
      <4> QED BY <4>3, Zenon DEF PositionId
    <3>3. PositionId(r, i) < PromptLen
      BY <1>3, <3>1
    <3>4. PositionId(r, i) < ModelBlockSize
      BY <1>2, <3>2, <3>3, Constants
    <3> QED BY <3>1, <3>4
  <2>2. HasRoom(slots[r], cache_len, PromptLen)
    BY <1>1, <1>2, SlotsLen DEF HasRoom
  <2> QED BY <2>1, <2>2
<1>5. /\ Forward(PromptLen, PrefillInput, PrefillMask)
      /\ pc' = "loop"
      /\ UNCHANGED <<prompts, driver, eot, generated, finished, steps>>
  BY <1>4, Zenon DEF Prefill
<1>6. ASSUME NEW r \in Rows, NEW i \in 1 .. PromptLen
      PROVE  \E a, b \in Nat : b <= CacheSize /\ PrefillMask[r][i] = a + 1 .. b
  <2>1. PadLen(r) \in Nat /\ i \in Nat /\ i <= CacheSize
    BY <1>1, <1>2, PadLenEffect
  <2> QED BY <2>1, PrefillMaskEffect, Zenon
<1>7. /\ slots' \in [Rows -> [1 .. CacheSize -> Cell]]
      /\ \A r \in Rows : \A c \in 1 .. CacheSize : slots'[r][c] =
           IF c \in 0 + 1 .. 0 + PromptLen THEN PrefillInput[r][c - 0] ELSE slots[r][c]
      /\ seen' \in [Rows -> Seq(Seq(Cell))]
      /\ \A r \in Rows : /\ Len(seen'[r]) = PromptLen
                         /\ \A i \in 1 .. PromptLen :
                              seen'[r][i] = Unmasked(slots'[r], PrefillMask[r][i])
      /\ cache_len' = 0 + PromptLen
  <2>1. PromptLen \in Nat
    BY <1>2
  <2>2. Fits(PromptLen, PrefillInput, PrefillMask)
    BY <1>3, <1>6, Zenon DEF Fits
  <2>3. Ran(PromptLen, PrefillInput, PrefillMask)
    BY <1>1, <1>5, <2>1, <2>2, ForwardEffect, Zenon
  <2> QED BY <1>1, <2>3, Zenon DEF Ran
<1>8. /\ PromptLen' = PromptLen /\ CacheSize' = CacheSize
      /\ \A r \in Rows : PadLen(r)' = PadLen(r)
  BY <1>5, SameBatch
<1>9. Typed'
  <2>1. cache_len' \in Nat
    BY <1>2, <1>7
  <2> QED BY <1>1, <1>5, <1>7, <1>8, <2>1 DEF Typed
<1>10. ASSUME NEW r \in Rows
       PROVE  /\ PadLen(r) \in Nat /\ PadLen(r) + Len(prompts[r]) = PromptLen
              /\ prompts[r] \in Seq(Tokens) /\ Len(prompts[r]) \in Nat \ {0}
              /\ \A i \in 1 .. Len(prompts[r]) :
                   slots'[r][PadLen(r) + i] = <<prompts[r][i], i - 1>>
  <2>1. /\ PadLen(r) \in Nat /\ PadLen(r) + Len(prompts[r]) = PromptLen
        /\ prompts[r] \in Seq(Tokens) /\ Len(prompts[r]) \in Nat \ {0}
    BY <1>1, PadLenEffect, PromptLenIsMax
  <2>2. ASSUME NEW i \in 1 .. Len(prompts[r])
        PROVE  slots'[r][PadLen(r) + i] = <<prompts[r][i], i - 1>>
    <3> DEFINE c == PadLen(r) + i
    <3>1. c \in 1 .. CacheSize /\ c \in 0 + 1 .. 0 + PromptLen /\ c - 0 = c
      BY <1>2, <2>1
    <3> HIDE DEF c
    <3>2. slots'[r][c] = PrefillInput[r][c]
      BY <1>7, <3>1, Zenon
    <3>3. PrefillInput[r][c] = <<prompts[r][i], i - 1>>
      BY <1>3, Zenon DEF c
    <3> QED BY <3>2, <3>3, Zenon DEF c
  <2> QED BY <2>1, <2>2
<1>11. ASSUME NEW r \in Rows PROVE RowSeen(r)'
  <2> SUFFICES ASSUME NEW q \in 1 .. PromptLen,
                      Len(prompts[r]) - (PromptLen - q) >= 1
               PROVE  seen'[r][q] =
                        Placed(SubSeq(prompts[r], 1, Len(prompts[r]) - (PromptLen - q)))
    BY <1>1, <1>2, <1>5, <1>7 DEF RowSeen
  <2> DEFINE k == Len(prompts[r]) - (PromptLen - q)
  <2>0. /\ PadLen(r) \in Nat /\ prompts[r] \in Seq(Tokens)
        /\ \A i \in 1 .. Len(prompts[r]) :
             slots'[r][PadLen(r) + i] = <<prompts[r][i], i - 1>>
    BY <1>10
  <2>1. k \in 0 .. Len(prompts[r]) /\ PadLen(r) + k = q
    <3>1. /\ PadLen(r) \in Nat /\ PadLen(r) + Len(prompts[r]) = PromptLen
          /\ Len(prompts[r]) \in Nat /\ PromptLen \in Nat /\ k >= 1
      BY <1>2, <1>10
    <3> QED BY <3>1
  <2> HIDE DEF k
  <2>2. Unmasked(slots'[r], Behind(PadLen(r), k)) = Placed(SubSeq(prompts[r], 1, k))
    <3>1. Holds(slots'[r], PadLen(r), prompts[r])
      BY <2>0, Zenon DEF Holds
    <3> QED BY <2>0, <2>1, <3>1, UnmaskedIsPlaced, Zenon
  <2>3. seen'[r][q] = Unmasked(slots'[r], PadLen(r) + 1 .. q)
    <3>1. seen'[r][q] = Unmasked(slots'[r], PrefillMask[r][q])
      BY <1>7
    <3>2. PrefillMask[r][q] = PadLen(r) + 1 .. q
      BY PrefillMaskEffect
    <3> QED BY <3>1, <3>2, Zenon
  <2>4. seen'[r][q] = Placed(SubSeq(prompts[r], 1, k))
    <3>1. Behind(PadLen(r), k) = PadLen(r) + 1 .. q
      BY <2>1, Zenon DEF Behind
    <3> QED BY <2>2, <2>3, <3>1, Zenon
  <2> QED BY <2>4 DEF k
<1>12. ASSUME NEW r \in Rows PROVE RowCached(r)' /\ RowDecoded(r)'
  <2>1. RowCached(r)'
    BY <1>1, <1>5, <1>8, <1>10 DEF RowCached, Holds
  <2>2. RowDecoded(r)'
    BY <1>1, <1>5 DEF RowDecoded
  <2> QED BY <2>1, <2>2
<1>13. cache_len' = PromptLen' + steps'
  BY <1>1, <1>2, <1>5, <1>7, <1>8
<1> QED BY <1>5, <1>9, <1>11, <1>12, <1>13 DEF Inv

LEMMA WholeSeq ==
  ASSUME NEW S, NEW s \in Seq(S)
  PROVE  SubSeq(s, 1, Len(s)) = s
<1>1. Len(s) \in Nat /\ \A i \in 1 .. Len(s) : s[i] \in S
  BY LenProperties, ElementOfSeq
<1>2. /\ SubSeq(s, 1, Len(s)) \in Seq(S)
      /\ Len(SubSeq(s, 1, Len(s))) = IF 1 <= Len(s) THEN Len(s) - 1 + 1 ELSE 0
      /\ \A i \in 1 .. Len(s) - 1 + 1 : SubSeq(s, 1, Len(s))[i] = s[1 + i - 1]
  BY <1>1, SubSeqProperties
<1>3. Len(SubSeq(s, 1, Len(s))) = Len(s)
  BY <1>1, <1>2
<1>4. \A i \in 1 .. Len(s) : SubSeq(s, 1, Len(s))[i] = s[i]
  <2>1. \A i \in 1 .. Len(s) : 1 + i - 1 = i /\ i \in 1 .. Len(s) - 1 + 1
    BY <1>1
  <2> QED BY <1>2, <2>1
<1> QED BY <1>2, <1>3, <1>4, SeqEqual

\* The last query of a row that is not finished saw all of its tokens.
LEMMA LastQuery ==
  ASSUME Typed, NEW r \in Rows, RowDecoded(r), RowSeen(r)
  PROVE  seen[r][Len(seen[r])] = Placed(generated[r])
<1>1. /\ generated[r] \in Seq(Tokens) /\ Len(generated[r]) \in Nat /\ Len(generated[r]) >= 1
      /\ Len(seen[r]) \in Nat /\ Len(seen[r]) >= 1
  <2>1. prompts \in [Rows -> Prompts] /\ seen[r] \in Seq(Seq(Cell))
    BY DEF Typed
  <2>2. Len(prompts[r]) \in Nat \ {0}
    BY <2>1, PromptLenIsMax
  <2>3. generated[r] \in Seq(Tokens)
    BY DEF Typed
  <2>4. Len(generated[r]) \in Nat /\ Len(seen[r]) \in Nat
    BY <2>1, <2>3, LenProperties
  <2> QED BY <2>2, <2>3, <2>4 DEF RowDecoded, RowSeen
<1>2. PICK q : q = Len(seen[r])
  OBVIOUS
<1>3. /\ q \in 1 .. Len(seen[r])
      /\ Len(generated[r]) - (Len(seen[r]) - q) = Len(generated[r])
      /\ Len(generated[r]) - (Len(seen[r]) - q) >= 1
  BY <1>1, <1>2
<1>4. seen[r][q] =
        Placed(SubSeq(generated[r], 1, Len(generated[r]) - (Len(seen[r]) - q)))
  BY <1>3 DEF RowSeen
<1>5. SubSeq(generated[r], 1, Len(generated[r])) = generated[r]
  BY <1>1, WholeSeq
<1> QED BY <1>2, <1>3, <1>4, <1>5, Zenon

\* A step of the loop: a token for every row, drawn after exactly the tokens of
\* the row when it is not finished.
Stepped(next) ==
    /\ next \in [Rows -> Tokens]
    /\ \A r \in Rows : ~ finished[r] => next[r] \in Target(Placed(generated[r]))
    /\ generated' = [r \in Rows |-> Kept(r, next[r])]
    /\ finished' = [r \in Rows |-> finished[r] \/ next[r] = eot]
    /\ steps' = steps + 1 /\ steps < MaxNewTokens
    /\ UNCHANGED <<prompts, driver, eot>>
    /\ \/ pc' = "done" /\ UNCHANGED <<slots, cache_len, seen>>
       \/ pc' = "loop" /\ Forward(1, DecodeInput(next), DecodeMask)

\* A new token's entry is at the position behind the row's tokens.
LEMMA DecodeInputEffect ==
  ASSUME Assumed, Inv, pc = "loop", steps < MaxNewTokens,
         NEW next \in [Rows -> Tokens], NEW r \in Rows
  PROVE  /\ DecodePosition(r) = Len(prompts[r]) + steps
         /\ DecodePosition(r) \in Nat /\ DecodePosition(r) < ModelBlockSize
         /\ DecodeInput(next)[r] = <<<<next[r], DecodePosition(r)>>>>
         /\ DecodeInput(next)[r] \in Seq(Cell) /\ Len(DecodeInput(next)[r]) = 1
<1>1. /\ prompts \in [Rows -> Prompts] /\ steps \in Nat /\ cache_len = PromptLen + steps
  BY Constants DEF Inv, Typed
<1>2. /\ PadLen(r) \in Nat /\ PadLen(r) + Len(prompts[r]) = PromptLen
      /\ Len(prompts[r]) \in Nat /\ PromptLen \in Nat
  BY <1>1, PadLenEffect, PromptLenIsMax
<1>3. DecodePosition(r) = Len(prompts[r]) + steps
  BY <1>1, <1>2 DEF DecodePosition
<1>4. Len(prompts[r]) + MaxNewTokens <= ModelBlockSize
  BY <1>1 DEF Assumed, PromptsFit
<1>5. DecodePosition(r) \in Nat /\ DecodePosition(r) < ModelBlockSize
  BY <1>1, <1>2, <1>3, <1>4, Constants
<1>6. DecodeInput(next)[r] = <<<<next[r], DecodePosition(r)>>>>
  BY Zenon DEF DecodeInput
<1>7. <<next[r], DecodePosition(r)>> \in Cell
  BY <1>5, Zenon DEF Cell
<1>8. PICK e : e = <<next[r], DecodePosition(r)>>
  OBVIOUS
<1>9. e \in Cell /\ DecodeInput(next)[r] = <<e>>
  BY <1>6, <1>7, <1>8, Zenon
<1>10. <<e>> \in Seq(Cell) /\ Len(<<e>>) = 1
  BY <1>9
<1> QED BY <1>3, <1>5, <1>6, <1>9, <1>10, Zenon

LEMMA IterateEffect ==
  ASSUME Assumed, Inv, Iterate
  PROVE  \E next : Stepped(next)
<1>1. /\ Typed /\ pc = "loop" /\ steps < MaxNewTokens /\ steps \in Nat
      /\ cache_len = PromptLen + steps /\ prompts \in [Rows -> Prompts]
      /\ \A r \in Rows : RowDecoded(r) /\ (~ finished[r] => RowCached(r) /\ RowSeen(r))
  <2>1. pc = "loop" /\ steps < MaxNewTokens
    BY Zenon DEF Iterate
  <2>2. Typed /\ prompts \in [Rows -> Prompts] /\ steps \in 0 .. MaxNewTokens
    BY DEF Inv, Typed
  <2>3. steps \in Nat
    BY <2>2
  <2> QED BY <2>1, <2>2, <2>3, Zenon DEF Inv
<1>2. PICK next \in [Rows -> UNION { NextTokens(r) : r \in Rows }] :
        /\ \A r \in Rows : next[r] \in NextTokens(r)
        /\ LET ends == [r \in Rows |-> finished[r] \/ next[r] = eot]
           IN  IF ~ AllEnd(ends) /\ ~ ForwardOK(1, DecodeInput(next))
               THEN Raise
               ELSE /\ generated' = [r \in Rows |-> Kept(r, next[r])]
                    /\ finished' = ends
                    /\ steps' = steps + 1
                    /\ IF AllEnd(ends)
                       THEN pc' = "done" /\ UNCHANGED <<slots, cache_len, seen>>
                       ELSE /\ Forward(1, DecodeInput(next), DecodeMask)
                            /\ UNCHANGED pc
                    /\ UNCHANGED <<prompts, driver, eot>>
  BY Zenon DEF Iterate
<1>3. ASSUME NEW r \in Rows, ~ finished[r]
      PROVE  next[r] \in Target(Placed(generated[r]))
  <2>1. seen[r][Len(seen[r])] = Placed(generated[r])
    BY <1>1, <1>3, LastQuery
  <2>2. next[r] \in Target(seen[r][Len(seen[r])])
    BY <1>2, <1>3, Zenon DEF NextTokens
  <2> QED BY <2>1, <2>2, Zenon
<1>4. ASSUME NEW r \in Rows PROVE next[r] \in Tokens
  <2>1. CASE finished[r]
    <3>1. next[r] = eot
      BY <1>2, <2>1, Zenon DEF NextTokens
    <3>2. eot \in Tokens
      BY <1>1, <2>1 DEF RowDecoded
    <3> QED BY <3>1, <3>2
  <2>2. CASE ~ finished[r]
    <3>1. Placed(generated[r]) \in Seq(Cell)
      <4>1. generated[r] \in Seq(Tokens) /\ Len(generated[r]) \in Nat
        BY <1>1, LenProperties DEF Typed
      <4>2. PICK f : f = [i \in 1 .. Len(generated[r]) |-> <<generated[r][i], i - 1>>]
        OBVIOUS
      <4> QED BY <4>1, <4>2, PlacedUnique, Zenon
    <3> QED BY <1>3, <2>2, <3>1 DEF Assumed, TargetGivesTokens
  <2> QED BY <2>1, <2>2
<1>5. next \in [Rows -> Tokens]
  BY <1>2, <1>4
<1>6. ForwardOK(1, DecodeInput(next))
  <2> SUFFICES ASSUME NEW r \in Rows
               PROVE  /\ \A i \in 1 .. 1 : DecodeInput(next)[r][i][2] < ModelBlockSize
                      /\ HasRoom(slots[r], cache_len, 1)
    BY Zenon DEF ForwardOK
  <2>1. /\ DecodeInput(next)[r] = <<<<next[r], DecodePosition(r)>>>>
        /\ DecodePosition(r) < ModelBlockSize
    BY <1>1, <1>5, DecodeInputEffect
  <2>2. DecodeInput(next)[r][1][2] < ModelBlockSize
    BY <2>1
  <2>3. \A i \in 1 .. 1 : i = 1
    OBVIOUS
  <2>4. HasRoom(slots[r], cache_len, 1)
    <3>1. /\ CacheSize \in Nat /\ PromptLen + MaxNewTokens <= CacheSize
          /\ PromptLen \in Nat /\ Len(slots[r]) = CacheSize
      BY <1>1, CacheSizeEffect, PromptLenIsMax, SlotsLen
    <3> QED BY <1>1, <3>1, Constants DEF HasRoom
  <2> QED BY <2>2, <2>3, <2>4, Zenon
<1>7. /\ generated' = [r \in Rows |-> Kept(r, next[r])]
      /\ finished' = [r \in Rows |-> finished[r] \/ next[r] = eot]
      /\ steps' = steps + 1
      /\ UNCHANGED <<prompts, driver, eot>>
      /\ \/ pc' = "done" /\ UNCHANGED <<slots, cache_len, seen>>
         \/ pc' = pc /\ Forward(1, DecodeInput(next), DecodeMask)
  BY <1>2, <1>6, Zenon
<1> QED BY <1>1, <1>3, <1>5, <1>7, Zenon DEF Stepped

\* A step keeps what is known of the rows.
LEMMA SteppedRows ==
  ASSUME Assumed, Inv, NEW next, Stepped(next), NEW r \in Rows
  PROVE  /\ generated'[r] \in Seq(Tokens)
         /\ RowDecoded(r)'
         /\ ~ finished'[r] => ~ finished[r] /\ generated'[r] = Append(generated[r], next[r])
<1>1. /\ prompts \in [Rows -> Prompts] /\ generated[r] \in Seq(Tokens) /\ steps \in Nat
      /\ finished[r] \in BOOLEAN /\ next[r] \in Tokens /\ RowDecoded(r)
      /\ steps' = steps + 1 /\ prompts' = prompts /\ eot' = eot
      /\ generated'[r] = Kept(r, next[r])
      /\ finished'[r] = (finished[r] \/ next[r] = eot)
  <2>1. Typed /\ RowDecoded(r)
    BY DEF Inv
  <2>2. /\ prompts \in [Rows -> Prompts] /\ generated[r] \in Seq(Tokens)
        /\ steps \in 0 .. MaxNewTokens /\ finished[r] \in BOOLEAN
    BY <2>1 DEF Typed
  <2>3. steps \in Nat
    BY <2>2, Constants
  <2>4. /\ next[r] \in Tokens /\ steps' = steps + 1 /\ prompts' = prompts /\ eot' = eot
        /\ generated'[r] = Kept(r, next[r])
        /\ finished'[r] = (finished[r] \/ next[r] = eot)
    BY Zenon DEF Stepped
  <2> QED BY <2>1, <2>2, <2>3, <2>4
<1>2. Len(prompts[r]) \in Nat /\ Len(generated[r]) \in Nat
  BY <1>1, PromptLenIsMax, LenProperties
<1>3. CASE finished[r]
  <2>1. generated'[r] = generated[r] /\ finished'[r]
    BY <1>1, <1>3, Zenon DEF Kept
  <2>2. RowDecoded(r)'
    BY <1>1, <1>2, <1>3, <2>1 DEF RowDecoded
  <2> QED BY <1>1, <2>1, <2>2
<1>4. CASE ~ finished[r]
  <2>1. generated'[r] = Append(generated[r], next[r])
    BY <1>1, <1>4, Zenon DEF Kept
  <2>2. /\ generated'[r] \in Seq(Tokens)
        /\ Len(generated'[r]) = Len(generated[r]) + 1
        /\ \A i \in 1 .. Len(generated[r]) : generated'[r][i] = generated[r][i]
        /\ generated'[r][Len(generated[r]) + 1] = next[r]
    BY <1>1, <2>1, AppendProperties
  <2>3. /\ Len(generated[r]) = Len(prompts[r]) + steps
        /\ \A i \in 1 .. Len(prompts[r]) : generated[r][i] = prompts[r][i]
        /\ \A i \in Len(prompts[r]) + 1 .. Len(generated[r]) : generated[r][i] # eot
    BY <1>1, <1>4 DEF RowDecoded
  <2>4. finished'[r] => eot' \in Tokens
    BY <1>1, <1>4
  <2>5. \A i \in 1 .. Len(prompts[r]) : generated'[r][i] = prompts[r][i]
    <3>1. \A i \in 1 .. Len(prompts[r]) : i \in 1 .. Len(generated[r])
      BY <1>1, <1>2, <2>3
    <3> QED BY <2>2, <2>3, <3>1, Zenon
  <2>6. ASSUME ~ finished'[r]
        PROVE  \A i \in Len(prompts[r]) + 1 .. Len(generated'[r]) : generated'[r][i] # eot
    <3> SUFFICES ASSUME NEW i \in Len(prompts[r]) + 1 .. Len(generated'[r])
                 PROVE  generated'[r][i] # eot
      OBVIOUS
    <3>1. CASE i = Len(generated[r]) + 1
      BY <1>1, <2>2, <2>6, <3>1, Zenon
    <3>2. CASE i # Len(generated[r]) + 1
      <4>1. i \in Len(prompts[r]) + 1 .. Len(generated[r]) /\ i \in 1 .. Len(generated[r])
        BY <1>2, <2>2, <3>2
      <4> QED BY <2>2, <2>3, <4>1, Zenon
    <3> QED BY <3>1, <3>2
  <2>7. Len(generated'[r]) = Len(prompts[r]) + steps'
    BY <1>1, <1>2, <2>2, <2>3
  <2>8. RowDecoded(r)'
    BY <1>1, <1>2, <2>4, <2>5, <2>6, <2>7 DEF RowDecoded
  <2> QED BY <1>4, <2>1, <2>2, <2>8
<1> QED BY <1>1, <1>3, <1>4

\* The forward of a step puts the new tokens behind the old ones and lets their
\* queries see both.
LEMMA SteppedCache ==
  ASSUME Assumed, Inv, pc = "loop", NEW next, Stepped(next),
         Forward(1, DecodeInput(next), DecodeMask)
  PROVE  /\ slots' \in [Rows -> [1 .. CacheSize -> Cell]]
         /\ seen' \in [Rows -> Seq(Seq(Cell))]
         /\ cache_len' = PromptLen + steps'
         /\ \A r \in Rows : ~ finished'[r] => RowCached(r)' /\ RowSeen(r)'
<1>1. /\ Typed /\ prompts \in [Rows -> Prompts] /\ steps \in Nat /\ steps < MaxNewTokens
      /\ cache_len = PromptLen + steps /\ next \in [Rows -> Tokens]
      /\ steps' = steps + 1 /\ UNCHANGED <<prompts, driver>>
  <2>1. Typed /\ cache_len = PromptLen + steps
    BY DEF Inv
  <2>2. prompts \in [Rows -> Prompts] /\ steps \in 0 .. MaxNewTokens
    BY <2>1 DEF Typed
  <2>3. steps \in Nat
    BY <2>2, Constants
  <2>4. /\ steps < MaxNewTokens /\ next \in [Rows -> Tokens]
        /\ steps' = steps + 1 /\ UNCHANGED <<prompts, driver>>
    BY Zenon DEF Stepped
  <2> QED BY <2>1, <2>2, <2>3, <2>4
<1>2. /\ PromptLen \in Nat /\ CacheSize \in Nat /\ PromptLen + MaxNewTokens <= CacheSize
  BY <1>1, CacheSizeEffect, PromptLenIsMax
<1>3. \A r \in Rows :
        /\ DecodePosition(r) = Len(prompts[r]) + steps
        /\ DecodeInput(next)[r] = <<<<next[r], DecodePosition(r)>>>>
        /\ DecodeInput(next)[r] \in Seq(Cell) /\ Len(DecodeInput(next)[r]) = 1
  BY <1>1, DecodeInputEffect
<1>4. \A r \in Rows : DecodeMask[r] = <<PadLen(r) + 1 .. cache_len + 1>>
  BY Zenon DEF DecodeMask
<1>5. Fits(1, DecodeInput(next), DecodeMask)
  <2> SUFFICES ASSUME NEW r \in Rows, NEW i \in 1 .. 1
               PROVE  \E a, b \in Nat : b <= CacheSize /\ DecodeMask[r][i] = a + 1 .. b
    BY <1>3, Zenon DEF Fits
  <2>1. i = 1
    OBVIOUS
  <2>2. PadLen(r) \in Nat /\ cache_len + 1 \in Nat /\ cache_len + 1 <= CacheSize
    BY <1>1, <1>2, PadLenEffect, Constants
  <2>3. DecodeMask[r][1] = PadLen(r) + 1 .. cache_len + 1
    BY <1>4
  <2> QED BY <2>1, <2>2, <2>3, Zenon
<1>6. Ran(1, DecodeInput(next), DecodeMask)
  <2>1. 1 \in Nat
    OBVIOUS
  <2> QED BY <1>1, <1>5, <2>1, ForwardEffect, Zenon
<1>7. /\ slots' \in [Rows -> [1 .. CacheSize -> Cell]]
      /\ seen' \in [Rows -> Seq(Seq(Cell))]
      /\ cache_len' = cache_len + 1
  BY <1>6, Zenon DEF Ran
<1>8. ASSUME NEW r \in Rows, ~ finished'[r] PROVE RowCached(r)' /\ RowSeen(r)'
  <2> DEFINE g == generated[r]
             pad == PadLen(r)
             t == next[r]
  <2>1. /\ ~ finished[r] /\ generated'[r] = Append(g, t) /\ g \in Seq(Tokens) /\ t \in Tokens
    BY <1>1, <1>8, SteppedRows DEF Typed
  <2>2. /\ Len(g) \in Nat /\ pad \in Nat /\ pad + Len(g) = cache_len
        /\ DecodePosition(r) = Len(g) /\ Holds(slots[r], pad, g)
    <3>1. RowDecoded(r) /\ RowCached(r)
      BY <2>1 DEF Inv
    <3>2. Len(g) = Len(prompts[r]) + steps /\ Len(g) \in Nat
      BY <2>1, <3>1, LenProperties DEF RowDecoded
    <3>3. pad \in Nat /\ pad + Len(prompts[r]) = PromptLen /\ Len(prompts[r]) \in Nat
      BY <1>1, PadLenEffect, PromptLenIsMax
    <3>4. pad + Len(g) = cache_len
      BY <1>1, <1>2, <3>2, <3>3
    <3> QED BY <1>3, <3>1, <3>2, <3>3, <3>4 DEF RowCached
  <2>3. /\ Append(g, t) \in Seq(Tokens) /\ Len(Append(g, t)) = Len(g) + 1
        /\ \A i \in 1 .. Len(g) : Append(g, t)[i] = g[i]
        /\ Append(g, t)[Len(g) + 1] = t
    BY <2>1, AppendProperties
  <2>4. \A c \in 1 .. CacheSize : slots'[r][c] =
          IF c \in cache_len + 1 .. cache_len + 1
          THEN DecodeInput(next)[r][c - cache_len] ELSE slots[r][c]
    BY <1>6, Zenon DEF Ran
  <2>5. DecodeInput(next)[r][1] = <<t, Len(g)>>
    <3>1. DecodeInput(next)[r] = <<<<t, Len(g)>>>>
      BY <1>3, <2>2
    <3> QED BY <3>1
  <2>6. PICK u : u = Append(g, t)
    OBVIOUS
  <2> HIDE DEF g, pad, t
  <2>7. ASSUME NEW i \in 1 .. Len(g) + 1
        PROVE  slots'[r][pad + i] = <<u[i], i - 1>>
    <3>1. PICK c : c = pad + i
      OBVIOUS
    <3>2. c \in 1 .. CacheSize
      BY <1>1, <1>2, <2>2, <3>1, Constants
    <3>3. CASE i = Len(g) + 1
      <4>1. c \in cache_len + 1 .. cache_len + 1 /\ c - cache_len = 1 /\ i - 1 = Len(g)
        BY <2>2, <3>1, <3>3
      <4>2. slots'[r][c] = DecodeInput(next)[r][1]
        <5>1. slots'[r][c] = IF c \in cache_len + 1 .. cache_len + 1
                             THEN DecodeInput(next)[r][c - cache_len] ELSE slots[r][c]
          BY <2>4, <3>2
        <5>2. slots'[r][c] = DecodeInput(next)[r][c - cache_len]
          BY <4>1, <5>1, Zenon
        <5> QED BY <4>1, <5>2, Zenon
      <4> QED BY <2>3, <2>5, <2>6, <3>1, <3>3, <4>1, <4>2, Zenon
    <3>4. CASE i # Len(g) + 1
      <4>1. i \in 1 .. Len(g) /\ c \notin cache_len + 1 .. cache_len + 1
        BY <2>2, <3>1, <3>4
      <4>2. slots'[r][c] = slots[r][c]
        BY <2>4, <3>2, <4>1, Zenon
      <4>3. slots[r][c] = <<g[i], i - 1>>
        BY <2>2, <3>1, <4>1, Zenon DEF Holds
      <4> QED BY <2>3, <2>6, <3>1, <4>1, <4>2, <4>3, Zenon
    <3> QED BY <3>3, <3>4
  <2>8. /\ u \in Seq(Tokens) /\ Len(u) = Len(g) + 1 /\ generated'[r] = u
    BY <2>1, <2>3, <2>6, Zenon
  <2>9. Holds(slots'[r], pad, u)
    BY <2>7, <2>8, Zenon DEF Holds
  <2>10. PadLen(r)' = pad
    BY <1>1, SameBatch DEF pad
  <2>11. RowCached(r)'
    BY <2>8, <2>9, <2>10, Zenon DEF RowCached
  <2>12. Len(seen'[r]) = 1 /\ seen'[r][1] = Placed(u)
    <3>1. /\ Len(seen'[r]) = 1
          /\ \A i \in 1 .. 1 : seen'[r][i] = Unmasked(slots'[r], DecodeMask[r][i])
      BY <1>6, Zenon DEF Ran
    <3>2. 1 \in 1 .. 1 /\ DecodeMask[r][1] = pad + 1 .. cache_len + 1
      BY <1>4 DEF pad
    <3>3. pad + Len(u) = cache_len + 1 /\ Len(u) \in 0 .. Len(u)
      BY <2>2, <2>8
    <3>4. Unmasked(slots'[r], Behind(pad, Len(u))) = Placed(SubSeq(u, 1, Len(u)))
      BY <2>2, <2>8, <2>9, <3>3, UnmaskedIsPlaced, Zenon
    <3>5. Behind(pad, Len(u)) = pad + 1 .. cache_len + 1
      BY <3>3, Zenon DEF Behind
    <3>6. SubSeq(u, 1, Len(u)) = u
      BY <2>8, WholeSeq
    <3> QED BY <3>1, <3>2, <3>4, <3>5, <3>6, Zenon
  <2>13. RowSeen(r)'
    <3> SUFFICES ASSUME NEW q \in 1 .. 1
                 PROVE  seen'[r][q] = Placed(SubSeq(u, 1, Len(u) - (1 - q)))
      BY <2>8, <2>12 DEF RowSeen
    <3>1. q = 1 /\ Len(u) - (1 - q) = Len(u)
      BY <2>2, <2>8
    <3>2. SubSeq(u, 1, Len(u)) = u
      BY <2>8, WholeSeq
    <3> QED BY <2>12, <3>1, <3>2, Zenon
  <2> QED BY <2>11, <2>13
<1>9. cache_len' = PromptLen + steps'
  BY <1>1, <1>2, <1>7
<1> QED BY <1>7, <1>8, <1>9

LEMMA IterateInv ==
  ASSUME Assumed, Inv, Iterate
  PROVE  Inv'
<1>1. PICK next : Stepped(next)
  BY IterateEffect
<1>2. /\ Typed /\ pc = "loop" /\ steps' = steps + 1 /\ steps < MaxNewTokens
      /\ UNCHANGED <<prompts, driver, eot>>
      /\ steps \in 0 .. MaxNewTokens
  <2>1. Typed /\ pc = "loop"
    BY Zenon DEF Inv, Iterate
  <2>2. steps \in 0 .. MaxNewTokens
    BY <2>1 DEF Typed
  <2> QED BY <1>1, <2>1, <2>2, Zenon DEF Stepped
<1>3. \A r \in Rows : generated'[r] \in Seq(Tokens) /\ RowDecoded(r)'
  BY <1>1, SteppedRows
<1>4. PromptLen' = PromptLen /\ CacheSize' = CacheSize
  BY <1>2, SameBatch
<1>5. /\ generated' \in [Rows -> Seq(Tokens)] /\ finished' \in [Rows -> BOOLEAN]
      /\ steps' \in 0 .. MaxNewTokens
  <2>1. /\ generated' = [r \in Rows |-> Kept(r, next[r])]
        /\ finished' = [r \in Rows |-> finished[r] \/ next[r] = eot]
    BY <1>1, Zenon DEF Stepped
  <2>2. generated' \in [Rows -> Seq(Tokens)]
    BY <1>3, <2>1
  <2>3. finished' \in [Rows -> BOOLEAN]
    BY <2>1
  <2>4. steps' \in 0 .. MaxNewTokens
    BY <1>2, Constants
  <2> QED BY <2>2, <2>3, <2>4
<1>6. CASE pc' = "done" /\ UNCHANGED <<slots, cache_len, seen>>
  <2>1. Typed'
    BY <1>2, <1>4, <1>5, <1>6 DEF Typed
  <2> QED BY <1>3, <1>6, <2>1 DEF Inv
<1>7. CASE pc' = "loop" /\ Forward(1, DecodeInput(next), DecodeMask)
  <2>1. /\ slots' \in [Rows -> [1 .. CacheSize -> Cell]]
        /\ seen' \in [Rows -> Seq(Seq(Cell))]
        /\ cache_len' = PromptLen + steps'
        /\ \A r \in Rows : ~ finished'[r] => RowCached(r)' /\ RowSeen(r)'
    BY <1>1, <1>2, <1>7, SteppedCache
  <2>2. cache_len' \in Nat
    <3>1. PromptLen \in Nat
      BY <1>2, PromptLenIsMax DEF Typed
    <3>2. steps' \in Nat
      BY <1>5, Constants
    <3>3. cache_len' = PromptLen + steps'
      BY <2>1, Zenon
    <3>4. \A m, n \in Nat : m + n \in Nat
      OBVIOUS
    <3> QED BY <3>1, <3>2, <3>3, <3>4, Zenon
  <2>3. Typed'
    BY <1>2, <1>4, <1>5, <1>7, <2>1, <2>2 DEF Typed
  <2> QED BY <1>3, <1>4, <1>7, <2>1, <2>3 DEF Inv
<1>8. \/ pc' = "done" /\ UNCHANGED <<slots, cache_len, seen>>
      \/ pc' = "loop" /\ Forward(1, DecodeInput(next), DecodeMask)
  BY <1>1, Zenon DEF Stepped
<1> QED BY <1>6, <1>7, <1>8

LEMMA UnchangedInv ==
  ASSUME Inv, UNCHANGED <<prompts, driver, eot, generated, slots, cache_len, seen,
                          finished, steps>>,
         pc' \in {pc, "done"}
  PROVE  Inv'
<1>1. /\ PromptLen' = PromptLen /\ CacheSize' = CacheSize
      /\ \A r \in Rows : PadLen(r)' = PadLen(r)
  BY SameBatch
<1>2. Typed'
  BY <1>1 DEF Inv, Typed
<1>3. \A r \in Rows : RowDecoded(r)'
  BY DEF Inv, RowDecoded
<1>4. \A r \in Rows : (RowCached(r) => RowCached(r)') /\ (RowSeen(r) => RowSeen(r)')
  BY <1>1, Zenon DEF RowCached, RowSeen
<1>5. (pc' = "prefill" => pc = "prefill") /\ (pc' = "loop" => pc = "loop")
  BY DEF Inv, Typed
<1>6. pc' = "prefill" => Fresh'
  BY <1>5, Zenon DEF Inv, Fresh
<1>7. pc' = "loop" => cache_len' = PromptLen' + steps'
  BY <1>1, <1>5, Zenon DEF Inv
<1>8. pc' = "loop" => \A r \in Rows : ~ finished'[r] => RowCached(r)' /\ RowSeen(r)'
  BY <1>4, <1>5, Zenon DEF Inv
<1> QED BY <1>2, <1>3, <1>6, <1>7, <1>8, Zenon DEF Inv

LEMMA NextInv ==
  ASSUME Assumed, Inv, [Next]_vars
  PROVE  Inv'
<1>1. CASE Prefill
  BY <1>1, PrefillInv
<1>2. CASE Iterate
  BY <1>2, IterateInv
<1>3. CASE Return
  BY <1>3, UnchangedInv DEF Return
<1>4. CASE UNCHANGED vars
  BY <1>4, UnchangedInv DEF vars
<1> QED BY <1>1, <1>2, <1>3, <1>4 DEF Next

-----------------------------------------------------------------------------
(* Every row implements Decoding.                                          *)

\* The part of a sequence behind another one's length.
Rest(g, n) == SubSeq(g, n + 1, Len(g))

LEMMA RestEffect ==
  ASSUME NEW S, NEW g \in Seq(S), NEW n \in 0 .. Len(g)
  PROVE  /\ Rest(g, n) \in Seq(S) /\ Len(Rest(g, n)) = Len(g) - n
         /\ \A i \in 1 .. Len(g) - n : Rest(g, n)[i] = g[n + i]
<1>1. Len(g) \in Nat /\ n \in Nat /\ n <= Len(g)
  BY LenProperties
<1>2. \A i \in n + 1 .. Len(g) : g[i] \in S
  <2>1. \A i \in n + 1 .. Len(g) : i \in 1 .. Len(g)
    BY <1>1
  <2> QED BY <2>1, ElementOfSeq
<1>3. /\ SubSeq(g, n + 1, Len(g)) \in Seq(S)
      /\ Len(SubSeq(g, n + 1, Len(g))) = IF n + 1 <= Len(g) THEN Len(g) - (n + 1) + 1 ELSE 0
      /\ \A i \in 1 .. Len(g) - (n + 1) + 1 :
           SubSeq(g, n + 1, Len(g))[i] = g[n + 1 + i - 1]
  BY <1>1, <1>2, SubSeqProperties
<1>4. Len(SubSeq(g, n + 1, Len(g))) = Len(g) - n
  BY <1>1, <1>3
<1>5. ASSUME NEW i \in 1 .. Len(g) - n
      PROVE  SubSeq(g, n + 1, Len(g))[i] = g[n + i]
  <2>1. i \in 1 .. Len(g) - (n + 1) + 1 /\ n + 1 + i - 1 = n + i
    BY <1>1
  <2> QED BY <1>3, <2>1
<1> QED BY <1>3, <1>4, <1>5 DEF Rest

\* A prefix and the rest are the whole.
LEMMA PrefixAndRest ==
  ASSUME NEW S, NEW g \in Seq(S), NEW p \in Seq(S), Len(p) <= Len(g),
         \A i \in 1 .. Len(p) : g[i] = p[i]
  PROVE  p \o Rest(g, Len(p)) = g
<1> DEFINE out == Rest(g, Len(p))
           n == Len(p)
<1>1. Len(g) \in Nat /\ n \in Nat /\ n \in 0 .. Len(g)
  BY LenProperties
<1>2. out \in Seq(S) /\ Len(out) = Len(g) - n /\ \A i \in 1 .. Len(g) - n : out[i] = g[n + i]
  BY <1>1, RestEffect
<1> HIDE DEF out
<1>3. /\ p \o out \in Seq(S) /\ Len(p \o out) = n + Len(out)
      /\ \A i \in 1 .. n + Len(out) :
           (p \o out)[i] = IF i <= n THEN p[i] ELSE out[i - n]
  BY <1>2, ConcatProperties
<1>4. Len(p \o out) = Len(g)
  BY <1>1, <1>2, <1>3
<1>5. ASSUME NEW i \in 1 .. Len(g) PROVE (p \o out)[i] = g[i]
  <2>1. (p \o out)[i] = IF i <= n THEN p[i] ELSE out[i - n]
    BY <1>1, <1>2, <1>3
  <2>2. CASE i <= n
    <3>1. i \in 1 .. n
      BY <1>1, <2>2
    <3> QED BY <2>1, <2>2, <3>1, Zenon
  <2>3. CASE ~ (i <= n)
    <3>1. i - n \in 1 .. Len(g) - n /\ n + (i - n) = i
      BY <1>1, <2>3
    <3>2. out[i - n] = g[n + (i - n)]
      BY <1>2, <3>1, Zenon
    <3> QED BY <2>1, <2>3, <3>1, <3>2, Zenon
  <2> QED BY <2>2, <2>3
<1>6. p \o out = g
  BY <1>3, <1>4, <1>5, SeqEqual
<1> QED BY <1>6 DEF out

\* What is appended to the whole is appended to the rest.
LEMMA RestOfAppend ==
  ASSUME NEW S, NEW g \in Seq(S), NEW n \in 0 .. Len(g), NEW t \in S
  PROVE  Rest(Append(g, t), n) = Append(Rest(g, n), t)
<1> DEFINE u == Append(g, t)
           out == Rest(g, n)
<1>1. Len(g) \in Nat /\ n \in Nat /\ n <= Len(g)
  BY LenProperties
<1>2. /\ u \in Seq(S) /\ Len(u) = Len(g) + 1 /\ u[Len(g) + 1] = t
      /\ \A i \in 1 .. Len(g) : u[i] = g[i]
  BY AppendProperties
<1>3. out \in Seq(S) /\ Len(out) = Len(g) - n /\ \A i \in 1 .. Len(g) - n : out[i] = g[n + i]
  BY RestEffect
<1> HIDE DEF u, out
<1>4. /\ Append(out, t) \in Seq(S) /\ Len(Append(out, t)) = Len(out) + 1
      /\ Append(out, t)[Len(out) + 1] = t
      /\ \A i \in 1 .. Len(out) : Append(out, t)[i] = out[i]
  BY <1>3, AppendProperties
<1>5. n \in 0 .. Len(u)
  BY <1>1, <1>2
<1>6. /\ Rest(u, n) \in Seq(S) /\ Len(Rest(u, n)) = Len(u) - n
      /\ \A i \in 1 .. Len(u) - n : Rest(u, n)[i] = u[n + i]
  BY <1>2, <1>5, RestEffect
<1>7. Len(Rest(u, n)) = Len(Append(out, t)) /\ Len(u) - n = Len(out) + 1
  BY <1>1, <1>2, <1>3, <1>4, <1>6
<1>8. ASSUME NEW i \in 1 .. Len(out) + 1 PROVE Rest(u, n)[i] = Append(out, t)[i]
  <2>1. Rest(u, n)[i] = u[n + i]
    BY <1>6, <1>7
  <2>2. CASE i = Len(out) + 1
    <3>1. n + i = Len(g) + 1
      BY <1>1, <1>3, <2>2
    <3> QED BY <1>2, <1>4, <2>1, <2>2, <3>1, Zenon
  <2>3. CASE i # Len(out) + 1
    <3>1. i \in 1 .. Len(out) /\ i \in 1 .. Len(g) - n /\ n + i \in 1 .. Len(g)
      BY <1>1, <1>3, <2>3
    <3> QED BY <1>2, <1>3, <1>4, <2>1, <3>1, Zenon
  <2> QED BY <2>2, <2>3
<1>9. Rest(u, n) = Append(out, t)
  BY <1>4, <1>6, <1>7, <1>8, SeqEqual
<1> QED BY <1>9 DEF u, out

LEMMA OutputIsRest ==
  ASSUME NEW r \in Rows
  PROVE  Output(r) = Rest(generated[r], Len(prompts[r]))
  BY Zenon DEF Output, Rest

\* A step of the loop draws one token for a row that is not finished, as Emit
\* does, and leaves a finished one alone.
LEMMA SteppedSim ==
  ASSUME Assumed, Inv, pc = "loop", NEW next, Stepped(next), NEW r \in Rows
  PROVE  D(r)!Emit \/ UNCHANGED D(r)!decodingVars
<1> DEFINE g == generated[r]
           p == prompts[r]
           t == next[r]
<1>1. /\ prompts \in [Rows -> Prompts] /\ g \in Seq(Tokens) /\ t \in Tokens
      /\ finished[r] \in BOOLEAN /\ steps \in Nat /\ steps < MaxNewTokens
      /\ prompts' = prompts /\ eot' = eot /\ generated'[r] = Kept(r, t) /\ RowDecoded(r)
  <2>1. Typed /\ RowDecoded(r)
    BY DEF Inv
  <2>2. /\ prompts \in [Rows -> Prompts] /\ g \in Seq(Tokens)
        /\ finished[r] \in BOOLEAN /\ steps \in 0 .. MaxNewTokens
    BY <2>1 DEF Typed
  <2>3. steps \in Nat
    BY <2>2, Constants
  <2>4. /\ t \in Tokens /\ steps < MaxNewTokens /\ prompts' = prompts /\ eot' = eot
        /\ generated'[r] = Kept(r, t)
    BY Zenon DEF Stepped
  <2> QED BY <2>1, <2>2, <2>3, <2>4
<1>2. p \in Seq(Tokens) /\ Len(p) \in Nat /\ Len(g) \in Nat
  BY <1>1, PromptLenIsMax, LenProperties
<1>3. CASE finished[r]
  <2>1. generated'[r] = g
    BY <1>1, <1>3, Zenon DEF Kept
  <2>2. UNCHANGED D(r)!decodingVars
    BY <1>1, <2>1 DEF D!decodingVars, Output
  <2> QED BY <2>2
<1>4. CASE ~ finished[r]
  <2>1. generated'[r] = Append(g, t) /\ t \in Target(Placed(g))
    BY <1>1, <1>4, Zenon DEF Kept, Stepped
  <2>2. /\ Len(g) = Len(p) + steps /\ \A i \in 1 .. Len(p) : g[i] = p[i]
        /\ \A i \in Len(p) + 1 .. Len(g) : g[i] # eot
    BY <1>1, <1>4 DEF RowDecoded
  <2>3. Len(p) \in 0 .. Len(g) /\ Len(p) <= Len(g)
    BY <1>1, <1>2, <2>2
  <2> DEFINE out == Rest(g, Len(p))
  <2>4. /\ out \in Seq(Tokens) /\ Len(out) = Len(g) - Len(p)
        /\ \A i \in 1 .. Len(g) - Len(p) : out[i] = g[Len(p) + i]
    BY <1>1, <2>3, RestEffect
  <2>5. Output(r) = out
    BY OutputIsRest
  <2>6. p \o out = g
    BY <1>1, <1>2, <2>2, <2>3, PrefixAndRest
  <2>7. Output(r)' = Append(out, t)
    <3>1. Rest(Append(g, t), Len(p)) = Append(out, t)
      BY <1>1, <2>3, RestOfAppend
    <3>2. Output(r)' = SubSeq(generated'[r], Len(prompts'[r]) + 1, Len(generated'[r]))
      BY DEF Output
    <3>3. Output(r)' = Rest(Append(g, t), Len(p))
      BY <1>1, <2>1, <3>2, Zenon DEF Rest
    <3> QED BY <3>1, <3>3
  <2> HIDE DEF out
  <2>8. ~ (Len(out) >= MaxNewTokens)
    BY <1>1, <1>2, <2>2, <2>4, Constants
  <2>9. ~ (out # << >> /\ out[Len(out)] = eot)
    <3> SUFFICES ASSUME out # << >> PROVE out[Len(out)] # eot
      OBVIOUS
    <3>1. Len(out) \in Nat \ {0}
      BY <2>4, EmptySeq
    <3>2. PICK i : i = Len(out)
      OBVIOUS
    <3>3. i \in 1 .. Len(g) - Len(p) /\ Len(p) + i \in Len(p) + 1 .. Len(g)
      BY <1>2, <2>4, <3>1, <3>2
    <3> QED BY <2>2, <2>4, <3>2, <3>3, Zenon
  <2>10. ~ D(r)!Complete
    BY <2>5, <2>8, <2>9, Zenon DEF D!Complete
  <2>11. t \in Target(D(r)!Placed(p \o Output(r)))
    <3>1. D(r)!Placed(p \o Output(r)) = Placed(g)
      BY <2>5, <2>6, Zenon DEF D!Placed, D!PlacedFrom, Placed, PlacedFrom
    <3> QED BY <2>1, <3>1, Zenon
  <2>12. D(r)!Emit
    BY <1>1, <2>5, <2>7, <2>10, <2>11, Zenon DEF D!Emit
  <2> QED BY <2>12
<1> QED BY <1>1, <1>3, <1>4

LEMMA RowSim ==
  ASSUME Assumed, Inv, [Next]_vars, NEW r \in Rows
  PROVE  D(r)!Emit \/ UNCHANGED D(r)!decodingVars
<1>1. CASE Iterate
  <2>1. PICK next : Stepped(next)
    BY <1>1, IterateEffect
  <2>2. pc = "loop"
    BY <1>1, Zenon DEF Iterate
  <2> QED BY <2>1, <2>2, SteppedSim
<1>2. CASE Prefill \/ Return \/ UNCHANGED vars
  <2>1. UNCHANGED <<prompts, generated, eot>>
    BY <1>2 DEF Prefill, Raise, Return, vars
  <2>2. UNCHANGED D(r)!decodingVars
    BY <2>1 DEF D!decodingVars, Output
  <2> QED BY <2>2
<1> QED BY <1>1, <1>2 DEF Next

-----------------------------------------------------------------------------
(* The theorems.                                                           *)

\* The invariant holds in every reachable state.
THEOREM InvHolds ==
  ASSUME Assumed
  PROVE  Spec => []Inv
<1>1. Init => Inv
  BY InitInv
<1>2. Inv /\ [Next]_vars => Inv'
  BY NextInv
<1> QED BY <1>1, <1>2, PTL DEF Spec

\* Every variable keeps its type.
THEOREM TypeCorrect ==
  ASSUME Assumed
  PROVE  Spec => []TypeOK
<1>1. ASSUME Inv PROVE TypeOK
  <2>1. Typed
    BY <1>1 DEF Inv
  <2>2. Context = Seq(Cell)
    BY Zenon DEF Context, Cell
  <2>3. CacheSize \in Nat
    BY <2>1, CacheSizeEffect DEF Typed
  <2>4. \A r \in Rows : slots[r] \in Context
    <3> SUFFICES ASSUME NEW r \in Rows PROVE slots[r] \in Context
      OBVIOUS
    <3>1. slots[r] \in [1 .. CacheSize -> Cell]
      BY <2>1 DEF Typed
    <3> QED BY <2>2, <2>3, <3>1, FunctionIsSeq, Zenon
  <2>5. slots \in [Rows -> Context]
    BY <2>1, <2>4 DEF Typed
  <2> QED BY <2>1, <2>2, <2>5 DEF Typed, TypeOK
<1> QED BY <1>1, InvHolds, PTL

(***************************************************************************)
(* No assertion of forward or of the cache fails when prompt and limit fit *)
(* the position table, however ragged the batch: the last forward of the   *)
(* loop, for a token nobody asks for, just fits.                           *)
(***************************************************************************)
THEOREM NeverRaisesHolds ==
  ASSUME Assumed
  PROVE  Spec => []NeverRaises
<1>1. Inv => NeverRaises
  BY DEF Inv, Typed, NeverRaises
<1> QED BY <1>1, InvHolds, PTL

(***************************************************************************)
(* Padding and batch mates are invisible to attention, for every batch and *)
(* every pad token: a query of a row that is not finished saw that row's   *)
(* tokens up to its own, each at its own position.                         *)
(***************************************************************************)
THEOREM QueriesSeeOwnRowHolds ==
  ASSUME Assumed
  PROVE  Spec => []QueriesSeeOwnRow
<1>1. Inv => QueriesSeeOwnRow
  BY DEF Inv, RowSeen, QueriesSeeOwnRow
<1> QED BY <1>1, InvHolds, PTL

(***************************************************************************)
(* The refinement: every row of every batch is decoded as the model alone  *)
(* decodes its prompt, token by token, up to its own EOT or the limit,     *)
(* whatever the other rows do.  That it gets there is left to TLC.         *)
(***************************************************************************)
THEOREM BatchInvarianceHolds ==
  ASSUME Assumed
  PROVE  Spec => BatchInvariance
<1>1. Init => \A r \in Rows : D(r)!Init
  <2> SUFFICES ASSUME Init, NEW r \in Rows PROVE D(r)!Init
    OBVIOUS
  <2>1. prompts \in [Rows -> Prompts] /\ generated = prompts
    BY DEF Init
  <2>2. prompts[r] \in Prompts /\ Len(prompts[r]) \in Nat
    BY <2>1, PromptLenIsMax
  <2>3. SubSeq(prompts[r], Len(prompts[r]) + 1, Len(prompts[r])) = << >>
    <3>1. /\ Len(prompts[r]) + 1 \in Int /\ Len(prompts[r]) \in Int
          /\ Len(prompts[r]) < Len(prompts[r]) + 1
      BY <2>2
    <3> QED BY <3>1, SubSeqEmpty
  <2>4. Output(r) = << >>
    BY <2>1, <2>3, Zenon DEF Output
  <2> QED BY <2>2, <2>4, Zenon DEF D!Init
<1>2. Inv /\ [Next]_vars => [\A r \in Rows : D(r)!Emit \/ UNCHANGED D(r)!decodingVars]_vars
  BY RowSim
<1> QED BY <1>1, <1>2, InvHolds, PTL DEF Spec, BatchInvariance

=============================================================================
