---------------------------- MODULE PagedEngine ----------------------------
(***************************************************************************)
(* The engine together with the tensors its bookkeeping is about: the KV   *)
(* pool of cache/paged.py's PagedKVCache, written by slot_mapping, gathered*)
(* by block table and masked by batch.py's build_paged_decode_mask.        *)
(*                                                                         *)
(* The keys and values of a token are abstracted to which token of which   *)
(* sequence they were computed from.  Releasing a block erases nothing, so *)
(* what a freed block holds stays readable until it is overwritten.        *)
(***************************************************************************)
EXTENDS LLMEngine

VARIABLE kv_pool    \* slot -> <<sequence, index of the token>>, or Zeros

pagedVars == <<vars, kv_pool>>

Slots == 0 .. NumBlocks * BlockSize - 1

Zeros == <<>>       \* torch.zeros: what a slot holds before its first write

PagedInit == Init /\ kv_pool = [k \in Slots |-> Zeros]

SlotFor(s, i) ==
    block_table[s][(i \div BlockSize) + 1] * BlockSize + (i % BlockSize)

\* The scatter of one prefill: token i of the context at the slot of i.
WritePrefill ==
    LET s == Head(todo)
        slotOf == [i \in 0 .. PrefillLen(s) - 1 |-> SlotFor(s, i)]
    IN  kv_pool' = [k \in Slots |->
          IF \E i \in DOMAIN slotOf : slotOf[i] = k
          THEN <<s, CHOOSE i \in DOMAIN slotOf : slotOf[i] = k>>
          ELSE kv_pool[k]]

\* last_token_id, by its index.
FedToken(s) == NumTokens(s) - 1

DecodeSlot(s) == SlotFor(s, num_computed[s])

\* The scatter of one decode: every row writes last_token_id at the slot of
\* num_computed_tokens.  Were two rows to share a slot, either could win.
WriteDecode ==
    LET written == { DecodeSlot(todo[i]) : i \in 1 .. Len(todo) }
    IN  \E row \in [written -> 1 .. Len(todo)] :
          /\ \A k \in written : DecodeSlot(todo[row[k]]) = k
          /\ kv_pool' = [k \in Slots |->
               IF k \in written THEN <<todo[row[k]], FedToken(todo[row[k]])>>
               ELSE kv_pool[k]]

PagedPrefill ==
    /\ PrefillOne
    /\ IF PrefillOK(Head(todo)) THEN WritePrefill ELSE UNCHANGED kv_pool

PagedForward ==
    /\ Forward
    /\ IF \A i \in 1 .. Len(todo) : DecodeOK(todo[i]) THEN WriteDecode
       ELSE UNCHANGED kv_pool

PagedNext ==
    \/ PagedPrefill
    \/ PagedForward
    \/ (Bookkeeping \/ Call) /\ UNCHANGED kv_pool

PagedSpec == PagedInit /\ [][PagedNext]_pagedVars

-----------------------------------------------------------------------------
(* PagedKVCache.read() for the batch of the forward pass just made.        *)

MaxLen == Max({ num_computed[todo[i]] : i \in 1 .. Len(todo) })

\* Entry i (from 0) of the padded row of s; -1, the padding, is clamped to 0.
TableEntry(s, i) == IF i < Len(block_table[s]) THEN block_table[s][i + 1] ELSE 0

\* Column c of the row of s.
Gathered(s, c) ==
    kv_pool[TableEntry(s, c \div BlockSize) * BlockSize + (c % BlockSize)]

\* A bug to catch: the whole gathered width is attended to.
UnmaskedAll(s, c) == TRUE

\* build_paged_decode_mask: seq_lens is the length after this step's write.
Unmasked(s, c) == c < num_computed[s]

-----------------------------------------------------------------------------
(* attention/triton_paged.py's kernel on the same tables and lengths: one  *)
(* program per row (heads are alike) walks all the columns of the table,   *)
(* a block at a time, and keeps a running maximum of the scores.  Its sums *)
(* are modelled by their terms: the column, what was read there and the    *)
(* exponent exp() was last scaled to.                                      *)

\* Scores of any kind, with a new maximum behind the first block (positions 0
\* to 5 score 0, 1, 4, 4, 1, 0) and the largest where nothing was written.
Score(content) == IF content = Zeros THEN 5 ELSE (content[2] * content[2]) % 5

MinusInf == -1000

\* A bug to catch: the last block is read to its end.
SlotMaskOfBlock(s, b, lane) == b < BlocksNeeded(num_computed[s])

\* block_active and slot_mask of a lane of block b.
SlotMask(s, b, lane) ==
    /\ b < BlocksNeeded(num_computed[s])
    /\ b * BlockSize + lane < num_computed[s]

\* A bug to catch: the sums so far are not rescaled to the new maximum.
RescaledKept(terms, shift) == terms

\* acc * alpha and l_i * alpha.
Rescaled(terms, shift) == { [t EXCEPT !.exp = @ + shift] : t \in terms }

KernelBlock(s, acc, b) ==
    LET lanes == { l \in 0 .. BlockSize - 1 : SlotMask(s, b, l) }
        k_block == [l \in lanes |-> kv_pool[TableEntry(s, b) * BlockSize + l]]
        m_new == Max({acc.m} \cup { Score(k_block[l]) : l \in lanes })
        finite == IF m_new = MinusInf THEN 0 ELSE m_new
    IN  [m |-> finite,
         terms |-> Rescaled(acc.terms, acc.m - finite)
           \cup { [col |-> b * BlockSize + l, read |-> k_block[l],
                   exp |-> Score(k_block[l]) - finite] : l \in lanes }]

\* The output is the quotient of the two sums, over the same terms.
KernelOutput(s) ==
    FoldLeft(LAMBDA acc, b : KernelBlock(s, acc, b),
             [m |-> MinusInf, terms |-> {}],
             [i \in 1 .. MaxBlocksPerSeq |-> i - 1]).terms

(***************************************************************************)
(* Every position a running sequence has computed holds that sequence's    *)
(* own token of that position: no eviction, reuse of a block or            *)
(* resumption leaves it with stale or foreign cache entries.               *)
(***************************************************************************)
CacheHoldsOwnTokens ==
    \A s \in Seqs : status[s] = "RUNNING" =>
      \A p \in 0 .. num_computed[s] - 1 : kv_pool[SlotFor(s, p)] = <<s, p>>

(***************************************************************************)
(* What a row of a batched decode attends to is exactly its own context,   *)
(* the token just fed included: the columns gathered past its end, another *)
(* sequence's leftovers, are masked, and none of its own is missing.       *)
(***************************************************************************)
AttendsExactContext ==
    pc = "sample" /\ todo = running /\ todo # << >> =>
      \A i \in 1 .. Len(todo) :
        { Gathered(todo[i], c) : c \in { x \in 0 .. MaxLen - 1 : Unmasked(todo[i], x) } }
          = { <<todo[i], p>> : p \in 0 .. NumTokens(todo[i]) - 1 }

(***************************************************************************)
(* The kernel computes what the gather path does: each position of the     *)
(* row's own context is read exactly once, nothing else is, and all terms  *)
(* end scaled to the same maximum, wherever in the walk it came up.  Table *)
(* padding, the tail of the last block and the blocks behind it add        *)
(* nothing.                                                                *)
(***************************************************************************)
KernelReadsContext ==
    pc = "sample" /\ todo = running /\ todo # << >> =>
      \A i \in 1 .. Len(todo) :
        LET s == todo[i]
            scores == { Score(<<s, p>>) : p \in 0 .. NumTokens(s) - 1 }
        IN  KernelOutput(s) =
              { [col |-> p, read |-> <<s, p>>, exp |-> Score(<<s, p>>) - Max(scores)]
                  : p \in 0 .. NumTokens(s) - 1 }
=============================================================================
