---------------------------- MODULE BlockManager ----------------------------
(***************************************************************************)
(* The free-list allocator of cache/paged.py: which physical blocks of the *)
(* KV pool back which sequence.  It owns no tensors.  The module has the   *)
(* allocator's state and one operator per method; Scheduler is its only    *)
(* caller and composes these operators into actions.                       *)
(*                                                                         *)
(* `free' is a Python list used as a stack: allocation pops its END,       *)
(* release extends it there.  `num_preemptions' of the class is never      *)
(* written or read anywhere and is left out.                               *)
(***************************************************************************)
EXTENDS Integers, SequencesExt

CONSTANTS Seqs,        \* identities of the sequences (one per request)
          NumBlocks,   \* blocks in the pool
          BlockSize    \* tokens per block

ASSUME BlockManagerAssumption ==
    /\ NumBlocks \in Nat
    /\ BlockSize \in Nat \ {0}

VARIABLES free,          \* the free list, its top at the end
          block_table    \* SequenceState.block_table of every sequence

bmVars == <<free, block_table>>

Blocks == 0 .. NumBlocks - 1

BMTypeOK ==
    /\ free \in Seq(Blocks)
    /\ block_table \in [Seqs -> Seq(Blocks)]

BMInit ==
    /\ free = [i \in 1 .. NumBlocks |-> i - 1]
    /\ block_table = [s \in Seqs |-> << >>]

-----------------------------------------------------------------------------
BlocksNeeded(n) == (n + BlockSize - 1) \div BlockSize

CanAllocate(n) == BlocksNeeded(n) <= Len(free)

\* Pops the last k free blocks, one by one, onto the table of s.
Grow(s, k) ==
    /\ free' = SubSeq(free, 1, Len(free) - k)
    /\ block_table' = [block_table EXCEPT
         ![s] = @ \o [i \in 1 .. k |-> free[Len(free) + 1 - i]]]

\* allocate() asserts that the additional blocks are there; it raises when
\* AllocateAsserts is false.
AllocateAsserts(s, n) == BlocksNeeded(n) - Len(block_table[s]) <= Len(free)

Allocate(s, n) ==
    LET needed == BlocksNeeded(n) - Len(block_table[s])
    IN  IF needed <= 0 THEN UNCHANGED bmVars ELSE Grow(s, needed)

\* A bug to catch: a block is taken while the tail block still has a slot.
HasSlotEarly(s, computed) == BlocksNeeded(computed + 2) <= Len(block_table[s])

\* A bug to catch: the slot of the token about to be written is not counted.
HasSlotLate(s, computed) == BlocksNeeded(computed) <= Len(block_table[s])

\* append_slot() in three parts: there is room for one more token already,
\* one block can be popped, or (neither) it returns False and does nothing.
HasSlot(s, computed) == BlocksNeeded(computed + 1) <= Len(block_table[s])

CanAppendSlot(s, computed) == HasSlot(s, computed) \/ free # << >>

AppendSlot(s, computed) ==
    IF HasSlot(s, computed) THEN UNCHANGED bmVars ELSE Grow(s, 1)

\* A bug to catch: the table is cleared and its blocks are never returned.
FreeForgetful(s) ==
    /\ UNCHANGED free
    /\ block_table' = [block_table EXCEPT ![s] = << >>]

\* A bug to catch: the blocks are returned but the table keeps naming them.
FreeKeepTable(s) ==
    /\ free' = free \o block_table[s]
    /\ UNCHANGED block_table

Free(s) ==
    /\ free' = free \o block_table[s]
    /\ block_table' = [block_table EXCEPT ![s] = << >>]

-----------------------------------------------------------------------------
(***************************************************************************)
(* Every block of the pool has exactly one owner: the free list or one     *)
(* position of one block table.  A block with two owners lets a sequence   *)
(* overwrite the cache of another, a block with none is a phantom OOM.     *)
(***************************************************************************)
FreeDistinct == \A i, j \in 1 .. Len(free) : free[i] = free[j] => i = j

TablesDistinct ==
    \A s, t \in Seqs :
      \A i \in 1 .. Len(block_table[s]), j \in 1 .. Len(block_table[t]) :
        block_table[s][i] = block_table[t][j] => s = t /\ i = j

FreeNotInTables ==
    \A s \in Seqs : \A i \in 1 .. Len(block_table[s]), j \in 1 .. Len(free) :
      block_table[s][i] # free[j]

NoneLost ==
    \A b \in Blocks :
      \/ \E i \in 1 .. Len(free) : free[i] = b
      \/ \E s \in Seqs : \E i \in 1 .. Len(block_table[s]) : block_table[s][i] = b

BlockOwnership == FreeDistinct /\ TablesDistinct /\ FreeNotInTables /\ NoneLost
=============================================================================
