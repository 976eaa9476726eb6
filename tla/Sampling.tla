------------------------------ MODULE Sampling ------------------------------
(***************************************************************************)
(* sampling.py on one row: vocabulary mask, top-k, top-p, greedy rows.     *)
(*                                                                         *)
(* A row gives every token a whole number of shares out of Shares: what    *)
(* softmax makes of its logits.  Softmax keeps the order of logits, and a  *)
(* filtered logit becomes zero shares, so filters work on shares as they   *)
(* do on logits.  Temperature scales a row into another row.               *)
(***************************************************************************)
EXTENDS Integers, SequencesExt

CONSTANTS Tokens, Shares

ASSUME SamplingAssumption ==
    IsFiniteSet(Tokens) /\ Tokens # {} /\ Shares \in Nat \ {0}

Total(row) == MapThenSumSet(LAMBDA t : row[t], Tokens)

\* Softmax rows, and the one-hot rows of a greedy model or a prompt lookup.
Rows == { row \in [Tokens -> 0 .. Shares] : Total(row) = Shares }

Support(row) == { t \in Tokens : row[t] > 0 }

V == Cardinality(Tokens)

\* torch.sort, descending; which of two equal logits comes first is not said.
SortedOrders(row) ==
    { o \in SetToSeqs(Tokens) : \A i, j \in 1 .. V : i < j => row[o[i]] >= row[o[j]] }

\* Below the k-th largest, clamped to [1, V]; ties of it stay.
ApplyTopK(row, k) ==
    LET o == CHOOSE x \in SortedOrders(row) : TRUE
        threshold == row[o[Min({Max({k, 1}), V})]]
    IN  [t \in Tokens |-> IF row[t] < threshold THEN 0 ELSE row[t]]

\* The mass strictly before place i.
Before(row, o, i) == SumFunctionOnSet([j \in 1 .. V |-> row[o[j]]], 1 .. i - 1)

\* A bug to catch: the token that crosses the threshold goes, too.
RemovedCrossing(row, o, i, top_p) ==
    /\ i > 1
    /\ Shares * Before(row, o, i + 1) > top_p * Total(row)

\* sorted_remove; top_p is in shares, the row need not add up to Shares any more.
Removed(row, o, i, top_p) ==
    /\ i > 1
    /\ Shares * Before(row, o, i) > top_p * Total(row)

\* One result for each order sort may have chosen.
ApplyTopP(row, top_p) ==
    { [t \in Tokens |-> IF \E i \in 1 .. V : o[i] = t /\ Removed(row, o, i, top_p)
                        THEN 0 ELSE row[t]] : o \in SortedOrders(row) }

\* masked_fill: the caller's vocab_mask, the ids that tiktoken cannot decode.
Masked(row, mask) == [t \in Tokens |-> IF t \in mask THEN 0 ELSE row[t]]

ArgMax(row) == { t \in Tokens : \A u \in Tokens : row[u] <= row[t] }

\* The tokens sample_batch may give; no filter is k = V, or p = Shares.
SampleBatch(row, greedy, k, top_p) ==
    IF greedy THEN ArgMax(row)
    ELSE UNION { Support(f) : f \in ApplyTopP(ApplyTopK(row, k), top_p) }

\* ReferenceGPT.generate's filter; torch.topk finds the threshold.
ReferenceTopK(row, k) ==
    [t \in Tokens |->
       IF Cardinality({ u \in Tokens : row[u] > row[t] }) < Min({k, V}) THEN row[t] ELSE 0]

\* The next_token of the four drivers of generation.py.
GreedyNext(row, mask) == ArgMax(Masked(row, mask))
SampleNext(row, mask, k) == Support(ReferenceTopK(Masked(row, mask), k))
BatchedNext(row, mask, greedy, k, top_p) == SampleBatch(Masked(row, mask), greedy, k, top_p)

-----------------------------------------------------------------------------
\* What top-k should keep, said without sorting: few are likelier.
AmongTop(row, k) ==
    { t \in Tokens : Cardinality({ u \in Tokens : row[u] > row[t] }) < Max({k, 1}) }

Mass(row, S) == MapThenSumSet(LAMBDA t : row[t], S)

(***************************************************************************)
(* top_k and top_p in turn leave a nucleus of what top-k left: the most    *)
(* likely tokens, never none, together at least top_p of the mass, and at  *)
(* most top_p without the least likely of them.  (At an exact tie with     *)
(* top_p the code keeps one token more than "the smallest prefix whose     *)
(* mass reaches top_p" of its docstring.)  Nothing else of the row changes *)
(* and no masked token comes back; greedy ignores both filters.            *)
(***************************************************************************)
IsNucleus(row, k, top_p) ==
    LET top == AmongTop(row, k)
    IN  /\ \A f \in ApplyTopP(ApplyTopK(row, k), top_p) :
             LET kept == Support(f)
             IN  /\ kept # {} /\ kept \subseteq top \cap Support(row)
                 /\ \A t \in kept, u \in Tokens : row[u] > row[t] => u \in kept
                 /\ \A t \in kept : f[t] = row[t]
                 /\ Shares * Mass(row, kept) >= top_p * Mass(row, top)
                 /\ \/ Cardinality(kept) = 1
                    \/ \E t \in kept :
                         Shares * Mass(row, kept \ {t}) <= top_p * Mass(row, top)
        /\ SampleBatch(row, TRUE, k, top_p) \subseteq SampleBatch(row, FALSE, k, top_p)

(***************************************************************************)
(* The drivers agree on what may come next, and none gives a masked id:    *)
(* batched with a temperature of zero as greedy, batched with top-k alone  *)
(* as the cached driver and the oracle, reference.py, with the same top_k. *)
(***************************************************************************)
DriversAgree(row, mask, k) ==
    /\ BatchedNext(row, mask, TRUE, k, Shares) = GreedyNext(row, mask)
    /\ k >= 1 => BatchedNext(row, mask, FALSE, k, Shares) = SampleNext(row, mask, k)
    /\ (GreedyNext(row, mask) \cup SampleNext(row, mask, k)) \cap mask = {}
=============================================================================
