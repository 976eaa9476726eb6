---------------------------- MODULE StaticBatch ----------------------------
(***************************************************************************)
(* generation.py: static batching.  One call decodes the rows of a batch   *)
(* in step, either _run_cached (prompts of one length, no EOT) or          *)
(* _run_batched (ragged prompts, padded on the left by batch.py), until    *)
(* the limit or until every row is finished.                               *)
(*                                                                         *)
(* As in SpecDecode the logits of a query are named by the context that    *)
(* attention saw, and Target gives the tokens they may yield.  The masks'  *)
(* bias is so low that a masked column has weight zero.                    *)
(***************************************************************************)
EXTENDS StaticCache, FiniteSetsExt

CONSTANTS Rows,
          Tokens, Target(_), Prompts, MaxNewTokens,
          EOT,            \* the eot_token_id a caller may pass
          NoEOT,          \* None, the default
          Pad,            \* pad_token_id, which may be a token like any other
          ModelBlockSize  \* rows of the position table

ASSUME StaticBatchAssumption ==
    /\ IsFiniteSet(Rows) /\ Rows # {}
    /\ Prompts \subseteq Seq(Tokens) \ {<< >>}
    /\ MaxNewTokens \in Nat /\ ModelBlockSize \in Nat
    /\ NoEOT \notin Tokens

VARIABLES prompts, driver, eot,  \* the call and its parameters
          generated,
          slots,       \* the rows of the cache
          cache_len,   \* cache.seq_lens, the same for all rows
          seen,        \* of every row, the contexts of the last forward's queries
          finished,    \* the flags of the rows
          steps,       \* iterations of the decode loop
          pc

vars == <<prompts, driver, eot, generated, slots, cache_len, seen, finished, steps, pc>>

Drivers == {"cached", "batched"}

Context == Seq(((Tokens \cup {Pad}) \X Nat) \cup {Blank})

TypeOK ==
    /\ prompts \in [Rows -> Prompts]
    /\ driver \in Drivers /\ eot \in {EOT, NoEOT}
    /\ generated \in [Rows -> Seq(Tokens)]
    /\ slots \in [Rows -> Context]
    /\ cache_len \in Nat
    /\ seen \in [Rows -> Seq(Context)]
    /\ finished \in [Rows -> BOOLEAN]
    /\ steps \in 0 .. MaxNewTokens
    /\ pc \in {"prefill", "loop", "done", "raised"}

\* max_len, prompt_len: the columns of the prefill.
PromptLen == Max({ Len(prompts[r]) : r \in Rows })

\* A bug to catch: the last token, never attended to, gets no slot.
CacheSizeTight == IF driver = "cached" THEN ModelBlockSize ELSE PromptLen + MaxNewTokens - 1

\* _make_cache's max_seq_len.
CacheSize == IF driver = "cached" THEN ModelBlockSize ELSE PromptLen + MaxNewTokens

Init ==
    /\ prompts \in [Rows -> Prompts]
    /\ driver \in Drivers
    /\ eot \in {EOT, NoEOT}
    /\ driver = "cached" => /\ eot = NoEOT
                            /\ \A r, s \in Rows : Len(prompts[r]) = Len(prompts[s])
    /\ generated = prompts
    /\ slots = [r \in Rows |-> EmptySlots(CacheSize)]
    /\ cache_len = 0
    /\ seen = [r \in Rows |-> << >>]
    /\ finished = [r \in Rows |-> FALSE]
    /\ steps = 0
    /\ pc = "prefill"

Raise ==
    /\ pc' = "raised"
    /\ UNCHANGED <<prompts, driver, eot, generated, slots, cache_len, seen, finished, steps>>

-----------------------------------------------------------------------------
(* A forward pass over n columns from column cache_len + 1 on.  input has  *)
(* a row's tokens with their positions, mask the columns each may attend   *)
(* to.                                                                     *)

\* The columns of a row that a mask leaves, in order.
Unmasked(row, columns) ==
    LET nth(i) == CHOOSE c \in columns : Cardinality({d \in columns : d <= c}) = i
    IN  [i \in 1 .. Cardinality(columns) |-> row[nth(i)]]

Forward(n, input, mask) ==
    /\ slots' = [r \in Rows |-> Write(slots[r], cache_len, input[r])]
    /\ seen' = [r \in Rows |-> [i \in 1 .. n |-> Unmasked(slots'[r], mask[r][i])]]
    /\ cache_len' = cache_len + n

\* The assertions of GPT.forward and StaticKVCache.write.
ForwardOK(n, input) ==
    \A r \in Rows : /\ \A i \in 1 .. n : input[r][i][2] < ModelBlockSize
                    /\ HasRoom(slots[r], cache_len, n)

\* pad_lens: the pad columns in front of a row's prompt.
PadLen(r) == PromptLen - Len(prompts[r])

InputId(r, c) == IF c <= PadLen(r) THEN Pad ELSE prompts[r][c - PadLen(r)]

\* A bug to catch: padding is at negative positions.
PositionIdRaw(r, c) == c - PadLen(r) - 1

\* (real_mask.cumsum - 1).clamp(min=0)
PositionId(r, c) == Max({0, c - PadLen(r) - 1})

PrefillInput ==
    [r \in Rows |-> [c \in 1 .. PromptLen |-> <<InputId(r, c), PositionId(r, c)>>]]

\* _causal_plus_padding_bias; is_causal when there is no padding.
PrefillMask == [r \in Rows |-> [q \in 1 .. PromptLen |-> PadLen(r) + 1 .. q]]

Prefill ==
    /\ pc = "prefill"
    /\ IF ForwardOK(PromptLen, PrefillInput)
       THEN /\ Forward(PromptLen, PrefillInput, PrefillMask)
            /\ pc' = "loop"
            /\ UNCHANGED <<prompts, driver, eot, generated, finished, steps>>
       ELSE Raise

\* A bug to catch: the position of a new token counts the row's padding.
DecodePositionPadded(r) == cache_len

\* cur_len - pad_lens
DecodePosition(r) == cache_len - PadLen(r)

DecodeInput(next) == [r \in Rows |-> <<<<next[r], DecodePosition(r)>>>>]

\* extend_decode_mask: the padding stays masked, the rest is in view.
DecodeMask == [r \in Rows |-> <<PadLen(r) + 1 .. cache_len + 1>>]

\* The tokens next_token_fn may give a row, a finished one's replaced by EOT.
NextTokens(r) == IF finished[r] THEN {eot} ELSE Target(seen[r][Len(seen[r])])

\* A bug to catch: a finished row's tokens are returned too.
KeptAll(r, t) == Append(generated[r], t)

Kept(r, t) == IF finished[r] THEN generated[r] ELSE Append(generated[r], t)

\* A bug to catch: the first row to end takes the others with it.
AnyEnd(ends) == \E r \in Rows : ends[r]

AllEnd(ends) == \A r \in Rows : ends[r]

\* One iteration of the loop: a token for every row, then a forward for all of
\* them unless all are finished.
Iterate ==
    /\ pc = "loop" /\ steps < MaxNewTokens
    /\ \E next \in [Rows -> UNION { NextTokens(r) : r \in Rows }] :
         /\ \A r \in Rows : next[r] \in NextTokens(r)
         /\ LET ends == [r \in Rows |-> finished[r] \/ next[r] = eot]
            IN  IF ~ AllEnd(ends) /\ ~ ForwardOK(1, DecodeInput(next))
                THEN Raise
                ELSE /\ generated' = [r \in Rows |-> Kept(r, next[r])]
                     /\ finished' = ends
                     /\ steps' = steps + 1
                     /\ IF AllEnd(ends)
                        THEN pc' = "done" /\ UNCHANGED <<slots, cache_len, seen>>
                        ELSE /\ Forward(1, DecodeInput(next), DecodeMask)
                             /\ UNCHANGED pc
                     /\ UNCHANGED <<prompts, driver, eot>>

Return ==
    /\ pc = "loop" /\ steps = MaxNewTokens
    /\ pc' = "done"
    /\ UNCHANGED <<prompts, driver, eot, generated, slots, cache_len, seen, finished, steps>>

Next == Prefill \/ Iterate \/ Return

Spec == Init /\ [][Next]_vars

\* The loop runs until it returns.
FairSpec == Spec /\ WF_vars(Next)

-----------------------------------------------------------------------------
(* Properties.                                                             *)

(***************************************************************************)
(* No assertion fails when prompt and limit fit the position table, though *)
(* every row takes the steps of the longest and one forward more is run    *)
(* than there are tokens to draw: the last one just fits the cache.        *)
(***************************************************************************)
NeverRaises == pc # "raised"

(***************************************************************************)
(* Padding and batch mates are invisible to attention: every query of a    *)
(* row that is not finished saw that row's tokens up to its own, each at   *)
(* its own position, and no column of padding, whose token may be one of   *)
(* the vocabulary.                                                         *)
(***************************************************************************)
QueriesSeeOwnRow ==
    pc = "loop" =>
      \A r \in Rows : ~ finished[r] =>
        \A q \in 1 .. Len(seen[r]) :
          LET own == Len(generated[r]) - (Len(seen[r]) - q)
          IN  own >= 1 => seen[r][q] = Placed(SubSeq(generated[r], 1, own))

Output(r) == SubSeq(generated[r], Len(prompts[r]) + 1, Len(generated[r]))

D(r) == INSTANCE Decoding WITH prompt <- prompts[r], output <- Output(r)

(***************************************************************************)
(* "Each returned sequence must exactly match calling                      *)
(* greedy_generate_cached on that prompt alone": every row of every batch  *)
(* is decoded as if it were alone, up to its own EOT or the limit, however *)
(* long the other rows go on.                                              *)
(***************************************************************************)
BatchInvariance ==
    /\ \A r \in Rows : D(r)!Init
    /\ [][\A r \in Rows : D(r)!Emit \/ UNCHANGED D(r)!decodingVars]_vars

(***************************************************************************)
(* And each is whole: no row is left behind when others end before it.     *)
(***************************************************************************)
EveryRowCompletes == <>(\A r \in Rows : D(r)!Complete)
=============================================================================
