----------------------------- MODULE LLMEngine -----------------------------
(***************************************************************************)
(* engine/engine.py: the engine that drives the scheduler.  One call of    *)
(* step() is a run of actions from pc = "idle" back to it: the schedule()  *)
(* loop, then either one prefill per admitted sequence or the capacity     *)
(* pass, one batched forward and one sampling per row.                     *)
(*                                                                         *)
(* Every assertion, index and dictionary access of step() that can raise   *)
(* is a condition here; when it is false the exception leaves step() with  *)
(* the state as it is, pc = "raised", for good (AsyncEngine never calls    *)
(* step() again).                                                          *)
(*                                                                         *)
(* A token is abstracted to what the engine tells apart: it is the EOT     *)
(* token or not, and the text holds a stop string before, or only after,   *)
(* the detokenizer's tail is flushed.                                      *)
(***************************************************************************)
EXTENDS Scheduler

CONSTANTS ModelBlockSize,  \* rows of the model's position table
          PromptLens,      \* the prompt lengths clients use
          MaxTokensValues  \* the max_tokens clients use

ASSUME EngineAssumption ==
    /\ ModelBlockSize \in Nat \ {0}
    /\ PromptLens \subseteq Nat
    /\ MaxTokensValues \subseteq Int

VARIABLE detokenizers      \* the keys of LLMEngine._detokenizers

vars == <<schedVars, detokenizers>>

TypeOK == SchedulerTypeOK /\ detokenizers \subseteq Seqs

Init == SchedulerInit /\ detokenizers = {}

-----------------------------------------------------------------------------
(* Calls made between steps.                                               *)

\* add_request's assertions; when they fail it raises and changes nothing.
Accepts(p, m) == p <= ModelBlockSize /\ p + m <= ModelBlockSize

AddRequest(s, p, m) ==
    /\ pc \in {"idle", "raised"} /\ status[s] = "NEW"
    /\ Accepts(p, m)
    /\ detokenizers' = detokenizers \cup {s}
    /\ Enqueue(s, p, m)
    /\ UNCHANGED <<bmVars, running, output_len, num_computed, finish_reason, pc, todo>>

CancelRequest(s) ==
    /\ pc \in {"idle", "raised"} /\ status[s] # "NEW"
    /\ detokenizers' = detokenizers \ {s}
    /\ CancelById(s)
    /\ UNCHANGED <<prompt_len, max_tokens, output_len, num_computed, pc, todo>>

-----------------------------------------------------------------------------
(* _sample_and_advance for one row.                                        *)

\* A bug to catch: the limit is compared before this token is counted.
CheckFinishOffByOne(s, eot, stopped) ==
    CASE eot                                 -> "eot"
      [] output_len[s] >= max_tokens[s]      -> "length"
      [] stopped                             -> "stop"
      [] OTHER                               -> "none"

\* A bug to catch: a finish reason clients do not know.
CheckFinishUnnamed(s, eot, stopped) ==
    CASE eot                                 -> "eot"
      [] output_len[s] + 1 >= max_tokens[s]  -> "max_tokens"
      [] stopped                             -> "stop"
      [] OTHER                               -> "none"

\* _check_finish, after this row's token is appended.
CheckFinish(s, eot, stopped) ==
    CASE eot                                 -> "eot"
      [] output_len[s] + 1 >= max_tokens[s]  -> "length"
      [] stopped                             -> "stop"
      [] OTHER                               -> "none"

\* The reasons one sampled token can end with.  A stop string found once the
\* tail is flushed overrides any other reason.
Outcomes(s) ==
    { LET r == CheckFinish(s, o[1], o[2])
      IN  IF r # "none" /\ o[3] THEN "stop" ELSE r :
        o \in { x \in BOOLEAN \X BOOLEAN \X BOOLEAN : x[2] => x[3] } }

SampleAndAdvance(s, reason) ==
    /\ output_len' = [output_len EXCEPT ![s] = @ + 1]
    /\ IF reason = "none"
       THEN UNCHANGED <<bmVars, running, status, finish_reason>>
       ELSE Finish(s, reason)

\* A bug to catch: the token sampled by a prefill counts as computed too.
PrefillPositionPlusOne(s) == NumTokens(s) + 1

\* A bug to catch: a resumed sequence prefills its prompt only.
PrefillPromptOnly(s) == prompt_len[s]

\* How many tokens a prefill writes: the prompt and all output so far.
PrefillLen(s) == NumTokens(s)

Raise == /\ pc' = "raised"
         /\ UNCHANGED <<bmVars, waiting, running, seqVars, todo, detokenizers>>

MaxBlocksPerSeq == BlocksNeeded(ModelBlockSize)

\* ForwardBatch's assertion on a prefill: at least one token.
BatchNotEmpty(s) == PrefillLen(s) >= 1

\* GPT.forward's assertion: the position table has a row for it.
PositionInTable(p) == p < ModelBlockSize

\* What _prefill_one needs not to raise: a batch the model accepts, a block
\* for each token, a fresh cache position and a detokenizer.
PrefillOK(s) ==
    /\ BatchNotEmpty(s)
    /\ PositionInTable(PrefillLen(s) - 1)
    /\ PrefillLen(s) <= Len(block_table[s]) * BlockSize
    /\ num_computed[s] = 0
    /\ s \in detokenizers

PrefillOne ==
    /\ pc = "prefill" /\ todo # << >>
    /\ LET s == Head(todo)
       IN  IF PrefillOK(s)
           THEN /\ num_computed' = [num_computed EXCEPT ![s] = PrefillLen(s)]
                /\ \E r \in Outcomes(s) : SampleAndAdvance(s, r)
                /\ todo' = Tail(todo)
                /\ UNCHANGED <<waiting, prompt_len, max_tokens, pc, detokenizers>>
           ELSE Raise

\* What the batched decode of _run_decode needs not to raise: a slot for the
\* token of every row, its position inside the table, and a table no longer
\* than the width it is padded to.
DecodeOK(s) ==
    /\ num_computed[s] \div BlockSize < Len(block_table[s])
    /\ PositionInTable(num_computed[s])
    /\ Len(block_table[s]) <= MaxBlocksPerSeq

Forward ==
    /\ pc = "forward"
    /\ IF \A i \in 1 .. Len(todo) : DecodeOK(todo[i])
       THEN /\ num_computed' = [s \in Seqs |->
                  IF Contains(todo, s)
                  THEN num_computed[s] + 1 ELSE num_computed[s]]
            /\ pc' = "sample"
            /\ UNCHANGED <<bmVars, waiting, running, status, prompt_len, max_tokens,
                           output_len, finish_reason, todo, detokenizers>>
       ELSE Raise

SampleRow ==
    /\ pc = "sample" /\ todo # << >>
    /\ LET s == Head(todo)
       IN  IF s \in detokenizers
           THEN /\ \E r \in Outcomes(s) : SampleAndAdvance(s, r)
                /\ todo' = Tail(todo)
                /\ UNCHANGED <<waiting, prompt_len, max_tokens, num_computed, pc,
                               detokenizers>>
           ELSE Raise

StepEnd ==
    /\ pc \in {"prefill", "sample"} /\ todo = << >>
    /\ pc' = "idle"
    /\ UNCHANGED <<bmVars, waiting, running, seqVars, todo, detokenizers>>

-----------------------------------------------------------------------------
\* The steps of step() that run no forward pass.
Bookkeeping ==
    \/ SchedulerStep /\ UNCHANGED detokenizers
    \/ SampleRow
    \/ StepEnd

Step == PrefillOne \/ Forward \/ Bookkeeping

Call ==
    \/ \E s \in Seqs, p \in PromptLens, m \in MaxTokensValues : AddRequest(s, p, m)
    \/ \E s \in Seqs : CancelRequest(s)

Next == Step \/ Call

Spec == Init /\ [][Next]_vars

\* Whoever drives the engine calls step() as long as there is work, and a call
\* of step() runs to its end.  No client has to add or cancel anything.
FairSpec == Spec /\ WF_vars(Step)

-----------------------------------------------------------------------------
(* Properties.                                                             *)

Unprefilled(s) == pc \in {"admit", "prefill"} /\ Contains(todo, s)

Unsampled(s) == pc = "sample" /\ Contains(todo, s)

(***************************************************************************)
(* The two lists and the status field of every sequence tell the same      *)
(* story, and no list holds a sequence twice: removing from a list that is *)
(* being walked, or a sequence put back without leaving `running', breaks  *)
(* it.  A waiting sequence holds no block, which is why cancel_by_id may   *)
(* drop one without freeing anything.                                      *)
(***************************************************************************)
NoRepeats(q) == \A i, j \in 1 .. Len(q) : q[i] = q[j] => i = j

ListsMatchStatus ==
    /\ NoRepeats(waiting) /\ NoRepeats(running) /\ NoRepeats(todo)
    /\ \A s \in Seqs :
         /\ Contains(waiting, s) <=> status[s] = "WAITING"
         /\ Contains(running, s) \/ (pc = "admit" /\ Contains(todo, s)) <=> status[s] = "RUNNING"
         /\ pc = "admit" => ~ (Contains(todo, s) /\ Contains(running, s))
         /\ status[s] # "RUNNING" => block_table[s] = << >>

(***************************************************************************)
(* request.py's "single invariant that matters most": the position about   *)
(* to be fed is num_computed_tokens.  Between two calls a running sequence *)
(* has computed all its tokens but the last, the one fed next, whatever    *)
(* evictions and resumptions it went through.                              *)
(***************************************************************************)
NextPosition ==
    \A s \in Seqs :
      /\ status[s] = "RUNNING" =>
           num_computed[s] = IF Unprefilled(s) THEN 0
                             ELSE IF Unsampled(s) THEN NumTokens(s)
                             ELSE NumTokens(s) - 1
      /\ status[s] = "WAITING" => num_computed[s] = 0

(***************************************************************************)
(* A running sequence holds exactly the blocks its tokens need, one more   *)
(* only between securing the next slot and writing it: nothing hoards      *)
(* blocks, and no forward writes past a table.                             *)
(***************************************************************************)
TablesMatchProgress ==
    \A s \in Seqs : status[s] = "RUNNING" =>
      \/ Len(block_table[s]) =
           BlocksNeeded(IF Unprefilled(s) THEN NumTokens(s) ELSE num_computed[s])
      \/ /\ pc \in {"capacity", "forward"}
         /\ Len(block_table[s]) = BlocksNeeded(num_computed[s] + 1)

(***************************************************************************)
(* No assertion, index or lookup inside step() ever fails, whatever mix of *)
(* requests, evictions and cancellations came before.                      *)
(***************************************************************************)
StepNeverRaises == pc # "raised"

(***************************************************************************)
(* A preempted sequence, whose output was already streamed, is never       *)
(* behind a request that has not started.                                  *)
(***************************************************************************)
PreemptedBeforeFresh ==
    \A i, j \in 1 .. Len(waiting) :
      i < j /\ output_len[waiting[j]] > 0 => output_len[waiting[i]] > 0

(***************************************************************************)
(* No phantom OOM: a step that has work but yields nothing happens only    *)
(* when the whole pool is free and the request at the head of the queue is *)
(* larger than the whole pool.                                             *)
(***************************************************************************)
StallOnlyIfUnfit ==
    [][ (pc = "admit" \/ pc = "capacity") /\ pc' = "idle" =>
          /\ running = << >> /\ Len(free) = NumBlocks
          /\ waiting # << >> => BlocksNeeded(NumTokens(Head(waiting))) > NumBlocks ]_vars

(***************************************************************************)
(* One eviction is enough: whichever victim is taken held a block, so the  *)
(* retry of append_slot succeeds and no second sequence is sacrificed for  *)
(* the same claimant.                                                      *)
(***************************************************************************)
OneEvictionSuffices == [][ PreemptVictim => free' # << >> ]_vars

(***************************************************************************)
(* Every accepted request that the pool can hold at its longest finishes.  *)
(***************************************************************************)
EveryRequestFinishes ==
    \A s \in Seqs : status[s] = "WAITING" ~> status[s] = "FINISHED"

\* The promise of module Completion, with preemption hidden.
Promise == INSTANCE Completion WITH
    Requests <- Seqs,
    Limits <- MaxTokensValues,
    phase <- [s \in Seqs |-> CASE status[s] = "NEW" -> "new"
                               [] status[s] = "FINISHED" -> "done"
                               [] OTHER -> "live"],
    limit <- max_tokens,
    emitted <- output_len,
    reason <- finish_reason

(***************************************************************************)
(* Clients see the engine as Completion: tokens of a request are neither   *)
(* lost nor repeated by eviction, none follows the end, at most max_tokens *)
(* (at least one) are yielded, and the reason is "length" only at the      *)
(* limit.                                                                  *)
(***************************************************************************)
KeepsPromise == Promise!Spec
=============================================================================
