# A TLA+ model of mini-gpt-infer

mini-gpt-infer serves a small GPT: requests are batched continuously, their
keys and values live in a paged cache, and a background thread streams tokens to
HTTP clients. This directory holds a model of the parts whose correctness is a
matter of bookkeeping and protocol, the TLC configurations that check it, and
TLAPS proofs.  All paths below are relative to `src/minigpt_infer/` of the
repository unless they say otherwise.

## 1. Inventory

| Component | State | Operations | Talks to | Hard behaviour |
|---|---|---|---|---|
| Block allocator `cache/paged.py` BlockManager | `_free`, each sequence's `block_table` | allocate, append_slot, free | called by the scheduler | long mixes of growth and release; exactly-full tail blocks; asserts |
| Scheduler `engine/scheduler.py`, `engine/request.py` | `waiting`, `running`, status, progress counters | schedule, ensure_capacity_for_decode_step, finish, cancel_by_id | allocator; driven by the engine | eviction while the list is being walked, self-eviction, resumption, head-of-line blocking |
| LLMEngine `engine/engine.py` | `_detokenizers`, the scheduler | add_request, cancel_request, step | scheduler, cache, model, sampler, detokenizer | an exception half way through a step; counters one off; lists mutated while iterated |
| Paged KV cache `cache/paged.py`, `batch.py` masks | `k_pool`, `v_pool` | write, read | engine through `slot_mapping`, `block_tables`, `seq_lens` | leftovers of freed blocks, clamped padding, masks |
| AsyncEngine `engine/async_engine.py` | `_queues`, the queues, two events, a lock, a thread | submit, stream, cancel, shutdown, _run | LLMEngine under the lock; executor threads of the event loop | interleaving of thread and clients, lost wakeups, crash, disconnect, worker exhaustion |
| HTTP server `server/api.py`, `protocol.py`, counters `server/metrics.py` | answers under way, counters | handlers | AsyncEngine | disconnect before the stream starts, refusals, a crash half way through an answer |
| Speculative decoding `engine/spec_decode.py` | cache length, pending logits, generated list | propose, verify_and_accept, a round | static cache, model | rejected drafts left in the cache, EOT anywhere in a round, position limits, exactness of the law |
| Static cache and batching `generation.py`, `cache/static.py`, `batch.py` | `seq_lens`, tensors, finished flags | prefill, decode, advance, reset | model | left padding, positions and masks of short rows, finished rows that stay in the batch |
| Sampling `sampling.py`, the `next_token`s of `generation.py` | none | top-k, top-p, masks, temperature | engine, drivers | ties, boundaries, filters in turn |
| Detokenizer `tokenizer.py` and stop strings `engine.py` | bytes so far, text emitted | add_token, finalize, truncate | engine | incomplete characters, stray bytes, several stop strings |
| Triton kernel `attention/triton_paged.py` | none | one decode query over a block table | the pool | masks, clamped padding, the running maximum |
| CUDA graphs `graphs.py` | static buffers | capture, replay | model | aliasing of the static output, a check skipped while capturing |
| Loader `loader.py` | none | strip prefixes, load, check | model | nested wrappers, incomplete configurations, tied weights |
| int8 `quant/int8.py` | codes, scales | quantize, the fused GEMV kernel | model | ties and zeros in rounding, tiles that do not divide a shape |
| Model, reference, benchmarks, scripts | | | | tensor arithmetic, clocks; see section 7 |

What makes each modelled component correct:

* **Allocator**: every block has exactly one owner.
* **Scheduler**: lists and status agree; the batch bound holds; nobody is starved
  by eviction; stalls only when a request cannot fit.
* **Engine**: `next_position == num_computed_tokens`; nothing admitted makes
  `step()` raise; what a client sees does not depend on eviction.
* **Paged cache**: a sequence reads its own tokens at its own positions, all of
  them and nothing else.
* **AsyncEngine**: outputs are neither lost nor reordered; a stream that ends
  ended honestly; every stream ends; what a client leaves behind is released.
* **Speculative decoding**: the tokens are those the target alone could have
  drawn, with the law it gives them; nothing is returned behind EOT or the limit.
* **Static batching**: every row is decoded as if it were alone.
* **HTTP server**: an answer that looks complete is; what is counted of it is
  counted once.
* **Detokenizer**: the text streamed is the decoded text, each character once,
  and no stop string in it.
* **Sampling**: filters leave the most likely tokens, enough of them and never
  none; all drivers draw from the same tokens.
* **Kernels**: what the tiles read and add up is what the plain path does.
* **Graphs, loader, int8**: a replay is a forward; a checkpoint is loaded whole or
  refused; a weight moves by at most half a step.

## 2. Modules

```
Completion            what a client is promised about one request (abstract)
   ^ implemented by                       ^ used as the engine inside
LLMEngine  <- Scheduler <- BlockManager   AsyncEngine
   ^ extended by                             ^ extended by
PagedEngine           the engine with     Server  handlers, answers, counters
                      the KV pool and
                      both ways to read it

Decoding              what decoding one prompt with the model alone does (abstract)
   ^ implemented by
SpecDecode, StaticBatch  <-  StaticCache

Sampling  <- VerifyAccept   rows and filters; the law of one token
TextStream                  the text of one request
Int8, ModelSetup, GraphRunner
```

`BlockManager` has the allocator's variables and one operator per method; it has
no behaviour of its own. `Scheduler` adds the lists, the fields of
SequenceState and one action per loop iteration of `schedule()` and
`ensure_capacity_for_decode_step()`. `LLMEngine` adds the detokenizer keys and
closes the system: `pc` says in which loop of `step()` the engine thread is,
`todo` is the list that loop walks or builds (`admitted`, then
`list(self.running)`). `step()` runs under one lock, so AddRequest and
CancelRequest are enabled at `pc = "idle"` only (and after an exception, when the
lock is free again).

| Code | Model |
|---|---|
| `_free` (a stack, its top at the end), `block_table` | `free`, `block_table` |
| `deque waiting`, `list running` | sequences `waiting`, `running` |
| `status`, `num_computed_tokens`, `finish_reason` | functions of the same names; `"NEW"` before add_request |
| `output_token_ids`, `prompt_token_ids` | their lengths `output_len`, `prompt_len` |
| a sampled token | which of the outcomes of `_check_finish` and of the stop truncation it leads to (`Outcomes`) |
| an assertion, index or dictionary access that fails | `pc = "raised"`, the state as it is, for good |
| `k_pool`, `v_pool` | `kv_pool`: slot to the token its contents were computed from |
| `with self._lock` | one action; a call of `step()` is several, and the others wait (`LockFree`) |
| `_queues`, the `queue.Queue` objects | `queues` (keys), `queue` (contents) |
| `_new_request_event`, `_stop` | `wake`, `shut` |
| `loop.run_in_executor(None, q.get)` | `jobs` (queued calls) and `busy` (workers inside `q.get`) |

`SpecDecode` is one call of `speculative_generate`: its `pc` is the place in the
loop (`"round"`, then `"verify"` while `verify_and_accept` decides one row after
the other, `"commit"` for the rest of the iteration). `StaticBatch` is one call of
`_run_batched` or, with `driver = "cached"`, of `_run_cached`; an iteration of
its loop is one action, since nothing else touches its state. Both work on
`StaticCache`, whose slots hold the token and the position their contents were
computed from and keep them when the length is not advanced past them. The
numbers a forward yields are not modelled: logits are *named by the context that
attention saw* (`pending`, `contexts`, `seen`), and the constant `Target` maps a
context to the tokens the model gives a probability above zero, one for greedy
decoding. A slot out of place, a stale draft or a leaked pad column is then
another context, hence another `Target`. `Decoding` draws each token from
`Target` of everything before it; that both loops implement it is the exactness
that the docstrings claim. How probabilities are divided between those tokens is
`VerifyAccept`: rows of whole shares, on which the acceptance ratio and the
residual are computed exactly. The rows themselves are `Sampling`'s, with what
masks, top-k and top-p make of them.

`Server` adds to AsyncEngine what the handlers of `server/api.py` keep: whether
the answer is whole or streamed, how it ended, and the two counters they
increment. A handler that waits in `stream()` is AsyncEngine's client; `Answer`
is what follows its loop. Only a stream can be left by its client (`Leave`); a
whole answer is computed to its end whoever is still there.

The remaining modules are functions. `TextStream` is a fold over tokens, each the
sequence of its bytes, through add_token, _check_finish, finalize and
_truncate_at_stop. `Int8` rounds by exact fractions (weights are whole numbers,
the scale is amax / QMax, and QMax stands for 127) and names the pairs of weight
and input that the fused kernel multiplies. `ModelSetup` follows the names of
tensors from a checkpoint's keys to a quantized model. `GraphRunner` is a fold
over calls of capture and replay on the static buffers. The Triton kernel, in
`PagedEngine`, is a fold over the blocks of a table: its two sums are modelled by
their terms, each a column, what was read there, and the exponent it was last
scaled to. `MCAlgorithms` applies each of them to all inputs of a bounded kind.

| Code | Model |
|---|---|
| `cache.k`, `cache.v` of a row, `cache.seq_lens[0]` | `slots`, `cache_len` |
| `generated`, `draft_ids`, `accepted` | sequences of the same names (`draft`) |
| `pending_logits`, `target_p` | `pending`, `contexts`: what they were conditioned on |
| the two drafters | `Proposals`: the lookup's slice, or any tokens for the model's own first layers |
| `pad_lens`, `position_ids`, `attn_mask` | `PadLen`, `PrefillInput`, `DecodeInput`, `PrefillMask`, `DecodeMask` |
| `eot_token_id=None` | `NoEOT`; `EOT` outside `Tokens` in SpecDecode |

Request identities are unique (the server uses uuid4), so `list.remove`, which
compares sequences by value, removes the sequence meant.

`Completion` is what both sides agree on: `LLMEngine` is shown to implement it
(`KeepsPromise`), `AsyncEngine` contains it as the engine its thread calls, so
its results hold for whatever keeps that promise.

## 3. Runs

| Run | Instance | Shows |
|---|---|---|
| MCPagedEngine | 3 requests, 3 blocks of 2 tokens, batch of 2, prompts of 1 or 4, max_tokens 0 or 4, table of 8, with the pool | bookkeeping, cache contents, attended columns of both read paths, and the refinement of Completion, with every action taken |
| MCEngineLive | 3 requests of 2+4 tokens, 3 blocks of 3, batch of 2, table of 6; 2+6 is asked for, too, and refused | every request that fits alone finishes |
| MCEngineEmptyPrompt | prompts of 0 or 3 | violation: an empty prompt makes step() raise |
| MCServer | 2 clients, 2 tokens each, 1 worker, whole or streamed | safety of delivery, cancel, crash, shutdown; answers, and counters of whole answers |
| MCServerCounters | 1 client | violation: a stream that succeeded is not counted, nor its tokens |
| MCAsyncEngineLive | 2 clients, 2 tokens each, 1 worker, fair, never shut down | every stream registered before the thread is done ends, wherever it is when the thread crashes or does not; workers and queues come back |
| MCAsyncEngineCrash | 2 clients, 2 workers, fair | violation: a stream opened after a crash hangs |
| MCSpecDecode | all prompts of 1-3 tokens over 3 tokens, 5 new tokens, drafts of 3, lookup of 1-grams, table of 8, both drafters, fair | speculative decoding implements Decoding, conditions on exact contexts, raises nothing and returns |
| MCStaticBatch | all pairs of prompts of 1-3 tokens over 2 tokens, 4 new tokens, table of 7, padding that is a token, with and without EOT, both loops, fair | every row implements Decoding and is completed; no query sees padding; nothing raises |
| MCAlgorithms | rows over 4 tokens in sixths, 4 top-k, 6 top-p and 5 masks; 4 tokens of 6 kinds, 6 stop lists, 2 limits; 3 weights of -5..5 and 3 codes each side; shapes up to 5 by 5 with tiles of 1, 2, 4; 2 wrappers, 3 depths; 5 graph calls | verify_and_accept has the target's law; filters leave a nucleus and drivers agree; streamed text is the decoded text; rounding, tiles, loading and replaying are exact |
| MCTextHeldBack | the same text inputs | violation: a stray byte holds back all the text behind it |
| MCLoaderWrappers | the same checkpoints | violation: torch.compile around DistributedDataParallel does not load |

Bounds. Three requests on three blocks are the least for which there is a
claimant, a victim and a third sequence waiting; with prompts of four tokens and
four more to generate a request alone may need four blocks, one more than the
pool, so self-eviction and the unfit head of line occur; with prompts of one
token, tail blocks are exactly full at different times. `max_tokens = 0` reaches
the limit at the first token. A table shorter than the pool (MCEngineLive) is
where the check of `add_request` matters: with 2+6 tokens refused, no position
leaves it; where the pool is the smaller of the two (MCPagedEngine) it cannot. The
scores of PagedEngine's tokens rise and fall along a context, so that the
kernel's maximum changes in several blocks. The two clients of AsyncEngine meet in every
combination of positions; one worker makes them compete for the executor. In
MCAsyncEngineLive they generate two tokens each, so that a stream is also met
between two of its own tokens, with its first `get` behind it and the next to come.
Its specification leaves `shutdown()` out (`NeverShutSpec`): ServedStreamsEnd and
QueuesAreForgotten promise nothing once the flag is set, and nothing resets it, so
no counterexample of theirs is lost. NoWorkerLeaks is thereby checked without
shutdown; what shutdown does to safety is in MCServer. `Endings = {"eot"}` lets a
request end at any token; the reason itself is not looked at by AsyncEngine.
`{"length"}`, in MCAsyncEngineLive, keeps its requests at two tokens. Sequences are
symmetric (identities are only compared for equality), so the safety runs use
symmetry, the liveness runs do not.

In MCSpecDecode and MCStaticBatch the longest prompt and the limit just fill the
table, and the limit is longer than a draft and the token behind it, so that
there are a second round, a shortened draft and the fallback for a single token
left. `MCTarget` depends on every token and every position of a context, so that
a wrong context shows in the tokens too, not only in the invariants; it is
greedy after some contexts and not after others. Sixths let acceptance ratios of
1/5 to 1 and residuals on one to three tokens occur, and all one-hot rows.

In MCAlgorithms the stop lists have no string, the empty one, one that spans
tokens, two of which one is the other's beginning, one with a character of two
bytes, and one that only finalize() can bring out; the tokens are single
characters, two characters, the two halves of one (the second with a letter
behind it, so that a stray half occurs) and EOT, which a request may or may not
heed. Three codes each side of zero make both halves and thirds of a step occur;
weights larger than the codes make distinct weights share a code. Shapes and
tiles are divisible and not, tiles larger than the shape included. Two graph
calls may be captures with replays before, between and behind them.

Deadlock is checked for the engine: while it is idle it can always be stepped.
It is not for AsyncEngine, which stops when its thread has died or was shut down
and every client is done, nor for SpecDecode, VerifyAccept and StaticBatch, whose
calls return (in MCAlgorithms every other input is an initial state and nothing
more).

Fairness. `LLMEngine!FairSpec`: weak fairness of Step, because AsyncEngine calls
step() whenever has_unfinished_requests() is true. `AsyncEngine!FairSpec`: weak
fairness of the thread, of the executor and of every client's task (the OS and
the event loop schedule them; a waiting thread is assumed to get the lock
sometime), and strong fairness of a live request getting its token, which is what
EveryRequestFinishes establishes for LLMEngine. Nobody has to submit, to
disconnect, to shut down; no exception has to happen. `SpecDecode!FairSpec` and
`StaticBatch!FairSpec`: weak fairness of Next, a single thread that runs its loop.

## 4. Findings

1. **StepNeverRaises with an empty prompt.** `add_request` has no lower bound;
   ForwardBatch's assertion then fails inside `step()` and the thread dies for
   every client.
2. **NoStreamHangs.** After a crash `submit()` still accepts requests; their
   streams never end and each holds an executor worker. With few workers these
   hold up streams that *were* failed properly. ServedStreamsEnd, which the code
   keeps, therefore assumes that no such late stream holds a worker for ever
   (`[]<> ~HeldUp`).
3. **HoldsBackIncomplete.** "Trailing bytes are an incomplete multi-byte sequence"
   (`tokenizer.py:85`): the bytes held back start at the first invalid one, and
   that may be a stray byte with any amount of text behind it. Such a stream shows
   nothing until it ends, and its stop strings are noticed only then. Nothing is
   lost: TextIsDecoded holds.
4. **LoadsHoweverTrained.** "Strip either if present so this loads regardless of how
   it was trained" (`loader.py:107-108`): "module." is stripped before "_orig_mod.",
   so the keys `_orig_mod.module.*` of torch.compile around
   DistributedDataParallel keep "module." and load_model raises. The other nesting
   loads (LoaderIsExact).
5. **CountersCoverAllRequests.** "Total tokens generated across all requests",
   "Total requests by terminal status" (`server/metrics.py:50` and `:61`): both counters
   are incremented in and behind `_consume` only, the second with the status
   "success", and streams do not go through it; a request that was refused or failed is
   counted under no status at all.

Evident from the code, without a run: `_newest_running_other_than` skips the claimant,
so the newest sequence, when it is the one that needs a block, has an older one evicted,
although the docstring says "evict the NEWEST running sequence (least sunk cost)"
(`engine/scheduler.py:61-63`); and `submit()` registers the queue before `add_request`
may refuse the request, and then nobody removes the entry (`async_engine.py:86-90`; the
model does the same), although queues are popped "so a long-lived server doesn't
accumulate one abandoned queue per completed request forever"
(`docs/ARCHITECTURE.md:346-348` of the repository). QueuesAreForgotten is about accepted
requests.

Met on the way, said in the comments of the properties named, without a run: at an
exact tie with top_p the nucleus keeps one token more than "the smallest prefix
whose mass reaches top_p" (`IsNucleus`); of two stop strings that come in one
step the one listed first decides, wherever it is (`StopsAreHidden`; the docstring
calls the truncation best effort).

## 5. Proofs

| Module | About |
|---|---|
| `Lemmas` | what the others share: Min and Max, division, `list.remove`, products, sums and maxima of functions over finite sets, images |
| `LLMEngine_proofs` | allocator, scheduler, engine; `KeepsPromise` |
| `PagedEngine_proofs` | the contents of the pool and both ways to read it |
| `AsyncEngine_proofs`, `Server_proofs` | delivery, answers, counters |
| `SpecDecode_proofs`, `StaticBatch_proofs` | the two refinements of `Decoding` |
| `Algorithms_proofs` | the functions |

Constants are arbitrary throughout: sets of requests, of tokens and of clients are
finite only where something is counted over them (`SamplingAssumption`,
`StaticBatchAssumption`, `ServerAssumption`), numbers are natural, and the remaining
assumptions only say of what kind a constant is. What a theorem supposes beyond
them is said below. The library's induction theorems cannot be used by the
installed provers, so induction is by the least counterexample (`FirstNat`, and
`MaxIndex` for the last one).

### Block ownership

`LLMEngine_proofs` proves, for every number of sequences and blocks, every block
size, batch limit and mix of requests (assumptions: `BlockManagerAssumption`, `SchedulerAssumption`,
`EngineAssumption`, which only say what kind of numbers the constants are):

* `TypeCorrect == Spec => []TypeOK`
* `OwnershipHolds == Spec => []BlockOwnership`

The two are one induction: `Safe == TypeOK /\ BlockOwnership` is inductive, and
neither half is alone, since a table that named a block outside the pool, or a
list that held an unknown sequence, would break ownership at the next release.
`GrowOwnership` (taking k blocks off the stack) and `FreeOwnership` (giving a
table back) carry the weight; `AllocateOwnership`, `AppendSlotOwnership`,
`FinishSafe` and `PreemptSafe` lift them to the scheduler's operations,
`RemoveFirstEffect` and `VictimOfList` say that what is taken out of a list was in
it. Then there is one lemma per action and `NextSafe` puts them together. A
raised assertion needs no exclusion here: it leaves the state as it is.

### The engine's other promises

It also proves, under the same assumptions,

* `ListsMatchStatusHolds == Spec => []ListsMatchStatus`

and, from `0 \notin PromptLens` (an empty prompt does make step() raise: finding 1),

* `StepNeverRaisesHolds`, `NextPositionHolds`, `TablesMatchProgressHolds`,
  `PreemptedBeforeFreshHolds`: the invariants of these names;
* `OneEvictionSufficesHolds`, `StallOnlyIfUnfitHolds`: the two action properties;
* `ImplementsCompletion == Spec => KeepsPromise`: the refinement.

`Inductive` has three layers, each kept by every action given the ones below it.
`Safe` is the pair above. `Lists` adds to ListsMatchStatus that the list a loop
walks has running sequences only, except in the capacity pass, which is why
SkipPreempted exists. `Going` is `Progress` of every sequence and the absence of an
exception. They need each other: that nothing raises needs the size of a table and
the position in it; the size needs the position; the position needs to know whose
turn has come, that is, `todo`. `Progress` therefore says of a sequence in which
part of the step it is (`Unprefilled`, `Unsampled`), that it has a detokenizer, that
its tokens fit the position table with the next one included, and, from the capacity
pass on, which sequences have their next slot secured. `AdmitHeadAllocates` (the
assertion in allocate() holds whenever can_allocate() did) and `RowEffect` (what one
sampled row changes) are used by all three layers.

StallOnlyIfUnfit takes a fourth conjunct, `EmptiedByUnfit`: when a capacity pass has
evicted everyone, the sequence in front of the queue is larger than the pool. It holds
because the last one evicts itself only with all blocks in its own table; that these are
`NumBlocks` many is `FullLength`, a bijection between the places of a list and the
pool. The arithmetic of `blocks_needed` (monotone, enough, at most one more for one
more token) is proved from two lemmas about division.

### The KV pool

`PagedEngine_proofs` proves, from `0 \notin PromptLens`:

* `CacheHoldsOwnTokensHolds == PagedSpec => []CacheHoldsOwnTokens`
* `AttendsExactContextHolds == PagedSpec => []AttendsExactContext`
* `KernelReadsContextHolds == PagedSpec => []KernelReadsContext`

Ownership of blocks becomes ownership of slots: `SlotsDistinct` says that two
positions share a slot only if they are one position of one sequence. So the scatter of
a prefill puts every token where it is looked up later (`PrefillWrites`), no row of a
decode overwrites another's (`DecodeWrites`), and neither touches what a third
sequence has computed. The other steps write nothing and satisfy `RunningKept`:
whoever runs afterwards with something computed had it before, in the same blocks. That a
sequence coming back from the queue starts at position 0 is what makes AdmitHead one of
them, and TablesMatchProgress is what bounds the positions by the table
(`ComputedCovered`). Clamped padding and the columns behind a row's end then need no
argument of their own: the mask leaves exactly the computed positions.

The kernel's walk over a block table is a fold. `BlockAbsorbs` says what one turn of
its loop does for any accumulator: the terms it has are rescaled to the maximum with the
new block included, the columns of this block that lie in the context are added at
that maximum, and no lane beyond the context contributes (`LanesRead`). By
`WalkExists` and `WalkSums` the terms after each block are then exactly the columns so
far, relative to their maximum; what `TopOfUnion` says of the maximum of a union is
why rescaling in steps is rescaling once. `KernelExact` is the whole walk.

### Speculative decoding

`SpecDecode_proofs` proves, for every vocabulary, model, set of prompts, draft
length, n-gram size and table (`SpecDecodeAssumption`), from `Assumed`: Target
gives tokens of the vocabulary, and prompt and limit fit the table, which is what
a caller owes (MCSpecDecode is an instance that just does).

* `NeverRaisesHolds`, `ContextsExactHolds`: the two invariants of the run.
* `ImplementsDecoding == Spec => D!Spec`: the refinement, without its liveness.

None of the three is inductive. `Inv` adds what connects the loop's variables to
the cache: between rounds the first `cache_len` slots hold exactly the confirmed
tokens and none behind the prompt is EOT (`Confirmed`); within a round the draft
lies in the slots behind them, leaves room for one token, and row i of `target_p`
has the context it should (`Drafted`); what has been accepted so far is the
beginning of the draft (`Agrees`). At a commit this is what makes the accepted
tokens already be in the cache, all but the last (`AcceptedInSlots`), which
`AdvanceEffect` writes over whatever a rejected draft left there. The refinement
then needs only facts about `UpToEOT` (`CutHides`, `CutKeeps`, `CutBehind`): a
verified token is an Emit unless an EOT came before it in the round, and a commit
is a stutter.

### Static batching

`StaticBatch_proofs` proves, for every batch, however ragged, every model, limit and
padding token, with and without EOT and for both loops, from `Assumed` (Target gives
tokens of the vocabulary, prompts and limit fit the table):

* `NeverRaisesHolds`, `QueriesSeeOwnRowHolds`: the two invariants of the run;
* `BatchInvarianceHolds`: every row implements Decoding, without its liveness.

`Inv` says of every row that what it has generated begins with its prompt and
is as long as the steps taken, unless it has finished (`RowDecoded`), and of an
unfinished one that its cache holds its tokens behind the padding, each with the
position it has in the row alone (`RowCached`), and that its last queries saw just
these (`RowSeen`). A finished row is
computed on with whatever it draws; the invariant promises nothing of its slots, and
needs nothing, since no query of another row sees them. `UnmaskedIsPlaced` is the
heart: a mask that leaves the columns from the padding on, applied to a row that
holds its tokens there, leaves exactly what attention sees without any padding.
The last forward just fits the cache since a loop of MaxNewTokens - 1 steps follows
the prefill. A step of the loop is then an Emit of every unfinished row and a
stutter of the others.

### The asynchronous engine

`AsyncEngine_proofs` proves, for any number of clients and executor threads, any
limits and endings (`AsyncEngineAssumption`):

* `TypeCorrect == Spec => []TypeOK`
* `ClosedMeansReleasedHolds == Spec => []ClosedMeansReleased`
* `NoLostWakeupHolds == Spec => []NoLostWakeup`
* `NothingLostInDeliveryHolds == Spec => []NothingLostInDelivery`
* `EndsAreHonestHolds == Spec => []EndsAreHonest`

`Inv` adds three facts to the first three. The thread has an output in hand between its lookup and
the removal of a finished queue (`HoldsOutput`; without it `Head(outputs)` has no
type). The engine knows a request exactly when its client was accepted
(`Accepted`), which is why a cancelled request is done and not merely unknown. And
no job of the executor belongs to a client still inside `submit()`
(`JobsSubmitted`): a worker that took such a job would remove the one client whose
pending `set()` justifies a waiting thread. `MoveEffect` says once what the seven
steps of a client have in common; the `...Keeps` lemmas use only that.

`Delivery` is the invariant of the other two. `Stream` says of a client inside
`stream()` that its queue holds its next k outputs, in order and from the one behind
the last it was given, and then nothing but marks of the end (`Holds`); that, short of
a crash, only an output the thread still has in hand may be missing (`Due`); and that
its queue is still looked up as long as one is (`Registered`). A sentinel is honest: the
request ended, and the k outputs are all there are (`Marks`). To be inductive this needs
that the outputs of a step are the newest of their requests, at most one each
(`OutputsTell`), and what executor threads have in hand: a call of `get` runs only for
a client that waits for it or has gone (`BusyGetting`), a queued one is of a client that
waits, and there is one of each (`JobsQueued`). That a mark put by a crash claims
nothing is why `EndedHonestly` tells the ways to end apart.

### The server

`Server_proofs` proves, from a finite set of clients (`ServerAssumption`, which
counting them needs):

* `ServerIsAsyncEngine == ServerSpec => Spec`: the handlers add answers and
  counters and no behaviour, so all of the above holds of the server;
* `AnswersAreCompleteHolds`, `WholeAnswersAreCountedHolds`: its two invariants. The
  second is about whole answers only; what the help texts say of all requests is
  refuted by finding 5.

`Told` follows the `finished` flag: through step, queue and client, an output without it
has another behind it (`MoreToCome`, `LastTold`), so a stream that ended well has told
its handler the finish_reason; `Answering` ties each status to the way its stream ended.
`Counted` keeps `tokens_generated_total` equal to the tokens handed to whole requests,
which for a 200 are all of them by `Told`. It needs, beyond the two sums, that no token in a queue is ahead of the engine
(`NotAhead`): the counter grows with what clients are given, so it could otherwise
count what was not generated.

### The functions

`Algorithms_proofs` states each function's property for arbitrary arguments, and
then for the inputs of MCAlgorithms with its bounds left open (`MCSpec => []...`):

* `LawIsTargetsHolds`, `OutcomesAreSupportsHolds`, for every finite vocabulary,
  both rows and any number of shares. A token is drawn with what both
  rows give it, as an accepted draft, and with what the target gives it beyond the
  draft's share, from the residual. That the two sum to the target's share comes down
  to `LawArithmetic`: the mass refused is the mass of the residual. Fractions are
  compared at `Scale`, a multiple of every denominator that occurs (`ScaleMultiple`).
* `HalfStep`, for every row of integers of any length and every width of codes:
  rounding moves no weight by more than half a step, keeps order and the largest.
* `TilesCover`, for every shape and tiles: one lane stores an output, and a product
  is summed once (`ColumnsOnce`).
* `LoaderFits`, for every depth and nesting of wrappers: what loads is the whole model
  under its own names; bare, `module.`, `_orig_mod.` and `module._orig_mod.` checkpoints of known
  depth do load; quantizing saves what it should. Stripping takes the same prefixes
  off all keys (`StrippedKeys`) and leaves none of just these four (`RestEmpty`), names of
  different depths differ (`NamesDiffer`), and `QuantizedBytes` counts the bytes saved.
* `ReplaysAreForwards`, for every history of calls, of any length: a buffer always
  shows the forward of its latest replay, because a capture adds a buffer and
  keeps the others (`CaptureKeeps`) and a replay writes the last one only
  (`ReplayWrites`).
* `FiltersLeaveANucleus`, `DriversDoAgree`, for every finite vocabulary, every row with
  mass, every k, top_p and mask. Sorting is any ranking of the tokens
  (`RankingExists`); a token is at or above the k-th place exactly when fewer
  than k are likelier, whatever the ties (`ThresholdCounts`), so top-k does not depend
  on the ranking; and since the mass before a place only grows, what top-p removes is
  everything from some place on (`CutExists`), which `NucleusOf` turns into the
  statement about sets of tokens.
* `TextIsStreamed`, for tokens of any bytes, any number of them, and any stop strings:
  streamed text is the decoded text. The strict decoding of some bytes begins
  every decoding of these and more (`DecodeBegins`), since a stray byte ends it
  and a character that has its bytes stays; so a delta and what finalize() adds are
  one piece (`DeltasJoin`), and a stop string found once is found at the same
  place ever after (`FoundStays`). `Streams` is the invariant of the fold: all of
  the strict decoding and no stop string in it while a sequence runs, and
  afterwards what a cut leaves (`TruncateEffect`). It rests on `TextAssumption`:
  the bytes of UTF-8 are of one kind each, and U+FFFD is not one of the
  characters of a single byte.

### Only model-checked

Liveness, out of the prover's reach: EveryRequestFinishes, ServedStreamsEnd,
NoWorkerLeaks, QueuesAreForgotten, EveryRowCompletes, and that ExactDecoding comes to
an end. Everything else that a passing run checks is a theorem.

## 6. Proofs left

Of the safety properties, none. The refinements of `Decoding` and `Completion` are
proved without the fairness in those; that part is liveness and stays with TLC.

## 7. Not modelled

Tensor arithmetic in floating point: attention sums, softmax, layer norms, what
rounding does to probabilities and to dequantized products. The modules above say
which numbers are combined, not what their floats are. Random draws, but for their
supports and, in VerifyAccept, their law. The repetition penalty, which nothing
calls; statistics that nothing reads (`num_preemptions`, `fragmentation_stats`,
`SpecDecodeStats`, `preemptions_total`); JSON, routing and the chat template;
downloads. Benchmarks and scripts drive the components modelled here and measure
times, which no model has. Unbounded arrival of requests: prefill priority then
starves decoding, by design.
