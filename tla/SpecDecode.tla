----------------------------- MODULE SpecDecode -----------------------------
(***************************************************************************)
(* engine/spec_decode.py: one call of speculative_generate.  A round of    *)
(* its loop is Fallback, or Draft, one action per token that               *)
(* verify_and_accept decides, and Commit.                                  *)
(*                                                                         *)
(* A forward pass yields distributions, and a distribution is named by the *)
(* context that attention saw; Target gives its support.  What             *)
(* verify_and_accept may return is reduced to supports here; its           *)
(* arithmetic is module VerifyAccept, which shows that these are the       *)
(* tokens that may come out.  SpecDecodeStats is left out.                 *)
(***************************************************************************)
EXTENDS StaticCache, FiniteSetsExt

CONSTANTS Tokens, EOT, Target(_), Prompts, MaxNewTokens,
          Gamma,          \* the draft length asked for
          NGram,          \* ngram_size of the prompt-lookup drafter
          ModelBlockSize  \* rows of the position table, slots of the cache

ASSUME SpecDecodeAssumption ==
    /\ Prompts \subseteq Seq(Tokens) \ {<< >>}
    /\ MaxNewTokens \in Nat /\ Gamma \in Nat /\ ModelBlockSize \in Nat
    /\ NGram \in Nat \ {0}

VARIABLES prompt,
          generated,   \* the prompt and the tokens confirmed so far
          slots,       \* the slots of the cache
          cache_len,   \* cache.seq_lens[0]
          pending,     \* pending_logits, named by its context
          draft,       \* draft_ids
          contexts,    \* the rows of target_p, named by their contexts
          accepted,    \* the local of verify_and_accept
          drafter,     \* the drafter the caller passed
          pc

vars == <<prompt, generated, slots, cache_len, pending, draft, contexts, accepted, drafter, pc>>

Drafters == {"lookup", "self"}
PCs == {"prefill", "round", "verify", "commit", "done", "raised"}
Context == Seq((Tokens \X Nat) \cup {Blank})

TypeOK ==
    /\ prompt \in Prompts
    /\ generated \in Seq(Tokens)
    /\ slots \in [1 .. ModelBlockSize -> (Tokens \X Nat) \cup {Blank}]
    /\ cache_len \in Nat
    /\ pending \in Context
    /\ draft \in Seq(Tokens)
    /\ contexts \in Seq(Context)
    /\ accepted \in Seq(Tokens)
    /\ drafter \in Drafters
    /\ pc \in PCs

Init ==
    /\ prompt \in Prompts
    /\ generated = prompt
    /\ slots = EmptySlots(ModelBlockSize)
    /\ cache_len = 0
    /\ pending = << >>
    /\ draft = << >>
    /\ contexts = << >>
    /\ accepted = << >>
    /\ drafter \in Drafters
    /\ pc = "prefill"

Raise ==
    /\ pc' = "raised"
    /\ UNCHANGED <<prompt, generated, slots, cache_len, pending, draft, contexts, accepted, drafter>>

-----------------------------------------------------------------------------
(* Forward passes.                                                         *)

\* The assertions of GPT.forward and StaticKVCache.write on n tokens fed at
\* consecutive positions from `start', the current length, on.
ForwardOK(start, n) == start + n - 1 < ModelBlockSize /\ HasRoom(slots, start, n)

Prefill ==
    /\ pc = "prefill"
    /\ IF ForwardOK(0, Len(prompt))
       THEN /\ slots' = Write(slots, 0, Placed(prompt))
            /\ cache_len' = Len(prompt)
            /\ pending' = Attended(slots', Len(prompt))
            /\ pc' = "round"
            /\ UNCHANGED <<prompt, generated, draft, contexts, accepted, drafter>>
       ELSE Raise

\* _advance_one_step: one confirmed token is written at position p and gives
\* the next pending_logits.
Advance(t, p) ==
    /\ slots' = Write(slots, p, PlacedFrom(p, <<t>>))
    /\ cache_len' = p + 1
    /\ pending' = Attended(slots', p + 1)

-----------------------------------------------------------------------------
(* The drafters.                                                           *)

\* The starts of earlier occurrences of the last NGram tokens.
Matches(context) ==
    { s \in 0 .. Len(context) - NGram - 1 :
        SubSeq(context, s + 1, s + NGram) =
          SubSeq(context, Len(context) - NGram + 1, Len(context)) }

\* PromptLookupDrafter: what followed the most recent one, when there is one.
Lookup(context, g) ==
    LET end == Max(Matches(context)) + NGram
    IN  SubSeq(context, end + 1, Min({end + g, Len(context)}))

\* SelfSpeculativeDrafter: g tokens its first layers gave, any tokens.
Proposals(context, g) ==
    IF drafter = "self" THEN [1 .. g -> Tokens]
    ELSE IF Matches(context) = {} THEN {} ELSE {Lookup(context, g)}

-----------------------------------------------------------------------------
(* A round.                                                                *)

Remaining == MaxNewTokens - (Len(generated) - Len(prompt))

\* A bug to catch: no room is left for the token that follows the draft.
DraftLenFull == Min({Gamma, Remaining})

DraftLen == Min({Gamma, Max({0, Remaining - 1})})

LoopExit ==
    /\ pc = "round" /\ Remaining <= 0
    /\ pc' = "done"
    /\ UNCHANGED <<prompt, generated, slots, cache_len, pending, draft, contexts, accepted, drafter>>

NothingToPropose == DraftLen = 0 \/ Proposals(generated, DraftLen) = {}

Fallback ==
    /\ NothingToPropose
    /\ \E t \in Target(pending) :
         IF t = EOT
         THEN /\ generated' = Append(generated, t)
              /\ pc' = "done"
              /\ UNCHANGED <<prompt, slots, cache_len, pending, draft, contexts, accepted, drafter>>
         ELSE IF ForwardOK(cache_len, 1)
              THEN /\ generated' = Append(generated, t)
                   /\ Advance(t, cache_len)
                   /\ UNCHANGED <<prompt, draft, contexts, accepted, drafter, pc>>
              ELSE Raise

\* A bug to catch: a draft token is verified with itself in view.
RowSeesOwn(i) == cache_len + i

\* build_speculative_verify_mask: how many columns the i-th row of target_p
\* saw.  Its first row is pending_logits, the others come from this forward.
RowSees(i) == cache_len + i - 1

Draft ==
    /\ ~ NothingToPropose
    /\ \E d \in Proposals(generated, DraftLen) :
         IF ForwardOK(cache_len, Len(d))
         THEN /\ draft' = d
              /\ slots' = Write(slots, cache_len, PlacedFrom(cache_len, d))
              /\ contexts' = <<pending>> \o
                   [i \in 1 .. Len(d) |-> Attended(slots', RowSees(i + 1))]
              /\ accepted' = << >>
              /\ pc' = "verify"
              /\ UNCHANGED <<prompt, generated, cache_len, pending, drafter>>
         ELSE Raise

\* The assertion at the head of the loop comes first.
BeginRound ==
    /\ pc = "round" /\ Remaining > 0
    /\ IF cache_len = Len(generated) THEN Fallback \/ Draft ELSE Raise

Row == Len(accepted) + 1

\* min(1, p/q) > 0: the target may give this token.
AcceptDraft ==
    /\ pc = "verify" /\ Row <= Len(draft)
    /\ draft[Row] \in Target(contexts[Row])
    /\ accepted' = Append(accepted, draft[Row])
    /\ UNCHANGED <<prompt, generated, slots, cache_len, pending, draft, contexts, drafter, pc>>

\* The residual max(0, p - q) has no mass on the rejected token, which q
\* prefers more than p does.
Corrections == Target(contexts[Row]) \ {draft[Row]}

RejectDraft ==
    /\ pc = "verify" /\ Row <= Len(draft)
    /\ \E t \in Corrections : accepted' = Append(accepted, t)
    /\ pc' = "commit"
    /\ UNCHANGED <<prompt, generated, slots, cache_len, pending, draft, contexts, drafter>>

Bonus ==
    /\ pc = "verify" /\ Row > Len(draft)
    /\ \E t \in Target(contexts[Row]) : accepted' = Append(accepted, t)
    /\ pc' = "commit"
    /\ UNCHANGED <<prompt, generated, slots, cache_len, pending, draft, contexts, drafter>>

HasEOT(tokens) == \E i \in 1 .. Len(tokens) : tokens[i] = EOT

\* A bug to catch: what a round accepted behind EOT is kept.
UpToEOTWhole(tokens) == tokens

UpToEOT(tokens) ==
    IF HasEOT(tokens)
    THEN SubSeq(tokens, 1, Min({ i \in 1 .. Len(tokens) : tokens[i] = EOT }))
    ELSE tokens

\* num_draft_accepted: all of accepted but the correction or bonus at its end.
AcceptedInCache == Len(accepted) - 1

\* advance by what was accepted, extend, and stop at EOT or write the last one.
Commit ==
    /\ pc = "commit"
    /\ LET newLen == cache_len + AcceptedInCache
       IN  IF HasEOT(accepted)
           THEN /\ generated' = generated \o UpToEOT(accepted)
                /\ cache_len' = newLen
                /\ pc' = "done"
                /\ UNCHANGED <<slots, pending>>
                /\ UNCHANGED <<prompt, draft, contexts, accepted, drafter>>
           ELSE IF ForwardOK(newLen, 1)
                THEN /\ generated' = generated \o accepted
                     /\ Advance(accepted[Len(accepted)], newLen)
                     /\ pc' = "round"
                     /\ UNCHANGED <<prompt, draft, contexts, accepted, drafter>>
                ELSE Raise

Next ==
    \/ Prefill \/ LoopExit \/ BeginRound
    \/ AcceptDraft \/ RejectDraft \/ Bonus \/ Commit

Spec == Init /\ [][Next]_vars

\* The loop runs until it returns.
FairSpec == Spec /\ WF_vars(Next)

-----------------------------------------------------------------------------
(* Properties.                                                             *)

(***************************************************************************)
(* No assertion fails: the cache length and the number of tokens agree at  *)
(* the head of every round, and neither the draft nor the extra step after *)
(* it leaves the position table, which prompt and limit just fill.         *)
(***************************************************************************)
NeverRaises == pc # "raised"

(***************************************************************************)
(* Every distribution is conditioned on the right tokens, whatever         *)
(* rejected drafts left behind in the cache: between rounds the cached     *)
(* tokens and pending_logits are those of the confirmed tokens, and row i  *)
(* of target_p saw them and the first i - 1 draft tokens, nothing else.    *)
(***************************************************************************)
ContextsExact ==
    /\ pc = "round" =>
         /\ Attended(slots, cache_len) = Placed(generated)
         /\ pending = Placed(generated)
    /\ pc = "verify" => \A i \in 1 .. Len(contexts) :
         contexts[i] = Placed(generated \o SubSeq(draft, 1, i - 1))

\* The tokens confirmed so far, those of an unfinished round included.
Output ==
    LET new == SubSeq(generated, Len(prompt) + 1, Len(generated))
    IN  IF pc \in {"verify", "commit"} THEN UpToEOT(new \o accepted) ELSE new

D == INSTANCE Decoding WITH output <- Output, eot <- EOT

(***************************************************************************)
(* Speculation is invisible: the tokens are those the target alone could   *)
(* have drawn, one after the other (its only choices when it is greedy),   *)
(* they end at the first EOT or at the limit and not before, and none is   *)
(* returned behind either.                                                 *)
(***************************************************************************)
ExactDecoding == D!FairSpec
=============================================================================
