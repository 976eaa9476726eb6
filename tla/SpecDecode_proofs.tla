-------------------------- MODULE SpecDecode_proofs --------------------------
(***************************************************************************)
(* Speculative decoding returns what the target alone could have drawn,    *)
(* for every model, prompt, draft length and drafter: SpecDecode           *)
(* implements Decoding (safety).                                           *)
(***************************************************************************)
EXTENDS SpecDecode, Lemmas, SequenceTheorems

Cell == (Tokens \X Nat) \cup {Blank}

\* A model draws tokens of its vocabulary.
TargetGivesTokens == \A c \in Seq(Cell) : Target(c) \subseteq Tokens

\* Prompt and limit together fit the position table.
PromptsFit == \A p \in Prompts : Len(p) + MaxNewTokens <= ModelBlockSize

-----------------------------------------------------------------------------
(* The cache.                                                              *)

\* The entries of consecutive positions, one by one.
LEMMA PlacedFromEffect ==
  ASSUME NEW p \in Nat, NEW s \in Seq(Tokens)
  PROVE  /\ PlacedFrom(p, s) \in Seq(Cell)
         /\ Len(PlacedFrom(p, s)) = Len(s)
         /\ \A i \in 1 .. Len(s) : PlacedFrom(p, s)[i] = <<s[i], p + i - 1>>
<1>1. Len(s) \in Nat /\ \A i \in 1 .. Len(s) : s[i] \in Tokens
  BY LenProperties, ElementOfSeq
<1>2. \A i \in 1 .. Len(s) : p + i - 1 \in Nat
  BY <1>1
<1>3. \A i \in 1 .. Len(s) : <<s[i], p + i - 1>> \in Cell
  BY <1>1, <1>2 DEF Cell
<1>4. PlacedFrom(p, s) \in [1 .. Len(s) -> Cell]
  BY <1>3, Zenon DEF PlacedFrom
<1>5. PlacedFrom(p, s) \in Seq(Cell)
  BY <1>1, <1>4, SeqDef
<1> QED
  BY <1>1, <1>4, <1>5, LenProperties DEF PlacedFrom

\* A sequence is placed as its entries say, and as nothing else.
LEMMA PlacedUnique ==
  ASSUME NEW s \in Seq(Tokens), NEW c \in Seq(Cell), Len(c) = Len(s),
         \A i \in 1 .. Len(s) : c[i] = <<s[i], i - 1>>
  PROVE  c = Placed(s)
<1>1. /\ Placed(s) \in Seq(Cell) /\ Len(Placed(s)) = Len(s)
      /\ \A i \in 1 .. Len(s) : Placed(s)[i] = <<s[i], 0 + i - 1>>
  BY PlacedFromEffect DEF Placed
<1>2. \A i \in 1 .. Len(c) : 0 + i - 1 = i - 1
  BY LenProperties
<1>3. \A i \in 1 .. Len(c) : c[i] = Placed(s)[i]
  BY <1>1, <1>2
<1> QED BY <1>1, <1>3, SeqEqual

\* A write changes the slots it covers and no other.
LEMMA WriteEffect ==
  ASSUME NEW start \in Nat, NEW e \in Seq(Cell),
         slots \in [1 .. ModelBlockSize -> Cell], ModelBlockSize \in Nat
  PROVE  /\ Write(slots, start, e) \in [1 .. ModelBlockSize -> Cell]
         /\ \A i \in 1 .. ModelBlockSize :
              Write(slots, start, e)[i] =
                IF i \in start + 1 .. start + Len(e) THEN e[i - start] ELSE slots[i]
<1>1. Len(slots) = ModelBlockSize
  <2>1. slots \in Seq(Cell) /\ DOMAIN slots = 1 .. ModelBlockSize
    BY SeqDef
  <2> QED BY <2>1, LenProperties
<1>2. Len(e) \in Nat /\ \A i \in 1 .. Len(e) : e[i] \in Cell
  BY LenProperties, ElementOfSeq
<1>3. \A i \in 1 .. ModelBlockSize :
         (IF i \in start + 1 .. start + Len(e) THEN e[i - start] ELSE slots[i]) \in Cell
  <2> SUFFICES ASSUME NEW i \in 1 .. ModelBlockSize
               PROVE  (IF i \in start + 1 .. start + Len(e)
                       THEN e[i - start] ELSE slots[i]) \in Cell
    OBVIOUS
  <2>1. i \in start + 1 .. start + Len(e) => i - start \in 1 .. Len(e)
    BY <1>2
  <2> QED BY <1>2, <2>1
<1> QED
  BY <1>1, <1>3, Zenon DEF Write

\* Attending to the first n columns is seeing the tokens whose entries they hold.
LEMMA AttendedIsPlaced ==
  ASSUME NEW sl \in [1 .. ModelBlockSize -> Cell], ModelBlockSize \in Nat,
         NEW s \in Seq(Tokens), Len(s) <= ModelBlockSize,
         \A i \in 1 .. Len(s) : sl[i] = <<s[i], i - 1>>
  PROVE  Attended(sl, Len(s)) = Placed(s)
<1>1. Len(s) \in Nat /\ \A i \in 1 .. Len(s) : sl[i] \in Cell
  BY LenProperties
<1>2. /\ SubSeq(sl, 1, Len(s)) \in Seq(Cell)
      /\ Len(SubSeq(sl, 1, Len(s))) = Len(s)
      /\ \A i \in 1 .. Len(s) : SubSeq(sl, 1, Len(s))[i] = sl[i]
  <2>1. \A i \in 1 .. Len(s) : SubSeq(sl, 1, Len(s))[i] = sl[1 + i - 1]
    BY <1>1, SubSeqProperties
  <2>2. \A i \in 1 .. Len(s) : 1 + i - 1 = i
    BY <1>1
  <2>3. Len(SubSeq(sl, 1, Len(s))) = IF 1 <= Len(s) THEN Len(s) - 1 + 1 ELSE 0
    BY <1>1, SubSeqProperties
  <2>4. SubSeq(sl, 1, Len(s)) \in Seq(Cell)
    BY <1>1, SubSeqProperties
  <2> QED BY <1>1, <2>1, <2>2, <2>3, <2>4
<1>3. SubSeq(sl, 1, Len(s)) = Placed(s)
  BY <1>2, PlacedUnique
<1> QED BY <1>3 DEF Attended

-----------------------------------------------------------------------------
(* The inductive invariant.  NeverRaises and ContextsExact are not         *)
(* inductive: they need to know which slots hold confirmed tokens, which   *)
(* hold the draft, and how far the loop is from its limit.                 *)

Typed ==
    /\ prompt \in Prompts
    /\ generated \in Seq(Tokens)
    /\ slots \in [1 .. ModelBlockSize -> Cell]
    /\ cache_len \in Nat
    /\ pending \in Seq(Cell)
    /\ draft \in Seq(Tokens)
    /\ contexts \in Seq(Seq(Cell))
    /\ accepted \in Seq(Tokens)
    /\ drafter \in Drafters
    /\ pc \in PCs \ {"raised"}

\* The confirmed tokens: the prompt, then tokens that are not EOT, below the
\* limit, all of them in the cache and behind pending_logits.
Confirmed ==
    /\ cache_len = Len(generated)
    /\ Len(prompt) <= Len(generated)
    /\ Len(generated) <= Len(prompt) + MaxNewTokens
    /\ \A i \in 1 .. Len(prompt) : generated[i] = prompt[i]
    /\ \A i \in Len(prompt) + 1 .. Len(generated) : generated[i] # EOT
    /\ \A i \in 1 .. Len(generated) : slots[i] = <<generated[i], i - 1>>
    /\ pending = Placed(generated)

\* The draft under verification: in the slots behind the confirmed tokens,
\* short enough for one token more, each row of target_p in its context.
Drafted ==
    /\ Len(draft) >= 1
    /\ Len(generated) + Len(draft) + 1 <= Len(prompt) + MaxNewTokens
    /\ \A i \in 1 .. Len(draft) :
         slots[Len(generated) + i] = <<draft[i], Len(generated) + i - 1>>
    /\ Len(contexts) = Len(draft) + 1
    /\ \A i \in 1 .. Len(draft) + 1 :
         contexts[i] = Placed(generated \o SubSeq(draft, 1, i - 1))

\* The first n accepted tokens are draft tokens.
Agrees(n) == \A i \in 1 .. n : accepted[i] = draft[i]

Inv ==
    /\ Typed
    /\ pc = "prefill" => generated = prompt
    /\ pc \in {"round", "verify", "commit"} => Confirmed
    /\ pc \in {"verify", "commit"} => Drafted
    /\ pc = "verify" => Len(accepted) <= Len(draft) /\ Agrees(Len(accepted))
    /\ pc = "commit" => /\ 1 <= Len(accepted) /\ Len(accepted) <= Len(draft) + 1
                        /\ Agrees(Len(accepted) - 1)

\* What the proofs below assume of the constants.
Assumed == TargetGivesTokens /\ PromptsFit

LEMMA Constants ==
  /\ \A p \in Prompts : p \in Seq(Tokens) /\ Len(p) \in Nat \ {0}
  /\ MaxNewTokens \in Nat /\ Gamma \in Nat /\ ModelBlockSize \in Nat
  /\ NGram \in Nat \ {0}
<1>1. \A p \in Prompts : p \in Seq(Tokens) /\ p # << >>
  BY SpecDecodeAssumption
<1> QED BY <1>1, EmptySeq, SpecDecodeAssumption

LEMMA SlotsLen == Typed => Len(slots) = ModelBlockSize
<1> SUFFICES ASSUME Typed PROVE Len(slots) = ModelBlockSize
  OBVIOUS
<1>1. slots \in Seq(Cell) /\ DOMAIN slots = 1 .. ModelBlockSize
  BY SeqDef, Constants DEF Typed
<1> QED BY <1>1, LenProperties, Constants

\* Below the limit there is room in the cache and in the position table.
LEMMA Fits ==
  ASSUME Assumed, Typed, NEW start \in Nat, NEW n \in Nat,
         start + n <= Len(prompt) + MaxNewTokens
  PROVE  ForwardOK(start, n) /\ start + n <= ModelBlockSize
<1>1. Len(prompt) \in Nat /\ Len(prompt) + MaxNewTokens <= ModelBlockSize
  BY Constants DEF Typed, Assumed, PromptsFit
<1>2. start + n <= ModelBlockSize
  BY <1>1, Constants
<1> QED
  BY <1>2, Constants, SlotsLen DEF ForwardOK, HasRoom

LEMMA InitInv == Init => Inv
<1> SUFFICES ASSUME Init PROVE Inv
  OBVIOUS
<1>1. slots \in [1 .. ModelBlockSize -> Cell]
  BY DEF Init, EmptySlots, Cell
<1> QED
  BY <1>1, Constants, EmptySeq DEF Init, Inv, Typed, PCs

LEMMA PrefillInv ==
  ASSUME Assumed, Inv, Prefill
  PROVE  Inv'
<1>1. /\ prompt \in Seq(Tokens) /\ Len(prompt) \in Nat \ {0}
      /\ generated = prompt
  BY Constants DEF Inv, Typed, Prefill
<1>2. ForwardOK(0, Len(prompt)) /\ Len(prompt) <= ModelBlockSize
  BY <1>1, Fits, Constants DEF Inv
<1>3. /\ slots' = Write(slots, 0, Placed(prompt))
      /\ cache_len' = Len(prompt)
      /\ pending' = Attended(slots', Len(prompt))
      /\ pc' = "round"
      /\ UNCHANGED <<prompt, generated, draft, contexts, accepted, drafter>>
  BY <1>2 DEF Prefill
<1>4. /\ Placed(prompt) \in Seq(Cell) /\ Len(Placed(prompt)) = Len(prompt)
      /\ \A i \in 1 .. Len(prompt) : Placed(prompt)[i] = <<prompt[i], 0 + i - 1>>
  BY <1>1, PlacedFromEffect DEF Placed
<1>5. /\ slots' \in [1 .. ModelBlockSize -> Cell]
      /\ \A i \in 1 .. ModelBlockSize : slots'[i] =
           IF i \in 0 + 1 .. 0 + Len(prompt) THEN Placed(prompt)[i - 0] ELSE slots[i]
  <2>1. slots \in [1 .. ModelBlockSize -> Cell] /\ ModelBlockSize \in Nat
    BY Constants DEF Inv, Typed
  <2> DEFINE e == Placed(prompt)
  <2>2. e \in Seq(Cell) /\ Len(e) = Len(prompt)
    BY <1>4
  <2> HIDE DEF e
  <2>3. /\ Write(slots, 0, e) \in [1 .. ModelBlockSize -> Cell]
        /\ \A i \in 1 .. ModelBlockSize : Write(slots, 0, e)[i] =
             IF i \in 0 + 1 .. 0 + Len(e) THEN e[i - 0] ELSE slots[i]
    BY <2>1, <2>2, WriteEffect
  <2>4. slots' = Write(slots, 0, e)
    BY <1>3 DEF e
  <2> QED BY <2>2, <2>3, <2>4, Zenon DEF e
<1>6. \A i \in 1 .. Len(prompt) : slots'[i] = <<prompt[i], i - 1>>
  <2> SUFFICES ASSUME NEW i \in 1 .. Len(prompt)
               PROVE  slots'[i] = <<prompt[i], i - 1>>
    OBVIOUS
  <2>1. i \in 1 .. ModelBlockSize /\ i - 0 = i /\ i \in 0 + 1 .. 0 + Len(prompt)
    BY <1>1, <1>2, Constants
  <2>2. slots'[i] = Placed(prompt)[i]
    BY <1>5, <2>1
  <2>3. 0 + i - 1 = i - 1
    OBVIOUS
  <2> QED BY <1>4, <2>2, <2>3
<1>7. pending' = Placed(prompt)
  BY <1>1, <1>2, <1>3, <1>5, <1>6, AttendedIsPlaced, Constants
<1>8. Typed'
  BY <1>1, <1>3, <1>4, <1>5, <1>7 DEF Inv, Typed, PCs
<1>9. Confirmed'
  BY <1>1, <1>3, <1>6, <1>7, Constants DEF Confirmed
<1> QED
  BY <1>3, <1>8, <1>9 DEF Inv

\* Writing one more token behind confirmed ones, and what it yields.
LEMMA AdvanceEffect ==
  ASSUME Typed, NEW s \in Seq(Tokens), NEW t \in Tokens, Len(s) + 1 <= ModelBlockSize,
         \A i \in 1 .. Len(s) : slots[i] = <<s[i], i - 1>>,
         Advance(t, Len(s))
  PROVE  /\ slots' \in [1 .. ModelBlockSize -> Cell]
         /\ cache_len' = Len(Append(s, t))
         /\ pending' = Placed(Append(s, t)) /\ pending' \in Seq(Cell)
         /\ \A i \in 1 .. Len(Append(s, t)) : slots'[i] = <<Append(s, t)[i], i - 1>>
<1> DEFINE u == Append(s, t)
           e == PlacedFrom(Len(s), <<t>>)
<1>1. /\ Len(s) \in Nat
      /\ u \in Seq(Tokens) /\ Len(u) = Len(s) + 1
      /\ \A i \in 1 .. Len(s) : u[i] = s[i]
      /\ u[Len(s) + 1] = t
  BY AppendProperties, LenProperties
<1>2. e \in Seq(Cell) /\ Len(e) = 1 /\ e[1] = <<t, Len(s)>>
  <2>1. <<t>> \in Seq(Tokens) /\ Len(<<t>>) = 1 /\ <<t>>[1] = t
    OBVIOUS
  <2>2. 1 \in 1 .. 1 /\ Len(s) + 1 - 1 = Len(s)
    BY <1>1
  <2>3. e[1] = <<<<t>>[1], Len(s) + 1 - 1>>
    BY <1>1, <2>1, <2>2, PlacedFromEffect
  <2> QED BY <1>1, <2>1, <2>2, <2>3, PlacedFromEffect
<1>3. slots' = Write(slots, Len(s), e) /\ cache_len' = Len(s) + 1
      /\ pending' = Attended(slots', Len(s) + 1)
  BY DEF Advance
<1> HIDE DEF e, u
<1>4. /\ slots' \in [1 .. ModelBlockSize -> Cell]
      /\ \A i \in 1 .. ModelBlockSize : slots'[i] =
           IF i \in Len(s) + 1 .. Len(s) + Len(e) THEN e[i - Len(s)] ELSE slots[i]
  <2>1. slots \in [1 .. ModelBlockSize -> Cell] /\ ModelBlockSize \in Nat
    BY Constants DEF Typed
  <2>2. /\ Write(slots, Len(s), e) \in [1 .. ModelBlockSize -> Cell]
        /\ \A i \in 1 .. ModelBlockSize : Write(slots, Len(s), e)[i] =
             IF i \in Len(s) + 1 .. Len(s) + Len(e) THEN e[i - Len(s)] ELSE slots[i]
    BY <1>1, <1>2, <2>1, WriteEffect
  <2> QED BY <1>3, <2>2, Zenon
<1>5. \A i \in 1 .. Len(u) : slots'[i] = <<u[i], i - 1>>
  <2> SUFFICES ASSUME NEW i \in 1 .. Len(u)
               PROVE  slots'[i] = <<u[i], i - 1>>
    OBVIOUS
  <2>1. i \in 1 .. ModelBlockSize
    BY <1>1, Constants
  <2>2. CASE i \in 1 .. Len(s)
    <3>1. i \notin Len(s) + 1 .. Len(s) + Len(e)
      BY <1>1, <1>2, <2>2
    <3> QED BY <1>1, <1>4, <2>1, <2>2, <3>1
  <2>3. CASE i = Len(s) + 1
    <3>1. i \in Len(s) + 1 .. Len(s) + Len(e) /\ i - Len(s) = 1 /\ i - 1 = Len(s)
      BY <1>1, <1>2, <2>3
    <3> QED BY <1>1, <1>2, <1>4, <2>1, <2>3, <3>1
  <2> QED BY <1>1, <2>2, <2>3
<1>6. pending' = Placed(u)
  BY <1>1, <1>3, <1>4, <1>5, AttendedIsPlaced, Constants
<1>7. Placed(u) \in Seq(Cell)
  BY <1>1, PlacedFromEffect DEF Placed
<1> QED
  BY <1>1, <1>3, <1>4, <1>5, <1>6, <1>7 DEF u

LEMMA LoopExitInv ==
  ASSUME Inv, LoopExit
  PROVE  Inv'
  BY DEF Inv, LoopExit, Typed, PCs

\* A draft has at least one token and leaves room for the one that follows it.
LEMMA ProposalsFit ==
  ASSUME Typed, Remaining \in Int, Remaining > 0, DraftLen # 0,
         NEW d \in Proposals(generated, DraftLen)
  PROVE  d \in Seq(Tokens) /\ 1 <= Len(d) /\ Len(d) + 1 <= Remaining
<1> DEFINE g == DraftLen
<1>1. g \in Nat /\ 1 <= g /\ g + 1 <= Remaining
  <2>1. Max({0, Remaining - 1}) = Remaining - 1
    BY MinMaxPair
  <2>2. g = Min({Gamma, Remaining - 1})
    BY <2>1 DEF DraftLen
  <2>3. Gamma \in Nat /\ Gamma \in Int /\ Remaining - 1 \in Int
    BY Constants
  <2>4. Min({Gamma, Remaining - 1}) =
          IF Gamma <= Remaining - 1 THEN Gamma ELSE Remaining - 1
    BY <2>3, MinMaxPair
  <2>5. g # 0
    OBVIOUS
  <2> HIDE DEF g
  <2> QED BY <2>2, <2>3, <2>4, <2>5
<1> HIDE DEF g
<1>2. CASE drafter = "self"
  <2>1. d \in [1 .. g -> Tokens]
    BY <1>2 DEF Proposals, g
  <2>2. d \in Seq(Tokens) /\ Len(d) = g
    BY <1>1, <2>1, SeqDef, LenProperties
  <2> QED BY <1>1, <2>2
<1>3. CASE drafter # "self"
  <2>1. Matches(generated) # {} /\ d = Lookup(generated, g)
    BY <1>3 DEF Proposals, g
  <2> DEFINE n == Len(generated)
             end == Max(Matches(generated)) + NGram
             last == Min({end + g, n})
  <2>2. n \in Nat /\ Matches(generated) \subseteq 0 .. n - NGram - 1
    BY LenProperties DEF Typed, Matches
  <2>3. Max(Matches(generated)) \in Matches(generated)
    <3>1. n - NGram - 1 \in Int
      BY <2>2, Constants
    <3> QED BY <2>1, <2>2, <3>1, MaxInterval
  <2>4. end \in Nat /\ end + 1 <= n
    BY <2>2, <2>3, Constants
  <2> HIDE DEF end, n
  <2>5. last \in Nat /\ end + 1 <= last /\ last <= n /\ last <= end + g
    <3>1. last = IF end + g <= n THEN end + g ELSE n
      BY <1>1, <2>2, <2>4, MinMaxPair
    <3> QED BY <1>1, <2>2, <2>4, <3>1
  <2> HIDE DEF last
  <2>6. \A i \in end + 1 .. last : generated[i] \in Tokens
    <3>1. \A i \in 1 .. n : generated[i] \in Tokens
      BY ElementOfSeq DEF Typed, n
    <3> QED BY <2>2, <2>4, <2>5, <3>1
  <2>7. d = SubSeq(generated, end + 1, last)
    BY <2>1 DEF Lookup, end, last, n
  <2>8. d \in Seq(Tokens) /\ Len(d) = last - (end + 1) + 1
    BY <2>4, <2>5, <2>6, <2>7, SubSeqProperties
  <2> QED BY <1>1, <2>4, <2>5, <2>8
<1> QED BY <1>2, <1>3

LEMMA FallbackInv ==
  ASSUME Assumed, Inv, pc = "round", Remaining > 0, Fallback
  PROVE  Inv'
<1>1. Typed /\ Confirmed
  BY DEF Inv
<1>2. PICK t \in Target(pending) :
        IF t = EOT
        THEN /\ generated' = Append(generated, t)
             /\ pc' = "done"
             /\ UNCHANGED <<prompt, slots, cache_len, pending, draft, contexts, accepted, drafter>>
        ELSE IF ForwardOK(cache_len, 1)
             THEN /\ generated' = Append(generated, t)
                  /\ Advance(t, cache_len)
                  /\ UNCHANGED <<prompt, draft, contexts, accepted, drafter, pc>>
             ELSE Raise
  BY DEF Fallback
<1>3. t \in Tokens
  BY <1>1 DEF Typed, Assumed, TargetGivesTokens
<1>4. /\ generated \in Seq(Tokens) /\ Len(generated) \in Nat
      /\ Append(generated, t) \in Seq(Tokens)
      /\ Len(Append(generated, t)) = Len(generated) + 1
      /\ \A i \in 1 .. Len(generated) : Append(generated, t)[i] = generated[i]
      /\ Append(generated, t)[Len(generated) + 1] = t
  BY <1>1, <1>3, AppendProperties, LenProperties DEF Typed
<1>5. CASE t = EOT
  BY <1>1, <1>2, <1>4, <1>5 DEF Inv, Typed, PCs
<1>6. CASE t # EOT
  <2>1. /\ Len(prompt) \in Nat /\ cache_len = Len(generated)
        /\ Len(prompt) <= Len(generated)
        /\ Len(generated) + 1 <= Len(prompt) + MaxNewTokens
    BY <1>1, <1>4, Constants DEF Typed, Confirmed, Remaining
  <2>2. ForwardOK(cache_len, 1) /\ Len(generated) + 1 <= ModelBlockSize
    BY <1>1, <1>4, <2>1, Fits
  <2>3. /\ generated' = Append(generated, t) /\ Advance(t, Len(generated))
        /\ UNCHANGED <<prompt, draft, contexts, accepted, drafter, pc>>
    BY <1>2, <1>6, <2>1, <2>2
  <2>4. \A i \in 1 .. Len(generated) : slots[i] = <<generated[i], i - 1>>
    BY <1>1 DEF Confirmed
  <2>5. /\ slots' \in [1 .. ModelBlockSize -> Cell]
        /\ cache_len' = Len(generated')
        /\ pending' = Placed(generated') /\ pending' \in Seq(Cell)
        /\ \A i \in 1 .. Len(generated') : slots'[i] = <<generated'[i], i - 1>>
    BY <1>1, <1>3, <1>4, <2>2, <2>3, <2>4, AdvanceEffect
  <2>6. Typed'
    BY <1>1, <1>4, <2>3, <2>5 DEF Typed
  <2>7. /\ \A i \in 1 .. Len(prompt) : generated'[i] = prompt[i]
        /\ \A i \in Len(prompt) + 1 .. Len(generated') : generated'[i] # EOT
    BY <1>1, <1>4, <1>6, <2>1, <2>3 DEF Confirmed
  <2>8. Confirmed'
    BY <1>4, <2>1, <2>3, <2>5, <2>7 DEF Confirmed
  <2> QED BY <2>3, <2>6, <2>8 DEF Inv
<1> QED BY <1>5, <1>6

\* The contexts in which a draft behind confirmed tokens is verified.
LEMMA RowsInContext ==
  ASSUME NEW g \in Seq(Tokens), NEW d \in Seq(Tokens), NEW i \in 0 .. Len(d),
         NEW sl \in [1 .. ModelBlockSize -> Cell], ModelBlockSize \in Nat,
         Len(g) + Len(d) <= ModelBlockSize,
         \A j \in 1 .. Len(g) : sl[j] = <<g[j], j - 1>>,
         \A j \in 1 .. Len(d) : sl[Len(g) + j] = <<d[j], Len(g) + j - 1>>
  PROVE  Attended(sl, Len(g) + i) = Placed(g \o SubSeq(d, 1, i))
<1> DEFINE b == SubSeq(d, 1, i)
           s == g \o b
<1>1. Len(g) \in Nat /\ Len(d) \in Nat /\ \A j \in 1 .. i : d[j] \in Tokens
  BY LenProperties, ElementOfSeq
<1>2. /\ b \in Seq(Tokens) /\ Len(b) = i
      /\ \A j \in 1 .. i : b[j] = d[j]
  <2>1. /\ b \in Seq(Tokens) /\ Len(b) = (IF 1 <= i THEN i - 1 + 1 ELSE 0)
        /\ \A j \in 1 .. i - 1 + 1 : b[j] = d[1 + j - 1]
    BY <1>1, SubSeqProperties
  <2> QED BY <1>1, <2>1
<1> HIDE DEF b
<1>3. /\ s \in Seq(Tokens) /\ Len(s) = Len(g) + i
      /\ \A j \in 1 .. Len(g) + i : s[j] = IF j <= Len(g) THEN g[j] ELSE b[j - Len(g)]
  BY <1>2, ConcatProperties
<1> HIDE DEF s
<1>4. \A j \in 1 .. Len(s) : sl[j] = <<s[j], j - 1>>
  <2> SUFFICES ASSUME NEW j \in 1 .. Len(s) PROVE sl[j] = <<s[j], j - 1>>
    OBVIOUS
  <2>1. CASE j <= Len(g)
    BY <1>1, <1>3, <2>1
  <2>2. CASE j > Len(g)
    <3>1. PICK k \in 1 .. i : j = Len(g) + k
      <4>1. j - Len(g) \in 1 .. i /\ j = Len(g) + (j - Len(g))
        BY <1>1, <1>3, <2>2
      <4> QED BY <4>1
    <3>2. k \in 1 .. Len(d) /\ j - Len(g) = k /\ ~ (j <= Len(g))
      BY <1>1, <2>2, <3>1
    <3>3. s[j] = d[k]
      BY <1>2, <1>3, <3>2
    <3> QED BY <3>1, <3>2, <3>3
  <2> QED BY <1>1, <1>3, <2>1, <2>2
<1>5. Len(s) <= ModelBlockSize
  BY <1>1, <1>3
<1>6. Attended(sl, Len(s)) = Placed(s)
  BY <1>3, <1>4, <1>5, AttendedIsPlaced
<1> QED BY <1>3, <1>6 DEF s, b

LEMMA DraftInv ==
  ASSUME Assumed, Inv, pc = "round", Remaining > 0, Draft
  PROVE  Inv'
<1>1. /\ Typed /\ Confirmed
      /\ generated \in Seq(Tokens) /\ Len(generated) \in Nat /\ cache_len = Len(generated)
      /\ Len(prompt) \in Nat /\ Len(prompt) <= Len(generated) /\ MaxNewTokens \in Nat
      /\ ModelBlockSize \in Nat
  BY LenProperties, Constants DEF Inv, Typed, Confirmed
<1>2. Remaining \in Int /\ Remaining = MaxNewTokens - (Len(generated) - Len(prompt))
  BY <1>1 DEF Remaining
<1>3. PICK d \in Proposals(generated, DraftLen) :
        IF ForwardOK(cache_len, Len(d))
        THEN /\ draft' = d
             /\ slots' = Write(slots, cache_len, PlacedFrom(cache_len, d))
             /\ contexts' = <<pending>> \o
                  [i \in 1 .. Len(d) |-> Attended(slots', RowSees(i + 1))]
             /\ accepted' = << >>
             /\ pc' = "verify"
             /\ UNCHANGED <<prompt, generated, cache_len, pending, drafter>>
        ELSE Raise
  BY DEF Draft
<1>4. d \in Seq(Tokens) /\ Len(d) \in Nat /\ 1 <= Len(d) /\ Len(d) + 1 <= Remaining
  <2>1. DraftLen # 0
    BY DEF Draft, NothingToPropose
  <2>2. d \in Seq(Tokens) /\ 1 <= Len(d) /\ Len(d) + 1 <= Remaining
    BY <1>1, <1>2, <2>1, ProposalsFit
  <2> QED BY <2>2, LenProperties
<1>5. Len(generated) + Len(d) + 1 <= Len(prompt) + MaxNewTokens
  BY <1>1, <1>2, <1>4
<1>6. ForwardOK(cache_len, Len(d)) /\ Len(generated) + Len(d) <= ModelBlockSize
  <2>1. Len(generated) + Len(d) <= Len(prompt) + MaxNewTokens
    BY <1>1, <1>4, <1>5
  <2> QED BY <1>1, <1>4, <2>1, Fits
<1> DEFINE e == PlacedFrom(Len(generated), d)
           rows == [i \in 1 .. Len(d) |-> Attended(slots', Len(generated) + i)]
<1>7. /\ draft' = d /\ accepted' = << >> /\ pc' = "verify"
      /\ slots' = Write(slots, Len(generated), e)
      /\ contexts' = <<pending>> \o rows
      /\ UNCHANGED <<prompt, generated, cache_len, pending, drafter>>
  <2>1. \A i \in 1 .. Len(d) : RowSees(i + 1) = Len(generated) + i
    BY <1>1, <1>4 DEF RowSees
  <2>2. [i \in 1 .. Len(d) |-> Attended(slots', RowSees(i + 1))] = rows
    BY <2>1, Zenon
  <2> QED BY <1>1, <1>3, <1>6, <2>2
<1>8. /\ e \in Seq(Cell) /\ Len(e) = Len(d)
      /\ \A i \in 1 .. Len(d) : e[i] = <<d[i], Len(generated) + i - 1>>
  BY <1>1, <1>4, PlacedFromEffect
<1> HIDE DEF e
<1>9. /\ slots' \in [1 .. ModelBlockSize -> Cell]
      /\ \A i \in 1 .. Len(generated) : slots'[i] = <<generated[i], i - 1>>
      /\ \A i \in 1 .. Len(d) :
           slots'[Len(generated) + i] = <<d[i], Len(generated) + i - 1>>
  <2>1. slots \in [1 .. ModelBlockSize -> Cell]
    BY <1>1 DEF Typed
  <2>2. /\ Write(slots, Len(generated), e) \in [1 .. ModelBlockSize -> Cell]
        /\ \A i \in 1 .. ModelBlockSize : Write(slots, Len(generated), e)[i] =
             IF i \in Len(generated) + 1 .. Len(generated) + Len(e)
             THEN e[i - Len(generated)] ELSE slots[i]
    BY <1>1, <1>8, <2>1, WriteEffect
  <2>3. slots' \in [1 .. ModelBlockSize -> Cell]
    BY <1>7, <2>2
  <2>4. ASSUME NEW i \in 1 .. Len(generated)
        PROVE  slots'[i] = <<generated[i], i - 1>>
    <3>1. i \in 1 .. ModelBlockSize /\ i \notin Len(generated) + 1 .. Len(generated) + Len(e)
      BY <1>1, <1>4, <1>6, <1>8
    <3>2. slots'[i] = slots[i]
      BY <1>7, <2>2, <3>1
    <3> QED BY <1>1, <3>2 DEF Confirmed
  <2>5. ASSUME NEW i \in 1 .. Len(d)
        PROVE  slots'[Len(generated) + i] = <<d[i], Len(generated) + i - 1>>
    <3> DEFINE c == Len(generated) + i
    <3>1. /\ c \in 1 .. ModelBlockSize /\ c \in Len(generated) + 1 .. Len(generated) + Len(e)
          /\ c - Len(generated) = i
      BY <1>1, <1>4, <1>6, <1>8
    <3> HIDE DEF c
    <3>2. slots'[c] = e[i]
      BY <1>7, <2>2, <3>1
    <3>3. slots'[c] = <<d[i], Len(generated) + i - 1>>
      BY <1>8, <3>2
    <3> QED BY <3>3 DEF c
  <2> QED BY <2>3, <2>4, <2>5
<1>10. \A i \in 0 .. Len(d) :
          Attended(slots', Len(generated) + i) = Placed(generated \o SubSeq(d, 1, i))
  BY <1>1, <1>4, <1>6, <1>9, RowsInContext
<1>11. \A i \in 0 .. Len(d) : Placed(generated \o SubSeq(d, 1, i)) \in Seq(Cell)
  <2> SUFFICES ASSUME NEW i \in 0 .. Len(d)
               PROVE  Placed(generated \o SubSeq(d, 1, i)) \in Seq(Cell)
    OBVIOUS
  <2>1. \A j \in 1 .. i : d[j] \in Tokens
    BY <1>4, ElementOfSeq
  <2>2. SubSeq(d, 1, i) \in Seq(Tokens)
    BY <2>1, SubSeqProperties
  <2>3. generated \o SubSeq(d, 1, i) \in Seq(Tokens)
    BY <1>1, <2>2, ConcatProperties
  <2> QED BY <2>3, PlacedFromEffect DEF Placed
<1>12. /\ rows \in Seq(Seq(Cell)) /\ Len(rows) = Len(d)
       /\ \A i \in 1 .. Len(d) : rows[i] = Placed(generated \o SubSeq(d, 1, i))
  <2>1. \A i \in 1 .. Len(d) : i \in 0 .. Len(d)
    BY <1>4
  <2>2. \A i \in 1 .. Len(d) : Attended(slots', Len(generated) + i) \in Seq(Cell)
    BY <1>10, <1>11, <2>1
  <2>3. rows \in [1 .. Len(d) -> Seq(Cell)]
    BY <2>2, Zenon
  <2>4. rows \in Seq(Seq(Cell)) /\ DOMAIN rows = 1 .. Len(d)
    BY <1>4, <2>3, SeqDef
  <2>5. Len(rows) = Len(d)
    BY <1>4, <2>4, LenProperties
  <2>6. \A i \in 1 .. Len(d) : rows[i] = Attended(slots', Len(generated) + i)
    BY Zenon
  <2> HIDE DEF rows
  <2> QED BY <1>10, <2>1, <2>4, <2>5, <2>6
<1> HIDE DEF rows
<1>13. pending \in Seq(Cell) /\ pending = Placed(generated \o SubSeq(d, 1, 0))
  <2>1. SubSeq(d, 1, 0) = << >> /\ generated \o << >> = generated
    BY <1>1, SubSeqEmpty, ConcatEmptySeq
  <2> QED BY <1>1, <2>1 DEF Typed, Confirmed
<1>14. /\ contexts' \in Seq(Seq(Cell)) /\ Len(contexts') = Len(d) + 1
       /\ \A i \in 1 .. Len(d) + 1 :
            contexts'[i] = Placed(generated \o SubSeq(d, 1, i - 1))
  <2>1. <<pending>> \in Seq(Seq(Cell)) /\ Len(<<pending>>) = 1 /\ <<pending>>[1] = pending
    BY <1>13
  <2>2. /\ contexts' \in Seq(Seq(Cell)) /\ Len(contexts') = 1 + Len(d)
        /\ \A i \in 1 .. 1 + Len(d) :
             contexts'[i] = IF i <= 1 THEN <<pending>>[i] ELSE rows[i - 1]
    BY <1>7, <1>12, <2>1, ConcatProperties
  <2>3. ASSUME NEW i \in 1 .. Len(d) + 1
        PROVE  contexts'[i] = Placed(generated \o SubSeq(d, 1, i - 1))
    <3>1. CASE i = 1
      <4>1. contexts'[1] = pending /\ i - 1 = 0
        BY <1>4, <2>1, <2>2, <3>1
      <4> QED BY <1>13, <3>1, <4>1
    <3>2. CASE i # 1
      <4>1. i \in 1 .. 1 + Len(d) /\ ~ (i <= 1) /\ i - 1 \in 1 .. Len(d)
        BY <1>4, <3>2
      <4> QED BY <1>12, <2>2, <4>1
    <3> QED BY <3>1, <3>2
  <2> QED BY <1>4, <2>2, <2>3
<1>15. Typed'
  BY <1>1, <1>4, <1>7, <1>9, <1>14, EmptySeq DEF Typed, PCs
<1>16. Confirmed'
  BY <1>1, <1>7, <1>9 DEF Confirmed
<1>17. Drafted'
  <2>1. \A i \in 1 .. Len(draft') :
          slots'[Len(generated') + i] = <<draft'[i], Len(generated') + i - 1>>
    BY <1>7, <1>9
  <2>2. \A i \in 1 .. Len(draft') + 1 :
          contexts'[i] = Placed(generated' \o SubSeq(draft', 1, i - 1))
    BY <1>7, <1>14
  <2>3. /\ 1 <= Len(draft') /\ Len(contexts') = Len(draft') + 1
        /\ Len(generated') + Len(draft') + 1 <= Len(prompt') + MaxNewTokens
    BY <1>4, <1>5, <1>7, <1>14
  <2> HIDE DEF Placed
  <2> QED BY <1>4, <1>7, <2>1, <2>2, <2>3 DEF Drafted
<1>18. /\ Len(accepted') <= Len(draft')
       /\ \A i \in 1 .. Len(accepted') : accepted'[i] = draft'[i]
  BY <1>4, <1>7
<1> QED
  BY <1>7, <1>15, <1>16, <1>17, <1>18 DEF Inv, Agrees

\* While a row is left to decide, a token that its target gives extends accepted.
LEMMA VerifyEffect ==
  ASSUME Assumed, Inv, pc = "verify", Row <= Len(draft) + 1,
         NEW t \in Target(contexts[Row])
  PROVE  /\ Len(accepted) \in Nat /\ Row = Len(accepted) + 1
         /\ accepted \in Seq(Tokens) /\ t \in Tokens
         /\ Append(accepted, t) \in Seq(Tokens)
         /\ Len(Append(accepted, t)) = Len(accepted) + 1
         /\ \A i \in 1 .. Len(accepted) : Append(accepted, t)[i] = accepted[i]
         /\ Append(accepted, t)[Len(accepted) + 1] = t
<1>1. accepted \in Seq(Tokens) /\ Len(accepted) \in Nat /\ Row = Len(accepted) + 1
  BY LenProperties DEF Inv, Typed, Row
<1>2. contexts \in Seq(Seq(Cell)) /\ Len(contexts) = Len(draft) + 1 /\ Len(draft) \in Nat
  BY LenProperties DEF Inv, Typed, Drafted
<1>3. Row \in 1 .. Len(contexts)
  BY <1>1, <1>2
<1>4. contexts[Row] \in Seq(Cell)
  BY <1>2, <1>3, ElementOfSeq
<1>5. t \in Tokens
  BY <1>4 DEF Assumed, TargetGivesTokens
<1> QED BY <1>1, <1>5, AppendProperties

LEMMA AcceptDraftInv ==
  ASSUME Assumed, Inv, AcceptDraft
  PROVE  Inv'
<1>1. /\ pc = "verify" /\ Row <= Len(draft) /\ accepted' = Append(accepted, draft[Row])
      /\ UNCHANGED <<prompt, generated, slots, cache_len, pending, draft, contexts, drafter, pc>>
      /\ draft[Row] \in Target(contexts[Row])
  BY DEF AcceptDraft
<1>2. Len(draft) \in Nat /\ Row \in Nat
  BY <1>1, LenProperties DEF Inv, Typed, Row
<1>3. Row <= Len(draft) + 1
  BY <1>1, <1>2
<1>4. /\ Len(accepted) \in Nat /\ Row = Len(accepted) + 1
      /\ accepted' \in Seq(Tokens)
      /\ Len(accepted') = Len(accepted) + 1
      /\ \A i \in 1 .. Len(accepted) : accepted'[i] = accepted[i]
      /\ accepted'[Len(accepted) + 1] = draft[Len(accepted) + 1]
  BY <1>1, <1>3, VerifyEffect
<1>5. Typed'
  BY <1>1, <1>4 DEF Inv, Typed
<1>6. Confirmed' /\ Drafted'
  BY <1>1 DEF Inv, Confirmed, Drafted
<1>7. \A i \in 1 .. Len(accepted') : accepted'[i] = draft'[i]
  BY <1>1, <1>4 DEF Inv, Agrees
<1> QED
  BY <1>1, <1>2, <1>4, <1>5, <1>6, <1>7 DEF Inv, Agrees

\* A correction and a bonus end the list of accepted tokens alike.
LEMMA LastAcceptedInv ==
  ASSUME Assumed, Inv, pc = "verify", Row <= Len(draft) + 1,
         NEW t \in Target(contexts[Row]),
         accepted' = Append(accepted, t), pc' = "commit",
         UNCHANGED <<prompt, generated, slots, cache_len, pending, draft, contexts, drafter>>
  PROVE  Inv'
<1>1. /\ Len(accepted) \in Nat /\ Row = Len(accepted) + 1
      /\ accepted' \in Seq(Tokens)
      /\ Len(accepted') = Len(accepted) + 1
      /\ \A i \in 1 .. Len(accepted) : accepted'[i] = accepted[i]
  BY VerifyEffect
<1>2. Len(draft) \in Nat
  BY LenProperties DEF Inv, Typed
<1>3. Typed'
  BY <1>1 DEF Inv, Typed, PCs
<1>4. Confirmed' /\ Drafted'
  BY DEF Inv, Confirmed, Drafted
<1>5. \A i \in 1 .. Len(accepted') - 1 : accepted'[i] = draft'[i]
  BY <1>1 DEF Inv, Agrees
<1>6. 1 <= Len(accepted') /\ Len(accepted') <= Len(draft') + 1
  BY <1>1, <1>2
<1> QED
  BY <1>3, <1>4, <1>5, <1>6 DEF Inv, Agrees

LEMMA RejectDraftInv ==
  ASSUME Assumed, Inv, RejectDraft
  PROVE  Inv'
<1>1. PICK t \in Corrections : accepted' = Append(accepted, t)
  BY DEF RejectDraft
<1>2. Len(draft) \in Nat /\ Row \in Nat
  BY LenProperties DEF Inv, Typed, Row
<1>3. Row <= Len(draft) + 1 /\ t \in Target(contexts[Row])
  BY <1>2 DEF RejectDraft, Corrections
<1> QED BY <1>1, <1>3, LastAcceptedInv DEF RejectDraft

LEMMA BonusInv ==
  ASSUME Assumed, Inv, Bonus
  PROVE  Inv'
<1>1. PICK t \in Target(contexts[Row]) : accepted' = Append(accepted, t)
  BY DEF Bonus
<1>2. Row <= Len(draft) + 1
  BY LenProperties DEF Bonus, Inv, Typed, Row
<1> QED BY <1>1, <1>2, LastAcceptedInv DEF Bonus

\* The first EOT of a sequence, and what UpToEOT makes of it.
LEMMA FirstEOT ==
  ASSUME NEW s \in Seq(Tokens), HasEOT(s)
  PROVE  \E k \in 1 .. Len(s) :
           /\ s[k] = EOT /\ \A i \in 1 .. k - 1 : s[i] # EOT
           /\ UpToEOT(s) = SubSeq(s, 1, k)
<1> DEFINE T == { i \in 1 .. Len(s) : s[i] = EOT }
           k == Min(T)
<1>1. T \in SUBSET Nat /\ T # {} /\ Len(s) \in Nat
  BY LenProperties DEF HasEOT
<1>2. k \in T /\ \A i \in T : k <= i
  BY <1>1, MinNat
<1>3. UpToEOT(s) = SubSeq(s, 1, k)
  BY DEF UpToEOT
<1> HIDE DEF k
<1>4. k \in 1 .. Len(s) /\ s[k] = EOT
  BY <1>2
<1>5. ASSUME NEW i \in 1 .. k - 1
      PROVE  s[i] # EOT
  <2>1. i \in 1 .. Len(s) /\ ~ (k <= i)
    BY <1>1, <1>4
  <2> QED BY <1>2, <2>1
<1> QED BY <1>3, <1>4, <1>5

\* All of accepted but its last token lies in the cache behind the confirmed ones.
LEMMA AcceptedInSlots ==
  ASSUME Inv, pc = "commit"
  PROVE  \E s \in Seq(Tokens) :
           /\ Append(s, accepted[Len(accepted)]) = generated \o accepted
           /\ accepted[Len(accepted)] \in Tokens
           /\ Len(s) = cache_len + AcceptedInCache
           /\ Len(s) + 1 <= Len(prompt) + MaxNewTokens
           /\ \A i \in 1 .. Len(s) : slots[i] = <<s[i], i - 1>>
<1> DEFINE m == Len(accepted) - 1
           b == SubSeq(accepted, 1, m)
           s == generated \o b
           last == accepted[Len(accepted)]
<1>1. /\ generated \in Seq(Tokens) /\ Len(generated) \in Nat
      /\ accepted \in Seq(Tokens) /\ Len(accepted) \in Nat
      /\ draft \in Seq(Tokens) /\ Len(draft) \in Nat
      /\ cache_len = Len(generated)
      /\ m \in Nat /\ m <= Len(draft) /\ Len(accepted) = m + 1
      /\ Confirmed /\ Drafted /\ Agrees(m)
      /\ Len(prompt) \in Nat /\ MaxNewTokens \in Nat
  <2>1. Typed /\ Confirmed /\ Drafted /\ Agrees(m)
        /\ 1 <= Len(accepted) /\ Len(accepted) <= Len(draft) + 1
    BY DEF Inv
  <2>2. /\ generated \in Seq(Tokens) /\ accepted \in Seq(Tokens) /\ draft \in Seq(Tokens)
        /\ prompt \in Prompts
    BY <2>1 DEF Typed
  <2>3. cache_len = Len(generated)
    BY <2>1 DEF Confirmed
  <2>4. Len(generated) \in Nat /\ Len(accepted) \in Nat /\ Len(draft) \in Nat
    BY <2>2, LenProperties
  <2> QED BY <2>1, <2>2, <2>3, <2>4, Constants
<1> HIDE DEF m
<1>2. \A i \in 1 .. Len(accepted) : accepted[i] \in Tokens
  BY <1>1, ElementOfSeq
<1>3. b \in Seq(Tokens) /\ Len(b) = m /\ \A i \in 1 .. m : b[i] = accepted[i]
  <2>1. \A i \in 1 .. m : accepted[i] \in Tokens
    BY <1>1, <1>2
  <2>2. /\ b \in Seq(Tokens) /\ Len(b) = (IF 1 <= m THEN m - 1 + 1 ELSE 0)
        /\ \A i \in 1 .. m - 1 + 1 : b[i] = accepted[1 + i - 1]
    BY <1>1, <2>1, SubSeqProperties
  <2> HIDE DEF b
  <2> QED BY <1>1, <2>2
<1>4. last \in Tokens /\ last = accepted[m + 1]
  BY <1>1, <1>2
<1> HIDE DEF b, last
<1>5. /\ s \in Seq(Tokens) /\ Len(s) = Len(generated) + m
      /\ \A i \in 1 .. Len(generated) + m :
           s[i] = IF i <= Len(generated) THEN generated[i] ELSE b[i - Len(generated)]
  BY <1>1, <1>3, ConcatProperties
<1>6. /\ generated \o accepted \in Seq(Tokens)
      /\ Len(generated \o accepted) = Len(generated) + (m + 1)
      /\ \A i \in 1 .. Len(generated) + (m + 1) : (generated \o accepted)[i] =
           IF i <= Len(generated) THEN generated[i] ELSE accepted[i - Len(generated)]
  <2>1. /\ generated \o accepted \in Seq(Tokens)
        /\ Len(generated \o accepted) = Len(generated) + Len(accepted)
        /\ \A i \in 1 .. Len(generated) + Len(accepted) : (generated \o accepted)[i] =
             IF i <= Len(generated) THEN generated[i] ELSE accepted[i - Len(generated)]
    BY <1>1, ConcatProperties
  <2>2. Len(accepted) = m + 1
    BY <1>1
  <2> QED BY <2>1, <2>2, Zenon
<1> HIDE DEF s
<1>7. Append(s, last) = generated \o accepted
  <2> DEFINE u == Append(s, last)
             v == generated \o accepted
  <2>1. /\ u \in Seq(Tokens) /\ Len(u) = Len(s) + 1
        /\ \A i \in 1 .. Len(s) : u[i] = s[i]
        /\ u[Len(s) + 1] = last
    BY <1>4, <1>5, AppendProperties
  <2>2. v \in Seq(Tokens) /\ Len(u) = Len(v)
    BY <1>1, <1>5, <1>6, <2>1
  <2> HIDE DEF u
  <2>3. ASSUME NEW i \in 1 .. Len(u)
        PROVE  u[i] = v[i]
    <3>0. /\ Len(generated) \in Nat /\ m \in Nat /\ i \in 1 .. Len(generated) + m + 1
          /\ Len(s) = Len(generated) + m
      BY <1>1, <1>5, <2>1
    <3>1. CASE i <= Len(generated)
      <4>1. /\ i \in 1 .. Len(s) /\ i \in 1 .. Len(generated) + m
            /\ i \in 1 .. Len(generated) + (m + 1)
        BY <3>0, <3>1
      <4> QED BY <1>5, <1>6, <2>1, <3>1, <4>1
    <3>2. CASE i > Len(generated)
      <4> DEFINE j == i - Len(generated)
      <4>1. j \in 1 .. m + 1 /\ i \in 1 .. Len(generated) + (m + 1)
            /\ ~ (i <= Len(generated)) /\ (j # m + 1 => j \in 1 .. m /\ i \in 1 .. Len(s))
            /\ (j = m + 1 => i = Len(s) + 1)
        BY <3>0, <3>2
      <4>2. v[i] = accepted[j]
        BY <1>6, <4>1
      <4>3. CASE j = m + 1
        BY <1>4, <2>1, <4>1, <4>2, <4>3
      <4>4. CASE j # m + 1
        <5>1. i \in 1 .. Len(generated) + m /\ u[i] = s[i]
          BY <1>5, <2>1, <4>1, <4>4
        <5>2. s[i] = b[j]
          BY <1>5, <4>1, <5>1
        <5>3. b[j] = accepted[j]
          BY <1>3, <4>1, <4>4
        <5> HIDE DEF j
        <5> QED BY <4>2, <5>1, <5>2, <5>3
      <4> QED BY <4>3, <4>4
    <3>3. i <= Len(generated) \/ i > Len(generated)
      BY <3>0
    <3> HIDE DEF v
    <3> QED BY <3>1, <3>2, <3>3, Zenon
  <2> HIDE DEF v
  <2>4. u = v
    BY <2>1, <2>2, <2>3, SeqEqual
  <2> QED BY <2>4 DEF u, v
<1>8. ASSUME NEW i \in 1 .. Len(s)
      PROVE  slots[i] = <<s[i], i - 1>>
  <2>1. CASE i <= Len(generated)
    BY <1>1, <1>5, <2>1 DEF Confirmed
  <2>2. CASE i > Len(generated)
    <3>1. PICK j \in 1 .. m : i = Len(generated) + j
      <4>1. i - Len(generated) \in 1 .. m /\ i = Len(generated) + (i - Len(generated))
        BY <1>1, <1>5, <2>2
      <4> QED BY <4>1
    <3>2. j \in 1 .. Len(draft) /\ i - Len(generated) = j /\ ~ (i <= Len(generated))
      BY <1>1, <2>2, <3>1
    <3>3. slots[i] = <<draft[j], Len(generated) + j - 1>>
      BY <1>1, <3>1, <3>2 DEF Drafted
    <3>4. s[i] = b[j] /\ b[j] = accepted[j] /\ accepted[j] = draft[j]
      BY <1>1, <1>3, <1>5, <3>2 DEF Agrees
    <3> QED BY <3>1, <3>3, <3>4
  <2> QED BY <1>1, <1>5, <2>1, <2>2
<1>9. Len(s) = cache_len + AcceptedInCache
  BY <1>1, <1>5 DEF AcceptedInCache, m
<1>10. Len(s) + 1 <= Len(prompt) + MaxNewTokens
  BY <1>1, <1>5 DEF Drafted
<1> QED BY <1>4, <1>5, <1>7, <1>8, <1>9, <1>10 DEF last

LEMMA CommitInv ==
  ASSUME Assumed, Inv, Commit
  PROVE  Inv'
<1>1. /\ pc = "commit" /\ Typed /\ Confirmed
      /\ generated \in Seq(Tokens) /\ accepted \in Seq(Tokens)
      /\ Len(generated) \in Nat /\ Len(accepted) \in Nat /\ Len(accepted) >= 1
      /\ cache_len = Len(generated) /\ Len(prompt) \in Nat /\ MaxNewTokens \in Nat
      /\ Len(prompt) <= Len(generated)
  <2>1. pc = "commit" /\ Typed /\ Confirmed /\ Len(accepted) >= 1
    BY DEF Commit, Inv
  <2>2. generated \in Seq(Tokens) /\ accepted \in Seq(Tokens) /\ prompt \in Prompts
    BY <2>1 DEF Typed
  <2>3. cache_len = Len(generated) /\ Len(prompt) <= Len(generated)
    BY <2>1 DEF Confirmed
  <2> QED BY <2>1, <2>2, <2>3, Constants, LenProperties
<1>2. CASE HasEOT(accepted)
  <2>1. /\ generated' = generated \o UpToEOT(accepted)
        /\ cache_len' = cache_len + AcceptedInCache
        /\ pc' = "done"
        /\ UNCHANGED <<prompt, slots, pending, draft, contexts, accepted, drafter>>
    BY <1>2 DEF Commit
  <2>2. cache_len' \in Nat
    BY <1>1, <2>1 DEF AcceptedInCache
  <2>3. UpToEOT(accepted) \in Seq(Tokens)
    <3>1. PICK k \in 1 .. Len(accepted) : UpToEOT(accepted) = SubSeq(accepted, 1, k)
      BY <1>1, <1>2, FirstEOT
    <3>2. \A i \in 1 .. k : accepted[i] \in Tokens
      BY <1>1, ElementOfSeq
    <3> QED BY <3>1, <3>2, SubSeqProperties
  <2>4. generated' \in Seq(Tokens)
    BY <1>1, <2>1, <2>3, ConcatProperties
  <2>5. Typed'
    BY <1>1, <2>1, <2>2, <2>4 DEF Typed, PCs
  <2> QED BY <2>1, <2>5 DEF Inv
<1>3. CASE ~ HasEOT(accepted)
  <2> DEFINE last == accepted[Len(accepted)]
  <2>1. PICK s \in Seq(Tokens) :
          /\ Append(s, last) = generated \o accepted
          /\ last \in Tokens
          /\ Len(s) = cache_len + AcceptedInCache
          /\ Len(s) + 1 <= Len(prompt) + MaxNewTokens
          /\ \A i \in 1 .. Len(s) : slots[i] = <<s[i], i - 1>>
    BY <1>1, AcceptedInSlots
  <2> HIDE DEF last
  <2>2. Len(s) \in Nat
    BY LenProperties
  <2>3. ForwardOK(Len(s), 1) /\ Len(s) + 1 <= ModelBlockSize
    BY <1>1, <2>1, <2>2, Fits
  <2>4. /\ generated' = generated \o accepted
        /\ Advance(last, Len(s))
        /\ pc' = "round"
        /\ UNCHANGED <<prompt, draft, contexts, accepted, drafter>>
    BY <1>3, <2>1, <2>3 DEF Commit, last
  <2>5. /\ slots' \in [1 .. ModelBlockSize -> Cell]
        /\ cache_len' = Len(generated')
        /\ pending' = Placed(generated') /\ pending' \in Seq(Cell)
        /\ \A i \in 1 .. Len(generated') : slots'[i] = <<generated'[i], i - 1>>
    <3>1. Advance(last, Len(s)) /\ generated' = Append(s, last)
      BY <2>1, <2>4
    <3>2. /\ slots' \in [1 .. ModelBlockSize -> Cell]
          /\ cache_len' = Len(Append(s, last))
          /\ pending' = Placed(Append(s, last)) /\ pending' \in Seq(Cell)
          /\ \A i \in 1 .. Len(Append(s, last)) :
               slots'[i] = <<Append(s, last)[i], i - 1>>
      BY <1>1, <2>1, <2>3, <3>1, AdvanceEffect
    <3> QED BY <3>1, <3>2, Zenon
  <2>6. /\ generated' \in Seq(Tokens) /\ Len(generated') = Len(generated) + Len(accepted)
        /\ \A i \in 1 .. Len(generated) + Len(accepted) : generated'[i] =
             IF i <= Len(generated) THEN generated[i] ELSE accepted[i - Len(generated)]
    BY <1>1, <2>4, ConcatProperties
  <2>7. Typed'
    BY <1>1, <2>4, <2>5, <2>6 DEF Typed, PCs
  <2>8. ASSUME NEW i \in Len(prompt) + 1 .. Len(generated')
        PROVE  generated'[i] # EOT
    <3>1. CASE i <= Len(generated)
      BY <1>1, <2>6, <3>1 DEF Confirmed
    <3>2. CASE i > Len(generated)
      <4>1. i - Len(generated) \in 1 .. Len(accepted) /\ ~ (i <= Len(generated))
        BY <1>1, <2>6, <3>2
      <4>2. i \in 1 .. Len(generated) + Len(accepted)
        BY <1>1, <2>6
      <4>3. generated'[i] = accepted[i - Len(generated)]
        BY <2>6, <4>1, <4>2
      <4> QED BY <1>3, <4>1, <4>3 DEF HasEOT
    <3> QED BY <1>1, <2>6, <3>1, <3>2
  <2>9. \A i \in 1 .. Len(prompt) : generated'[i] = prompt[i]
    BY <1>1, <2>6 DEF Confirmed
  <2>10. /\ Len(prompt) <= Len(generated')
         /\ Len(generated') <= Len(prompt) + MaxNewTokens
    <3>1. Len(generated') = Len(s) + 1
      BY <2>1, <2>4, AppendProperties
    <3> QED BY <1>1, <2>1, <2>6, <3>1
  <2>11. Confirmed'
    BY <2>4, <2>5, <2>8, <2>9, <2>10 DEF Confirmed
  <2> QED BY <2>4, <2>7, <2>11 DEF Inv
<1> QED BY <1>2, <1>3

LEMMA NextInv ==
  ASSUME Assumed, Inv, [Next]_vars
  PROVE  Inv'
<1>1. CASE Prefill
  BY <1>1, PrefillInv
<1>2. CASE LoopExit
  BY <1>2, LoopExitInv
<1>3. CASE BeginRound
  <2>1. cache_len = Len(generated) /\ pc = "round" /\ Remaining > 0
    BY <1>3 DEF BeginRound, Inv, Confirmed
  <2>2. CASE Fallback
    BY <2>1, <2>2, FallbackInv
  <2>3. CASE Draft
    BY <2>1, <2>3, DraftInv
  <2> QED BY <1>3, <2>1, <2>2, <2>3 DEF BeginRound
<1>4. CASE AcceptDraft
  BY <1>4, AcceptDraftInv
<1>5. CASE RejectDraft
  BY <1>5, RejectDraftInv
<1>6. CASE Bonus
  BY <1>6, BonusInv
<1>7. CASE Commit
  BY <1>7, CommitInv
<1>8. CASE UNCHANGED vars
  BY <1>8 DEF vars, Inv, Typed, Confirmed, Drafted, Agrees
<1> QED
  BY <1>1, <1>2, <1>3, <1>4, <1>5, <1>6, <1>7, <1>8 DEF Next

\* The invariant the theorems follow from holds in every reachable state.
THEOREM InvHolds ==
  ASSUME Assumed
  PROVE  Spec => []Inv
<1>1. Init => Inv
  BY InitInv
<1>2. Inv /\ [Next]_vars => Inv'
  BY NextInv
<1> QED BY <1>1, <1>2, PTL DEF Spec

\* Every variable keeps its type, and the call does not raise.
THEOREM TypeCorrect ==
  ASSUME Assumed
  PROVE  Spec => []TypeOK
<1>1. Inv => TypeOK
  BY DEF Inv, Typed, TypeOK, Cell, Context
<1> QED BY <1>1, InvHolds, PTL

(***************************************************************************)
(* The assertion at the head of the loop, and those of forward and write,  *)
(* never fail when prompt and limit fit the position table: neither the    *)
(* draft nor the extra step after it leaves the cache.                     *)
(***************************************************************************)
THEOREM NeverRaisesHolds ==
  ASSUME Assumed
  PROVE  Spec => []NeverRaises
<1>1. Inv => NeverRaises
  BY DEF Inv, Typed, NeverRaises
<1> QED BY <1>1, InvHolds, PTL

(***************************************************************************)
(* Every distribution the loop draws from, pending_logits or a row of      *)
(* target_p, was computed from exactly the confirmed tokens and the draft  *)
(* tokens before it, whatever rejected drafts left behind in the cache.    *)
(***************************************************************************)
THEOREM ContextsExactHolds ==
  ASSUME Assumed
  PROVE  Spec => []ContextsExact
<1>1. ASSUME Inv PROVE ContextsExact
  <2>1. CASE pc = "round"
    <3>1. Confirmed /\ Typed
      BY <1>1, <2>1 DEF Inv
    <3>2. /\ generated \in Seq(Tokens) /\ Len(generated) \in Nat
          /\ slots \in [1 .. ModelBlockSize -> Cell] /\ ModelBlockSize \in Nat
      BY <3>1, Constants, LenProperties DEF Typed
    <3>3. Len(generated) <= ModelBlockSize
      <4>1. Len(generated) + 0 <= Len(prompt) + MaxNewTokens
        BY <3>1, <3>2 DEF Confirmed
      <4> QED BY <3>1, <3>2, <4>1, Fits
    <3>4. Attended(slots, cache_len) = Placed(generated)
      BY <3>1, <3>2, <3>3, AttendedIsPlaced DEF Confirmed
    <3> QED BY <2>1, <3>1, <3>4 DEF ContextsExact, Confirmed
  <2>2. CASE pc = "verify"
    BY <1>1, <2>2 DEF Inv, Drafted, ContextsExact
  <2> QED BY <2>1, <2>2 DEF ContextsExact
<1> QED BY <1>1, InvHolds, PTL

-----------------------------------------------------------------------------
(* SpecDecode implements the steps of Decoding.                            *)

\* Concatenation of tokens is associative.
LEMMA Assoc ==
  ASSUME NEW a \in Seq(Tokens), NEW b \in Seq(Tokens), NEW d \in Seq(Tokens)
  PROVE  (a \o b) \o d = a \o (b \o d)
<1>1. PICK ab \in Seq(Tokens) : ab = a \o b
  BY ConcatProperties
<1>2. PICK bd \in Seq(Tokens) : bd = b \o d
  BY ConcatProperties
<1>3. PICK l \in Seq(Tokens) : l = ab \o d
  BY ConcatProperties
<1>4. PICK r \in Seq(Tokens) : r = a \o bd
  BY ConcatProperties
<1>5. /\ Len(a) \in Nat /\ Len(b) \in Nat /\ Len(d) \in Nat
      /\ Len(ab) = Len(a) + Len(b) /\ Len(bd) = Len(b) + Len(d)
      /\ Len(l) = Len(a) + Len(b) + Len(d) /\ Len(r) = Len(l)
  <2>1. Len(ab) = Len(a) + Len(b)
    BY <1>1, ConcatProperties
  <2>2. Len(bd) = Len(b) + Len(d)
    BY <1>2, ConcatProperties
  <2>3. Len(l) = Len(ab) + Len(d)
    BY <1>3, ConcatProperties
  <2>4. Len(r) = Len(a) + Len(bd)
    BY <1>4, ConcatProperties
  <2>5. Len(a) \in Nat /\ Len(b) \in Nat /\ Len(d) \in Nat
    BY LenProperties
  <2> QED BY <2>1, <2>2, <2>3, <2>4, <2>5
<1>6. ASSUME NEW i \in 1 .. Len(l) PROVE l[i] = r[i]
  <2>1. i \in 1 .. Len(ab) + Len(d) /\ i \in 1 .. Len(a) + Len(bd)
    BY <1>5
  <2>2. l[i] = IF i <= Len(ab) THEN ab[i] ELSE d[i - Len(ab)]
    BY <1>3, <2>1, ConcatProperties
  <2>3. r[i] = IF i <= Len(a) THEN a[i] ELSE bd[i - Len(a)]
    BY <1>4, <2>1, ConcatProperties
  <2>4. i <= Len(ab) => ab[i] = IF i <= Len(a) THEN a[i] ELSE b[i - Len(a)]
    <3>1. i <= Len(ab) => i \in 1 .. Len(a) + Len(b)
      BY <1>5
    <3> QED BY <1>1, <3>1, ConcatProperties
  <2>5. ~ (i <= Len(a)) =>
          bd[i - Len(a)] = IF i - Len(a) <= Len(b)
                           THEN b[i - Len(a)] ELSE d[i - Len(a) - Len(b)]
    <3>1. ~ (i <= Len(a)) => i - Len(a) \in 1 .. Len(b) + Len(d)
      BY <1>5
    <3> QED BY <1>2, <3>1, ConcatProperties
  <2>6. i - Len(a) - Len(b) = i - Len(ab)
    BY <1>5
  <2>7. i - Len(a) <= Len(b) <=> i <= Len(ab)
    BY <1>5
  <2>8. i <= Len(a) => i <= Len(ab)
    BY <1>5
  <2> QED BY <2>2, <2>3, <2>4, <2>5, <2>6, <2>7, <2>8
<1>7. l = r
  BY <1>5, <1>6, SeqEqual
<1> QED BY <1>1, <1>2, <1>3, <1>4, <1>7

\* Without EOT, UpToEOT keeps everything.
LEMMA NoEOT ==
  ASSUME NEW s \in Seq(Tokens), ~ HasEOT(s)
  PROVE  UpToEOT(s) = s
  BY DEF UpToEOT

\* Sequences with the same first k elements have the same prefix of length k.
LEMMA SamePrefix ==
  ASSUME NEW s \in Seq(Tokens), NEW u \in Seq(Tokens), NEW k \in 1 .. Len(s), k <= Len(u),
         \A i \in 1 .. k : u[i] = s[i]
  PROVE  SubSeq(u, 1, k) = SubSeq(s, 1, k)
<1>1. Len(s) \in Nat /\ Len(u) \in Nat /\ k \in Int /\ 1 <= k /\ k - 1 + 1 = k
      /\ \A i \in 1 .. k : i \in 1 .. Len(s) /\ i \in 1 .. Len(u) /\ 1 + i - 1 = i
  BY LenProperties
<1>2. \A i \in 1 .. k : s[i] \in Tokens /\ u[i] \in Tokens
  BY <1>1, ElementOfSeq
<1> DEFINE a == SubSeq(u, 1, k)
           b == SubSeq(s, 1, k)
<1>3. a \in Seq(Tokens) /\ Len(a) = k /\ \A i \in 1 .. k : a[i] = u[1 + i - 1]
  BY <1>1, <1>2, SubSeqProperties
<1>4. b \in Seq(Tokens) /\ Len(b) = k /\ \A i \in 1 .. k : b[i] = s[1 + i - 1]
  BY <1>1, <1>2, SubSeqProperties
<1> HIDE DEF a, b
<1>5. \A i \in 1 .. Len(a) : a[i] = b[i]
  BY <1>1, <1>3, <1>4
<1>6. a = b
  BY <1>3, <1>4, <1>5, SeqEqual
<1> QED BY <1>6 DEF a, b

\* UpToEOT cuts at the one index that holds EOT with none before it.
LEMMA CutAt ==
  ASSUME NEW s \in Seq(Tokens), NEW k \in 1 .. Len(s),
         s[k] = EOT, \A i \in 1 .. k - 1 : s[i] # EOT
  PROVE  HasEOT(s) /\ UpToEOT(s) = SubSeq(s, 1, k)
<1>1. HasEOT(s)
  BY DEF HasEOT
<1>2. PICK j \in 1 .. Len(s) :
        /\ s[j] = EOT /\ \A i \in 1 .. j - 1 : s[i] # EOT
        /\ UpToEOT(s) = SubSeq(s, 1, j)
  BY <1>1, FirstEOT
<1>3. Len(s) \in Nat /\ ~ (k \in 1 .. j - 1) /\ ~ (j \in 1 .. k - 1)
  BY <1>2, LenProperties
<1>4. j = k
  BY <1>3
<1> QED BY <1>1, <1>2, <1>4

\* What comes behind an EOT is cut.
LEMMA CutHides ==
  ASSUME NEW s \in Seq(Tokens), NEW t \in Tokens, HasEOT(s)
  PROVE  UpToEOT(Append(s, t)) = UpToEOT(s)
<1>1. PICK k \in 1 .. Len(s) :
        /\ s[k] = EOT /\ \A i \in 1 .. k - 1 : s[i] # EOT
        /\ UpToEOT(s) = SubSeq(s, 1, k)
  BY FirstEOT
<1> DEFINE u == Append(s, t)
<1>2. /\ u \in Seq(Tokens) /\ Len(u) = Len(s) + 1 /\ Len(s) \in Nat
      /\ \A i \in 1 .. Len(s) : u[i] = s[i]
  BY AppendProperties, LenProperties
<1> HIDE DEF u
<1>3. k \in 1 .. Len(u) /\ \A i \in 1 .. k : i \in 1 .. Len(s)
  BY <1>2
<1>4. u[k] = EOT /\ \A i \in 1 .. k - 1 : u[i] # EOT
  <2>1. \A i \in 1 .. k - 1 : i \in 1 .. k
    BY <1>2
  <2> QED BY <1>1, <1>2, <1>3, <2>1
<1>5. UpToEOT(u) = SubSeq(u, 1, k)
  BY <1>2, <1>3, <1>4, CutAt
<1>6. SubSeq(u, 1, k) = SubSeq(s, 1, k)
  <2>1. k <= Len(u) /\ \A i \in 1 .. k : u[i] = s[i]
    BY <1>2, <1>3
  <2> QED BY <1>2, <2>1, SamePrefix
<1> QED BY <1>1, <1>5, <1>6 DEF u

\* A token behind none that is EOT is kept.
LEMMA CutKeeps ==
  ASSUME NEW s \in Seq(Tokens), NEW t \in Tokens, ~ HasEOT(s)
  PROVE  UpToEOT(Append(s, t)) = Append(s, t)
<1> DEFINE u == Append(s, t)
<1>1. /\ u \in Seq(Tokens) /\ Len(u) = Len(s) + 1 /\ Len(s) \in Nat
      /\ \A i \in 1 .. Len(s) : u[i] = s[i]
      /\ u[Len(s) + 1] = t
  BY AppendProperties, LenProperties
<1> HIDE DEF u
<1>2. CASE t = EOT
  <2>1. Len(u) \in 1 .. Len(u) /\ u[Len(u)] = EOT
    BY <1>1, <1>2
  <2>2. \A i \in 1 .. Len(u) - 1 : u[i] # EOT
    BY <1>1 DEF HasEOT
  <2>3. UpToEOT(u) = SubSeq(u, 1, Len(u))
    BY <1>1, <2>1, <2>2, CutAt
  <2> QED BY <1>1, <2>3, SubSeqFull DEF u
<1>3. CASE t # EOT
  <2>1. ~ HasEOT(u)
    BY <1>1, <1>3 DEF HasEOT
  <2> QED BY <1>1, <2>1, NoEOT DEF u
<1> QED BY <1>2, <1>3

\* An EOT behind tokens that are not EOT is cut at where it is.
LEMMA CutBehind ==
  ASSUME NEW s \in Seq(Tokens), NEW u \in Seq(Tokens), ~ HasEOT(s), HasEOT(u)
  PROVE  UpToEOT(s \o u) = s \o UpToEOT(u)
<1> DEFINE n == Len(s)
           w == s \o u
<1>1. PICK k \in 1 .. Len(u) :
        /\ u[k] = EOT /\ \A i \in 1 .. k - 1 : u[i] # EOT
        /\ UpToEOT(u) = SubSeq(u, 1, k)
  BY FirstEOT
<1>2. /\ w \in Seq(Tokens) /\ Len(w) = n + Len(u) /\ n \in Nat /\ Len(u) \in Nat
      /\ \A i \in 1 .. n + Len(u) : w[i] = IF i <= n THEN s[i] ELSE u[i - n]
  BY ConcatProperties, LenProperties
<1>3. \A i \in 1 .. n : s[i] # EOT
  BY DEF HasEOT
<1> HIDE DEF n, w
<1>4. n + k \in 1 .. Len(w) /\ w[n + k] = EOT
  <2>1. n + k \in 1 .. n + Len(u) /\ ~ (n + k <= n) /\ n + k - n = k
    BY <1>2
  <2> QED BY <1>1, <1>2, <2>1
<1>5. \A i \in 1 .. n + k - 1 : w[i] # EOT
  <2> SUFFICES ASSUME NEW i \in 1 .. n + k - 1 PROVE w[i] # EOT
    OBVIOUS
  <2>1. i \in 1 .. n + Len(u)
    BY <1>2
  <2>2. CASE i <= n
    <3>1. i \in 1 .. n
      BY <1>2, <2>2
    <3> QED BY <1>2, <1>3, <2>1, <2>2, <3>1
  <2>3. CASE ~ (i <= n)
    <3>1. i - n \in 1 .. k - 1
      BY <1>2, <2>3
    <3> QED BY <1>1, <1>2, <2>1, <2>3, <3>1
  <2> QED BY <2>2, <2>3
<1>6. UpToEOT(w) = SubSeq(w, 1, n + k)
  <2> DEFINE c == n + k
  <2>1. c - 1 = n + k - 1
    BY <1>2
  <2>2. c \in 1 .. Len(w) /\ w[c] = EOT /\ \A i \in 1 .. c - 1 : w[i] # EOT
    BY <1>4, <1>5, <2>1, Zenon
  <2> HIDE DEF c
  <2>3. UpToEOT(w) = SubSeq(w, 1, c)
    BY <1>2, <2>2, CutAt
  <2> QED BY <2>3 DEF c
<1>7. SubSeq(w, 1, n) \o SubSeq(w, n + 1, n + k) = SubSeq(w, 1, n + k)
  <2>1. 1 \in 1 .. Len(w) + 1 /\ n \in 1 - 1 .. Len(w) /\ n + k \in n .. Len(w)
    BY <1>2
  <2> QED BY <1>2, <2>1, ConcatAdjacentSubSeq
<1>8. SubSeq(w, 1, n) = s
  <2>1. CASE n = 0
    BY <2>1, SubSeqEmpty, EmptySeq DEF n
  <2>2. CASE n # 0
    <3>1. 1 \in 1 .. n /\ n \in 1 .. n
      BY <1>2, <2>2
    <3>2. SubSeq(w, 1, n) = SubSeq(s, 1, n)
      BY <3>1, SubSeqOfConcat1 DEF n, w
    <3> QED BY <3>2, SubSeqFull DEF n
  <2> QED BY <2>1, <2>2
<1>9. SubSeq(w, n + 1, n + k) = SubSeq(u, 1, k)
  <2>1. /\ n + 1 \in n + 1 .. n + Len(u) /\ n + k \in n + 1 .. n + Len(u)
        /\ n + 1 - n = 1 /\ n + k - n = k
    BY <1>2
  <2>2. SubSeq(w, n + 1, n + k) = SubSeq(u, n + 1 - n, n + k - n)
    BY <2>1, SubSeqOfConcat2 DEF n, w
  <2> QED BY <2>1, <2>2
<1> QED BY <1>1, <1>6, <1>7, <1>8, <1>9 DEF w

\* What lies behind a prefix.
LEMMA Behind ==
  ASSUME NEW p \in Seq(Tokens), NEW x \in Seq(Tokens)
  PROVE  SubSeq(p \o x, Len(p) + 1, Len(p \o x)) = x
<1>1. Len(p) \in Nat /\ Len(x) \in Nat /\ Len(p \o x) = Len(p) + Len(x)
  BY ConcatProperties, LenProperties
<1>2. CASE Len(x) = 0
  <2>1. x = << >>
    BY <1>2, EmptySeq
  <2> DEFINE n == Len(p)
             k == Len(p \o x)
  <2>2. n \in Int /\ k \in Int /\ n + 1 \in Int /\ k < n + 1
    BY <1>1, <1>2
  <2> HIDE DEF n, k
  <2>3. SubSeq(p \o x, n + 1, k) = << >>
    BY <2>2, SubSeqEmpty
  <2> QED BY <2>1, <2>3 DEF n, k
<1>3. CASE Len(x) # 0
  <2> DEFINE n == Len(p)
             k == Len(x)
  <2>1. /\ n + 1 \in n + 1 .. n + k /\ n + k \in n + 1 .. n + k
        /\ n + 1 - n = 1 /\ n + k - n = k
    BY <1>1, <1>3
  <2>2. SubSeq(p \o x, n + 1, n + k) = SubSeq(x, n + 1 - n, n + k - n)
    BY <2>1, SubSeqOfConcat2
  <2>3. SubSeq(x, 1, Len(x)) = x
    BY SubSeqFull
  <2> QED BY <1>1, <2>1, <2>2, <2>3
<1> QED BY <1>2, <1>3

\* The tokens behind the prompt.
New(g) == SubSeq(g, Len(prompt) + 1, Len(g))

LEMMA ConfirmedNew ==
  ASSUME Typed, Confirmed
  PROVE  /\ New(generated) \in Seq(Tokens) /\ ~ HasEOT(New(generated))
         /\ prompt \o New(generated) = generated
         /\ Len(New(generated)) = Len(generated) - Len(prompt)
<1> DEFINE n == Len(generated)
           p == Len(prompt)
           new == New(generated)
<1>1. /\ generated \in Seq(Tokens) /\ prompt \in Seq(Tokens)
      /\ n \in Nat /\ p \in Nat \ {0} /\ p <= n
  BY Constants, LenProperties DEF Typed, Confirmed
<1>2. \A i \in 1 .. n : generated[i] \in Tokens
  BY <1>1, ElementOfSeq
<1>3. /\ \A i \in 1 .. p : generated[i] = prompt[i]
      /\ \A i \in p + 1 .. n : generated[i] # EOT
  BY DEF Confirmed
<1>4. new = SubSeq(generated, p + 1, n)
  BY DEF New
<1> HIDE DEF n, p, new
<1>5. /\ new \in Seq(Tokens) /\ Len(new) = n - p
      /\ \A i \in 1 .. n - p : new[i] = generated[p + i]
  <2>1. \A i \in p + 1 .. n : generated[i] \in Tokens
    BY <1>1, <1>2
  <2>2. p + 1 \in Int /\ n \in Int
    BY <1>1
  <2>3. /\ new \in Seq(Tokens) /\ Len(new) = (IF p + 1 <= n THEN n - (p + 1) + 1 ELSE 0)
        /\ \A i \in 1 .. n - (p + 1) + 1 : new[i] = generated[p + 1 + i - 1]
    BY <1>4, <2>1, <2>2, SubSeqProperties
  <2>4. n - (p + 1) + 1 = n - p /\ \A i \in 1 .. n - p : p + 1 + i - 1 = p + i
    BY <1>1
  <2> QED BY <1>1, <2>3, <2>4
<1>6. ~ HasEOT(new)
  <2> SUFFICES ASSUME NEW i \in 1 .. n - p PROVE new[i] # EOT
    BY <1>5 DEF HasEOT
  <2>1. p + i \in p + 1 .. n
    BY <1>1
  <2> QED BY <1>3, <1>5, <2>1
<1>7. SubSeq(generated, 1, p) = prompt
  <2>1. p \in 1 .. p /\ p <= n
    BY <1>1
  <2>2. SubSeq(generated, 1, p) = SubSeq(prompt, 1, p)
    BY <1>1, <1>3, <2>1, SamePrefix DEF p, n
  <2> QED BY <1>1, <2>2, SubSeqFull DEF p
<1>8. SubSeq(generated, 1, p) \o SubSeq(generated, p + 1, n) = generated
  <2>1. 1 \in 1 .. n + 1 /\ p \in 1 - 1 .. n /\ n \in p .. n
    BY <1>1
  <2>2. SubSeq(generated, 1, p) \o SubSeq(generated, p + 1, n) = SubSeq(generated, 1, n)
    BY <1>1, <2>1, ConcatAdjacentSubSeq DEF n
  <2> QED BY <1>1, <2>2, SubSeqFull DEF n
<1> QED BY <1>4, <1>5, <1>6, <1>7, <1>8 DEF n, p, new

\* A token drawn behind the output, below the limit and behind no EOT.
LEMMA EmitStep ==
  ASSUME NEW x \in Seq(Tokens), ~ HasEOT(x), Len(x) < MaxNewTokens, MaxNewTokens \in Nat,
         NEW t \in Target(Placed(prompt \o x)),
         Output = x, Output' = Append(x, t), prompt' = prompt
  PROVE  D!Emit
<1>1. Len(x) \in Nat
  BY LenProperties
<1>2. ~ D!Complete
  <2>1. ~ (Len(x) >= MaxNewTokens)
    BY <1>1
  <2>2. x # << >> => x[Len(x)] # EOT
    <3>1. x # << >> => Len(x) \in 1 .. Len(x)
      BY <1>1, EmptySeq
    <3> QED BY <3>1 DEF HasEOT
  <2> QED BY <2>1, <2>2 DEF D!Complete
<1>3. D!Placed(prompt \o x) = Placed(prompt \o x)
  BY DEF D!Placed, D!PlacedFrom, Placed, PlacedFrom
<1>4. t \in Target(D!Placed(prompt \o Output)) /\ Output' = Append(Output, t)
  BY <1>3
<1> QED BY <1>2, <1>4 DEF D!Emit

\* Outside an unfinished round the output is what lies behind the prompt.
LEMMA OutputNew == pc \notin {"verify", "commit"} => Output = New(generated)
  BY DEF Output, New

\* What a round accepted is output as it will be committed.
LEMMA VerifySim ==
  ASSUME Assumed, Inv, pc = "verify", Row <= Len(draft) + 1,
         NEW t \in Target(contexts[Row]), accepted' = Append(accepted, t),
         pc' \in {"verify", "commit"}, prompt' = prompt, generated' = generated
  PROVE  [D!Emit]_(D!decodingVars)
<1> DEFINE new == New(generated)
           x == new \o accepted
<1>1. Typed /\ Confirmed /\ Drafted /\ Agrees(Len(accepted)) /\ Len(accepted) <= Len(draft)
  BY DEF Inv
<1>2. /\ Len(accepted) \in Nat /\ Row = Len(accepted) + 1
      /\ accepted \in Seq(Tokens) /\ t \in Tokens
  BY VerifyEffect
<1>3. /\ new \in Seq(Tokens) /\ ~ HasEOT(new)
      /\ prompt \o new = generated
      /\ Len(new) = Len(generated) - Len(prompt)
  BY <1>1, ConfirmedNew
<1>4. Output = UpToEOT(x)
  BY DEF Output, New
<1>5. Output' = UpToEOT(Append(x, t))
  <2>1. new \o Append(accepted, t) = Append(x, t)
    BY <1>2, <1>3
  <2>2. Output' = UpToEOT(new \o accepted')
    BY DEF Output, New, UpToEOT, HasEOT
  <2> HIDE DEF new, x
  <2> QED BY <2>1, <2>2
<1> HIDE DEF new
<1>6. x \in Seq(Tokens) /\ Len(x) = Len(new) + Len(accepted)
  BY <1>2, <1>3, ConcatProperties
<1>7. prompt \o x = generated \o accepted
  <2>1. prompt \in Seq(Tokens)
    BY <1>1, Constants DEF Typed
  <2>2. (prompt \o new) \o accepted = prompt \o (new \o accepted)
    BY <1>2, <1>3, <2>1, Assoc
  <2>3. (prompt \o new) \o accepted = generated \o accepted
    BY <1>3, Zenon
  <2> QED BY <2>2, <2>3
<1> HIDE DEF x
<1>8. CASE HasEOT(x)
  <2>1. Output' = Output
    BY <1>2, <1>4, <1>5, <1>6, <1>8, CutHides
  <2> QED BY <2>1 DEF D!decodingVars
<1>9. CASE ~ HasEOT(x)
  <2>1. Output = x /\ Output' = Append(x, t)
    BY <1>2, <1>4, <1>5, <1>6, <1>9, NoEOT, CutKeeps
  <2>2. Len(x) < MaxNewTokens /\ MaxNewTokens \in Nat
    <3>1. /\ Len(generated) \in Nat /\ Len(prompt) \in Nat /\ Len(draft) \in Nat
          /\ MaxNewTokens \in Nat
      BY <1>1, Constants, LenProperties DEF Typed
    <3>2. Len(generated) + Len(draft) + 1 <= Len(prompt) + MaxNewTokens
      BY <1>1 DEF Drafted
    <3> QED BY <1>1, <1>2, <1>3, <1>6, <3>1, <3>2
  <2>3. contexts[Row] = Placed(prompt \o x)
    <3>1. SubSeq(draft, 1, Row - 1) = accepted
      <4>1. Row - 1 = Len(accepted)
        BY <1>2
      <4>2. draft \in Seq(Tokens) /\ \A i \in 1 .. Len(accepted) : draft[i] = accepted[i]
        BY <1>1 DEF Typed, Agrees
      <4>3. CASE Len(accepted) = 0
        <5>1. accepted = << >>
          BY <1>2, <4>3, EmptySeq
        <5>2. SubSeq(draft, 1, 0) = << >>
          BY SubSeqEmpty
        <5> QED BY <4>1, <4>3, <5>1, <5>2
      <4>4. CASE Len(accepted) # 0
        <5>1. Len(accepted) \in 1 .. Len(accepted)
          BY <1>2, <4>4
        <5>2. SubSeq(draft, 1, Len(accepted)) = SubSeq(accepted, 1, Len(accepted))
          BY <1>1, <1>2, <4>2, <5>1, SamePrefix
        <5> QED BY <1>2, <4>1, <5>2, SubSeqFull
      <4> QED BY <4>3, <4>4
    <3>2. Row \in 1 .. Len(draft) + 1
      <4>1. Len(draft) \in Nat
        BY <1>1, LenProperties DEF Typed
      <4> QED BY <1>2, <4>1
    <3>3. contexts[Row] = Placed(generated \o SubSeq(draft, 1, Row - 1))
      BY <1>1, <3>2 DEF Drafted
    <3> QED BY <1>7, <3>1, <3>3
  <2>4. t \in Target(Placed(prompt \o x))
    BY <2>3
  <2>5. D!Emit
    BY <1>6, <1>9, <2>1, <2>2, <2>4, EmitStep
  <2> QED BY <2>5
<1> QED BY <1>8, <1>9

\* Fallback's token.
LEMMA FallbackSim ==
  ASSUME Assumed, Inv, pc = "round", Remaining > 0, Fallback
  PROVE  D!Emit
<1> DEFINE new == New(generated)
<1>1. Typed /\ Confirmed /\ pending = Placed(generated)
  BY DEF Inv, Confirmed
<1>2. PICK t \in Target(pending) :
        /\ generated' = Append(generated, t)
        /\ pc' \in {"round", "done"} /\ prompt' = prompt
  <2>1. Inv'
    BY FallbackInv
  <2>2. pc' # "raised"
    BY <2>1 DEF Inv, Typed
  <2> QED BY <2>2 DEF Fallback, Raise
<1>3. t \in Tokens
  BY <1>1 DEF Typed, Assumed, TargetGivesTokens
<1>4. /\ new \in Seq(Tokens) /\ ~ HasEOT(new)
      /\ prompt \o new = generated
      /\ Len(new) = Len(generated) - Len(prompt)
  BY <1>1, ConfirmedNew
<1>5. Output = new
  BY OutputNew
<1>6. Output' = Append(new, t)
  <2>1. prompt \in Seq(Tokens) /\ generated \in Seq(Tokens)
    BY <1>1, Constants DEF Typed
  <2>2. Append(new, t) \in Seq(Tokens) /\ Append(new, t) = new \o <<t>>
    BY <1>3, <1>4, AppendProperties, AppendIsConcat
  <2>3. Append(generated, t) = generated \o <<t>> /\ <<t>> \in Seq(Tokens)
    BY <1>3, <2>1, AppendIsConcat
  <2>4. prompt \o Append(new, t) = generated'
    <3>1. (prompt \o new) \o <<t>> = prompt \o (new \o <<t>>)
      BY <1>4, <2>1, <2>3, Assoc
    <3>2. (prompt \o new) \o <<t>> = generated \o <<t>>
      BY <1>4, Zenon
    <3> HIDE DEF new
    <3> QED BY <1>2, <2>2, <2>3, <3>1, <3>2
  <2>5. SubSeq(generated', Len(prompt) + 1, Len(generated')) = Append(new, t)
    BY <2>1, <2>2, <2>4, Behind
  <2> HIDE DEF new
  <2> QED BY <1>2, <2>5 DEF Output
<1> HIDE DEF new
<1>7. Len(new) < MaxNewTokens /\ MaxNewTokens \in Nat
  <2>1. Len(generated) \in Nat /\ Len(prompt) \in Nat /\ MaxNewTokens \in Nat
    BY <1>1, Constants, LenProperties DEF Typed
  <2> QED BY <1>4, <2>1 DEF Remaining
<1> QED BY <1>1, <1>2, <1>4, <1>5, <1>6, <1>7, EmitStep

\* Committing a round outputs what verification decided, no more and no less.
LEMMA CommitSim ==
  ASSUME Assumed, Inv, Commit
  PROVE  Output' = Output /\ prompt' = prompt
<1> DEFINE new == New(generated)
<1>1. pc = "commit" /\ Typed /\ Confirmed /\ accepted \in Seq(Tokens)
  BY DEF Commit, Inv, Typed
<1>2. /\ new \in Seq(Tokens) /\ ~ HasEOT(new) /\ prompt \o new = generated
  BY <1>1, ConfirmedNew
<1>3. Output = UpToEOT(new \o accepted)
  BY <1>1 DEF Output, New
<1> HIDE DEF new
<1>4. prompt \in Seq(Tokens)
  BY <1>1, Constants DEF Typed
<1>5. pc' # "raised"
  BY CommitInv DEF Inv, Typed
<1>6. /\ generated' = generated \o UpToEOT(accepted)
      /\ pc' \in {"round", "done"} /\ prompt' = prompt
  BY <1>1, <1>5, NoEOT DEF Commit, Raise
<1>7. UpToEOT(accepted) \in Seq(Tokens)
  <2>1. CASE HasEOT(accepted)
    <3>1. PICK k \in 1 .. Len(accepted) : UpToEOT(accepted) = SubSeq(accepted, 1, k)
      BY <1>1, <2>1, FirstEOT
    <3>2. \A i \in 1 .. k : accepted[i] \in Tokens
      BY <1>1, ElementOfSeq, LenProperties
    <3> QED BY <3>1, <3>2, SubSeqProperties
  <2> QED BY <1>1, <2>1, NoEOT
<1>8. new \o UpToEOT(accepted) \in Seq(Tokens)
  BY <1>2, <1>7, ConcatProperties
<1>9. generated' = prompt \o (new \o UpToEOT(accepted))
  <2> DEFINE u == UpToEOT(accepted)
  <2>1. u \in Seq(Tokens)
    BY <1>7
  <2> HIDE DEF u
  <2>2. (prompt \o new) \o u = prompt \o (new \o u)
    BY <1>2, <1>4, <2>1, Assoc
  <2>3. (prompt \o new) \o u = generated \o u
    BY <1>2, Zenon
  <2>4. generated' = generated \o u
    BY <1>6 DEF u
  <2> QED BY <2>2, <2>3, <2>4 DEF u
<1>10. Output' = new \o UpToEOT(accepted)
  <2>1. SubSeq(generated', Len(prompt) + 1, Len(generated')) = new \o UpToEOT(accepted)
    BY <1>4, <1>8, <1>9, Behind
  <2> QED BY <1>6, <2>1 DEF Output
<1>11. UpToEOT(new \o accepted) = new \o UpToEOT(accepted)
  <2>1. CASE HasEOT(accepted)
    BY <1>1, <1>2, <2>1, CutBehind
  <2>2. CASE ~ HasEOT(accepted)
    <3> DEFINE n == Len(new)
               w == new \o accepted
    <3>1. /\ w \in Seq(Tokens) /\ Len(w) = n + Len(accepted)
          /\ n \in Nat /\ Len(accepted) \in Nat
          /\ \A i \in 1 .. n + Len(accepted) :
               w[i] = IF i <= n THEN new[i] ELSE accepted[i - n]
      BY <1>1, <1>2, ConcatProperties, LenProperties
    <3> HIDE DEF n, w
    <3>2. ASSUME NEW i \in 1 .. Len(w) PROVE w[i] # EOT
      <4>1. CASE i <= n
        <5>1. i \in 1 .. n
          BY <3>1, <4>1
        <5> QED BY <1>2, <3>1, <4>1, <5>1 DEF HasEOT, n
      <4>2. CASE ~ (i <= n)
        <5>1. i - n \in 1 .. Len(accepted)
          BY <3>1, <4>2
        <5> QED BY <2>2, <3>1, <4>2, <5>1 DEF HasEOT
      <4> QED BY <4>1, <4>2
    <3>3. UpToEOT(w) = w
      BY <3>1, <3>2, NoEOT DEF HasEOT
    <3> QED BY <1>1, <2>2, <3>3, NoEOT DEF w
  <2> QED BY <2>1, <2>2
<1> QED BY <1>3, <1>6, <1>10, <1>11

\* A round opens with nothing accepted, and its output is what it was.
LEMMA DraftSim ==
  ASSUME Assumed, Inv, pc = "round", Remaining > 0, Draft
  PROVE  Output' = Output /\ prompt' = prompt
<1> DEFINE new == New(generated)
<1>1. Typed /\ Confirmed
  BY DEF Inv
<1>2. /\ accepted' = << >> /\ pc' = "verify"
      /\ generated' = generated /\ prompt' = prompt
  <2>1. pc' # "raised"
    BY DraftInv DEF Inv, Typed
  <2> QED BY <2>1 DEF Draft, Raise
<1>3. new \in Seq(Tokens) /\ ~ HasEOT(new)
  BY <1>1, ConfirmedNew
<1>4. Output = new
  BY OutputNew
<1>5. Output' = UpToEOT(new \o << >>)
  BY <1>2 DEF Output, New, UpToEOT, HasEOT
<1> HIDE DEF new
<1>6. new \o << >> = new
  BY <1>3, ConcatEmptySeq
<1> QED BY <1>2, <1>3, <1>4, <1>5, <1>6, NoEOT

LEMMA NextSim ==
  ASSUME Assumed, Inv, [Next]_vars
  PROVE  [D!Emit]_(D!decodingVars)
<1>1. CASE Prefill
  <2>1. /\ pc \notin {"verify", "commit"} /\ pc' \notin {"verify", "commit"}
        /\ generated' = generated /\ prompt' = prompt
    BY <1>1 DEF Prefill, Raise
  <2> QED BY <2>1 DEF Output, D!decodingVars
<1>2. CASE LoopExit
  <2>1. /\ pc \notin {"verify", "commit"} /\ pc' \notin {"verify", "commit"}
        /\ generated' = generated /\ prompt' = prompt
    BY <1>2 DEF LoopExit
  <2> QED BY <2>1 DEF Output, D!decodingVars
<1>3. CASE BeginRound
  <2>1. cache_len = Len(generated) /\ pc = "round" /\ Remaining > 0
    BY <1>3 DEF BeginRound, Inv, Confirmed
  <2>2. CASE Fallback
    BY <2>1, <2>2, FallbackSim
  <2>3. CASE Draft
    BY <2>1, <2>3, DraftSim DEF D!decodingVars
  <2> QED BY <1>3, <2>1, <2>2, <2>3 DEF BeginRound
<1>4. CASE AcceptDraft
  <2>1. /\ Row <= Len(draft) /\ Len(draft) \in Nat /\ Row \in Nat
    BY <1>4, LenProperties DEF AcceptDraft, Inv, Typed, Row
  <2>2. Row <= Len(draft) + 1
    BY <2>1
  <2> QED BY <1>4, <2>2, VerifySim DEF AcceptDraft
<1>5. CASE RejectDraft
  <2>1. /\ Row <= Len(draft) /\ Len(draft) \in Nat /\ Row \in Nat
    BY <1>5, LenProperties DEF RejectDraft, Inv, Typed, Row
  <2>2. Row <= Len(draft) + 1
    BY <2>1
  <2>3. PICK t \in Target(contexts[Row]) : accepted' = Append(accepted, t)
    BY <1>5 DEF RejectDraft, Corrections
  <2> QED BY <1>5, <2>2, <2>3, VerifySim DEF RejectDraft
<1>6. CASE Bonus
  <2>1. Row <= Len(draft) + 1
    BY <1>6, LenProperties DEF Bonus, Inv, Typed, Row
  <2>2. PICK t \in Target(contexts[Row]) : accepted' = Append(accepted, t)
    BY <1>6 DEF Bonus
  <2> QED BY <1>6, <2>1, <2>2, VerifySim DEF Bonus
<1>7. CASE Commit
  BY <1>7, CommitSim DEF D!decodingVars
<1>8. CASE UNCHANGED vars
  BY <1>8 DEF vars, Output, D!decodingVars, UpToEOT, HasEOT
<1> QED
  BY <1>1, <1>2, <1>3, <1>4, <1>5, <1>6, <1>7, <1>8 DEF Next

(***************************************************************************)
(* The refinement: the tokens speculative_generate confirms are, one after *)
(* the other, tokens that the target alone gives in their context, and     *)
(* none comes behind EOT or the limit, for every model, prompt, draft      *)
(* length and drafter.  That it goes on to the end is left to TLC.         *)
(***************************************************************************)
THEOREM ImplementsDecoding ==
  ASSUME Assumed
  PROVE  Spec => D!Spec
<1>1. Init => D!Init
  <2> SUFFICES ASSUME Init PROVE D!Init
    OBVIOUS
  <2>1. Len(prompt) \in Nat /\ prompt \in Prompts
    BY Constants DEF Init
  <2>2. SubSeq(prompt, Len(prompt) + 1, Len(prompt)) = << >>
    <3>1. /\ Len(prompt) + 1 \in Int /\ Len(prompt) \in Int
          /\ Len(prompt) < Len(prompt) + 1
      BY <2>1
    <3> QED BY <3>1, SubSeqEmpty
  <2> QED BY <2>1, <2>2 DEF Init, Output, D!Init
<1>2. Inv /\ [Next]_vars => [D!Emit]_(D!decodingVars)
  BY NextSim
<1> QED BY <1>1, <1>2, InvHolds, PTL DEF Spec, D!Spec
=============================================================================
