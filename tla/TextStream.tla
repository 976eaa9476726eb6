----------------------------- MODULE TextStream -----------------------------
(***************************************************************************)
(* The text of one request: IncrementalDetokenizer (tokenizer.py) and what *)
(* LLMEngine makes of its deltas (_sample_and_advance, _check_finish,      *)
(* _truncate_at_stop), token after token.                                  *)
(*                                                                         *)
(* A token is the sequence of its bytes.  A byte is a character of its     *)
(* own, or the Lead or the Cont of a character of two bytes; the bytes of  *)
(* the EOT token's name, <|endoftext|>, are written as one.  A text is a   *)
(* sequence of characters.  A request has a list of stop strings, a limit  *)
(* max_tokens, and EOT as its eot_token_id or none.                        *)
(***************************************************************************)
EXTENDS Integers, SequencesExt

CONSTANTS Plain,   \* the bytes that are characters of their own
          Lead, Cont

Accented == "both bytes"       \* the character Lead and Cont make
Replacement == "U+FFFD"        \* of three bytes in UTF-8

ASSUME TextAssumption ==
    Lead # Cont /\ {Lead, Cont} \cap Plain = {} /\ Replacement \notin Plain

EndOfText == <<"<|endoftext|>">>

(***************************************************************************)
(* bytes.decode("utf-8"): with errors = "replace" every byte that is part  *)
(* of no character becomes one Replacement; "strict" stands for decoding   *)
(* what comes before the first of them, e.start.                           *)
(***************************************************************************)
Decode(bytes, errors) ==
    LET n == Len(bytes)
        from[i \in 1 .. n + 1] ==
            IF i > n THEN << >>
            ELSE IF bytes[i] \in Plain \/ <<bytes[i]>> = EndOfText
                 THEN <<bytes[i]>> \o from[i + 1]
            ELSE IF i < n /\ bytes[i] = Lead /\ bytes[i + 1] = Cont
                 THEN <<Accented>> \o from[i + 2]
            ELSE IF errors = "replace" THEN <<Replacement>> \o from[i + 1]
            ELSE << >>
    IN  from[1]

Drop(text, n) == SubSeq(text, n + 1, Len(text))

Bytes(token_ids) == FlattenSeq(token_ids)

\* Where the text has the string first, or -1.
Find(text, string) ==
    LET at == { i \in 0 .. Len(text) - Len(string) :
                  SubSeq(text, i + 1, i + Len(string)) = string }
    IN  IF at = {} THEN -1 ELSE Min(at)

Occurs(text, string) == Find(text, string) # -1

Found(req, text) == { i \in DOMAIN req.stop : Occurs(text, req.stop[i]) }

-----------------------------------------------------------------------------
\* emitted_text is the detokenizer's, streamed what RequestOutputs carried.
FreshText ==
    [output_token_ids |-> << >>, emitted_text |-> << >>, detokenized_text |-> << >>,
     streamed |-> << >>, finish_reason |-> "none"]

\* A bug to catch: every step decodes with errors="replace".
AddTokenReplacing(token_ids) == Decode(Bytes(token_ids), "replace")

\* The full_text of add_token(), of which the delta is the new part.
AddToken(token_ids) == Decode(Bytes(token_ids), "strict")

\* The full_text of finalize().
Finalize(token_ids) == Decode(Bytes(token_ids), "replace")

\* text and output_token_ids as they are before finalize().
CheckFinish(req, token, output_token_ids, text) ==
    IF req.eot /\ token = EndOfText THEN "eot"
    ELSE IF Len(output_token_ids) >= req.max_tokens THEN "length"
    ELSE IF Found(req, text) # {} THEN "stop"
    ELSE "none"

\* A bug to catch: idx is taken for a place in the delta.
KeptLengthInDelta(idx, text, delta) == idx

\* cut
KeptLength(idx, text, delta) == Max({0, idx - (Len(text) - Len(delta))})

\* The first stop string of the list that is in the text decides.
TruncateAtStop(req, text, delta) ==
    IF Found(req, text) = {} THEN delta
    ELSE LET stop == req.stop[Min(Found(req, text))]
         IN  SubSeq(delta, 1, Min({Len(delta), KeptLength(Find(text, stop), text, delta)}))

\* One row of _sample_and_advance; a finished sequence gets no more of them.
SampleAndAdvanceText(req, s, token) ==
    LET ids == Append(s.output_token_ids, token)
        full_text == AddToken(ids)
        delta == Drop(full_text, Len(s.emitted_text))
        reason == CheckFinish(req, token, ids, s.detokenized_text \o delta)
        whole == delta \o Drop(Finalize(ids), Len(full_text))
        text == s.detokenized_text \o whole
    IN  IF s.finish_reason # "none" THEN s
        ELSE IF reason = "none"
        THEN [s EXCEPT !.output_token_ids = ids, !.emitted_text = full_text,
                       !.detokenized_text = @ \o delta, !.streamed = @ \o delta]
        ELSE [output_token_ids |-> ids, emitted_text |-> Finalize(ids),
              detokenized_text |-> text,
              streamed |-> s.streamed \o TruncateAtStop(req, text, whole),
              finish_reason |-> IF Found(req, text) # {} THEN "stop" ELSE reason]

Generated(req, tokens) ==
    FoldLeft(LAMBDA s, t : SampleAndAdvanceText(req, s, t), FreshText, tokens)

-----------------------------------------------------------------------------
(***************************************************************************)
(* However characters are spread over tokens, clients get the decoded text *)
(* of the tokens and nothing twice: no Replacement before the end; all of  *)
(* it at the end, if it has no stop string, and otherwise at least what    *)
(* comes before the first of them.  The finish reason is "stop" exactly    *)
(* when the text has one, whatever else ended the request in that step and *)
(* even if only finalize() brought it out.                                 *)
(***************************************************************************)
StreamsDecodedText(req, tokens) ==
    LET s == Generated(req, tokens)
        decoded == Decode(Bytes(s.output_token_ids), "replace")
        first == Min({ Find(decoded, req.stop[i]) : i \in Found(req, decoded) })
    IN  /\ IsPrefix(s.streamed, decoded)
        /\ s.finish_reason = "none" =>
             /\ Replacement \notin Range(s.streamed)
             /\ tokens = << >> \/ Found(req, s.streamed) = {}
        /\ s.finish_reason # "none" =>
             /\ s.finish_reason = "stop" <=> Found(req, decoded) # {}
             /\ IF s.finish_reason = "stop" THEN Len(s.streamed) >= first
                ELSE s.streamed = decoded

(***************************************************************************)
(* No stop string is streamed whole, not even over several deltas, but for *)
(* one that the text has before a stop string listed earlier: the list is  *)
(* searched in its own order, so with both coming in one step the cut is   *)
(* at the later place.                                                     *)
(***************************************************************************)
StopsAreHidden(req, tokens) ==
    LET s == Generated(req, tokens)
        decoded == Decode(Bytes(s.output_token_ids), "replace")
    IN  \A i \in Found(req, s.streamed) :
          \/ req.stop[i] = << >>
          \/ \E j \in Found(req, decoded) :
               j < i /\ Find(decoded, req.stop[j]) > Find(decoded, req.stop[i])

(***************************************************************************)
(* "trailing bytes are an incomplete multi-byte sequence; only emit the    *)
(* guaranteed-valid prefix and hold the rest for the next token"           *)
(* (tokenizer.py): what is held back is at most the start of a character.  *)
(***************************************************************************)
OnlyIncompleteHeldBack(req, tokens) ==
    LET s == Generated(req, tokens)
        decoded == Decode(Bytes(s.output_token_ids), "replace")
    IN  s.finish_reason = "none" =>
          Drop(decoded, Len(s.streamed)) \in {<< >>, <<Replacement>>}
=============================================================================
