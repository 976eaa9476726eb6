------------------------------ MODULE Decoding ------------------------------
(***************************************************************************)
(* What decoding one prompt with the target model alone does: every token  *)
(* is drawn from the model's distribution over everything before it, each  *)
(* at its own position, until the EOT token or the limit.                  *)
(*                                                                         *)
(* The model is the constant Target: the tokens it gives a probability     *)
(* above zero after a context, exactly one when it is greedy               *)
(* (temperature <= 0), fewer under a vocab_mask.  A context is what        *)
(* attention sees: tokens paired with the positions they are at.           *)
(***************************************************************************)
EXTENDS StaticCache

CONSTANTS Tokens,
          Target(_),
          Prompts,
          MaxNewTokens

VARIABLES prompt, output,
          eot   \* eot_token_id, a parameter of the call; outside Tokens for None

decodingVars == <<prompt, output, eot>>

Init == prompt \in Prompts /\ output = << >>

Complete ==
    \/ Len(output) >= MaxNewTokens
    \/ output # << >> /\ output[Len(output)] = eot

Emit ==
    /\ ~ Complete
    /\ \E t \in Target(Placed(prompt \o output)) : output' = Append(output, t)
    /\ UNCHANGED <<prompt, eot>>

Spec == Init /\ [][Emit]_decodingVars

FairSpec == Spec /\ WF_decodingVars(Emit)
=============================================================================
