----------------------------- MODULE Completion -----------------------------
(***************************************************************************)
(* What the engine promises its clients about one request, with batching,  *)
(* the block pool, admission and preemption out of sight: a request that   *)
(* was accepted yields tokens one at a time, ends once, with one reason,   *)
(* and is silent from then on.  LLMEngine implements it.                   *)
(***************************************************************************)
EXTENDS Integers

CONSTANTS Requests, Limits

VARIABLES phase,    \* "new", "live" or "done"
          limit,    \* the request's max_tokens
          emitted,  \* tokens yielded so far
          reason    \* why it ended

completionVars == <<phase, limit, emitted, reason>>

Init ==
    /\ phase = [r \in Requests |-> "new"]
    /\ limit = [r \in Requests |-> 0]
    /\ emitted = [r \in Requests |-> 0]
    /\ reason = [r \in Requests |-> "none"]

Submit(r, m) ==
    /\ phase[r] = "new"
    /\ phase' = [phase EXCEPT ![r] = "live"]
    /\ limit' = [limit EXCEPT ![r] = m]
    /\ UNCHANGED <<emitted, reason>>

\* One more token, not the last one: the limit is not reached yet.
EmitMore(r) ==
    /\ phase[r] = "live" /\ emitted[r] + 1 < limit[r]
    /\ emitted' = [emitted EXCEPT ![r] = @ + 1]
    /\ UNCHANGED <<phase, limit, reason>>

\* The last token.  "length" is given as the reason exactly at the limit, or
\* at the first token when the limit is below one.
EmitLast(r, why) ==
    /\ phase[r] = "live" /\ why \in {"eot", "length", "stop"}
    /\ why = "length" => emitted[r] + 1 >= limit[r]
    /\ emitted[r] = 0 \/ emitted[r] < limit[r]
    /\ emitted' = [emitted EXCEPT ![r] = @ + 1]
    /\ phase' = [phase EXCEPT ![r] = "done"]
    /\ reason' = [reason EXCEPT ![r] = why]
    /\ UNCHANGED limit

Cancel(r) ==
    /\ phase[r] = "live"
    /\ phase' = [phase EXCEPT ![r] = "done"]
    /\ reason' = [reason EXCEPT ![r] = "cancelled"]
    /\ UNCHANGED <<limit, emitted>>

Next ==
    \E r \in Requests :
      \/ \E m \in Limits : Submit(r, m)
      \/ EmitMore(r)
      \/ \E why \in {"eot", "length", "stop"} : EmitLast(r, why)
      \/ Cancel(r)

Spec == Init /\ [][Next]_completionVars
=============================================================================
