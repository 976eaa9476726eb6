------------------------------- MODULE Server -------------------------------
(***************************************************************************)
(* server/api.py on top of AsyncEngine: one HTTP request of each client,   *)
(* answered whole or streamed as server-sent events, and the counters of   *)
(* server/metrics.py that the handlers keep.                               *)
(*                                                                         *)
(* The completion and the chat endpoint differ by the shape of what they   *)
(* send; one handler stands for both.  A client that leaves is noticed     *)
(* only while its answer is being streamed: the handler of a whole answer  *)
(* runs to its end whoever is still there.                                 *)
(***************************************************************************)
EXTENDS AsyncEngine

\* The counters count what a run has served.
ASSUME ServerAssumption == IsFiniteSet(Requests)

VARIABLES mode,        \* req.stream: "stream" or "whole"
          response,    \* what has become of the answer
          final,       \* the last piece handed on had a finish_reason
          tokens_generated_total, request_total

serverVars == <<mode, response, final, tokens_generated_total, request_total>>
allVars == <<vars, serverVars>>

Modes == {"stream", "whole"}

\* "open" until the answer has ended: a whole one as "200" or "500", a stream
\* with the event [DONE], broken off by an exception, or left by its client.
Responses == {"none", "open", "404", "400", "200", "500", "[DONE]", "broken", "left"}

\* The mode is the client's choice; it matters from Post on.
ServerInit ==
    /\ Init
    /\ mode \in [Requests -> Modes]
    /\ response = [r \in Requests |-> "none"]
    /\ final = [r \in Requests |-> FALSE]
    /\ tokens_generated_total = 0 /\ request_total = 0

Respond(r, what) == response' = [response EXCEPT ![r] = what]

UnknownModel(r) ==
    /\ response[r] = "none"
    /\ Respond(r, "404")
    /\ UNCHANGED <<vars, mode, final, tokens_generated_total, request_total>>

\* _submit_or_400, then the handler of the mode asked for.
Post(r) ==
    /\ response[r] = "none"
    /\ Submit(r)
    /\ Respond(r, IF client'[r] = "rejected" THEN "400" ELSE "open")
    /\ UNCHANGED <<mode, final, tokens_generated_total, request_total>>

\* A bug to catch: the first token is timed but not counted.
CountLaterTokens(r) ==
    tokens_generated_total' =
        tokens_generated_total + IF mode[r] = "whole" /\ received[r] > 0 THEN 1 ELSE 0

\* Only _consume counts; the generators of the streams do not.
CountToken(r) ==
    tokens_generated_total' = tokens_generated_total + IF mode[r] = "whole" THEN 1 ELSE 0

\* A turn of the handler's loop, or the end of it (then GetReturns sets ended).
Receive(r) ==
    /\ GetReturns(r)
    /\ IF received'[r] # received[r]
       THEN final' = [final EXCEPT ![r] = Head(queue[r]).finished] /\ CountToken(r)
       ELSE UNCHANGED <<final, tokens_generated_total>>
    /\ UNCHANGED <<mode, response, request_total>>

\* The connection of a stream is closed by the other side.
Leave(r) ==
    /\ mode[r] = "stream"
    /\ Abandon(r) \/ Disconnect(r)
    /\ Respond(r, "left")
    /\ UNCHANGED <<mode, final, tokens_generated_total, request_total>>

\* A bug to catch: the exception is logged and the answer ended as usual.
AnswerSwallowing(r) ==
    /\ response[r] = "open" /\ client[r] = "closed"
    /\ Respond(r, IF mode[r] = "stream" THEN "[DONE]" ELSE "200")
    /\ request_total' = request_total + IF mode[r] = "whole" THEN 1 ELSE 0
    /\ UNCHANGED <<vars, mode, final, tokens_generated_total>>

\* What follows the loop, once stream()'s finally has run.
Answer(r) ==
    /\ response[r] = "open" /\ client[r] = "closed"
    /\ \/ /\ ended[r] = "end" /\ mode[r] = "stream"
          /\ Respond(r, "[DONE]")
          /\ UNCHANGED request_total
       \/ /\ ended[r] = "end" /\ mode[r] = "whole"
          /\ request_total' = request_total + 1
          /\ Respond(r, "200")
       \/ /\ ended[r] = "crashed"
          /\ Respond(r, IF mode[r] = "stream" THEN "broken" ELSE "500")
          /\ UNCHANGED request_total
    /\ UNCHANGED <<vars, mode, final, tokens_generated_total>>

\* What the handlers do not take part in.
Behind ==
    \/ Thread
    \/ StepRaises
    \/ \E r \in Requests :
         StepYields(r) \/ SetEvent(r) \/ AwaitItem(r) \/ Cancel(r) \/ CancelPuts(r)
    \/ WorkerTakes
    \/ Shutdown   \* _lifespan

ServerNext ==
    \/ \E r \in Requests :
         UnknownModel(r) \/ Post(r) \/ Receive(r) \/ Leave(r) \/ Answer(r)
    \/ Behind /\ UNCHANGED serverVars

ServerSpec == ServerInit /\ [][ServerNext]_allVars

-----------------------------------------------------------------------------
(***************************************************************************)
(* An answer that looks complete is: whoever got a 200 or [DONE] has every *)
(* token of the request and, in the last piece, why it finished.  A crash, *)
(* a refusal or a disconnect is never dressed up as one.                   *)
(***************************************************************************)
AnswersAreComplete ==
    \A r \in Requests :
      /\ response[r] \in {"200", "[DONE]"} =>
           received[r] = emitted[r] /\ final[r] /\ reason[r] \in Endings
      /\ response[r] \in {"400", "404"} => phase[r] = "new"
      /\ response[r] \in {"500", "broken"} => Failed

Answered(status) == { r \in Requests : response[r] = status }

\* What the handler of a whole answer was handed; all of it, for a 200.
Handed(r) == IF response[r] = "200" THEN emitted[r] ELSE received[r]

(***************************************************************************)
(* Of whole answers, whatever is cancelled or fails half way, everything   *)
(* is counted exactly once: each 200, with every token of its request, and *)
(* of any other whole request (open, or a 500) the tokens its handler was  *)
(* handed, never one that was not generated.  The generators of streams    *)
(* count nothing; what the help texts say of all requests is stated below. *)
(***************************************************************************)
WholeAnswersAreCounted ==
    LET whole == { r \in Requests : mode[r] = "whole" }
    IN  /\ request_total = Cardinality(Answered("200"))
        /\ tokens_generated_total =
             SumFunctionOnSet([r \in Requests |-> Handed(r)], whole)
        /\ \A r \in whole : received[r] <= emitted[r]

(***************************************************************************)
(* What the help texts of the two counters say: "Total tokens generated    *)
(* across all requests", "Total requests by terminal status"; here only    *)
(* for the case that all of them have succeeded.                           *)
(***************************************************************************)
CountersCoverAllRequests ==
    (\A r \in Requests : response[r] \in {"200", "[DONE]"}) =>
      /\ tokens_generated_total = SumFunctionOnSet(emitted, Requests)
      /\ request_total = Cardinality(Requests)
=============================================================================
