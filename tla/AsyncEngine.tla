----------------------------- MODULE AsyncEngine -----------------------------
(***************************************************************************)
(* engine/async_engine.py: one background thread calls LLMEngine.step()    *)
(* and hands its outputs to the clients' queues, while clients submit,     *)
(* drain their queue through the event loop's executor, and cancel.        *)
(*                                                                         *)
(* The engine inside is module Completion, which LLMEngine implements.     *)
(* Every `with self._lock' block is one action; a call of step() is many,  *)
(* one per output, so the lock is a guard: no other block runs meanwhile.  *)
(* What happens outside the lock (events, queue.put, queue.get) is an      *)
(* action of its own.                                                      *)
(***************************************************************************)
EXTENDS Integers, FiniteSets, SequencesExt

CONSTANTS Requests,   \* clients, one request each
          Limits,     \* their max_tokens
          Endings,    \* the reasons a request may end with
          Workers     \* threads of the event loop's default executor

ASSUME AsyncEngineAssumption ==
    /\ Limits \subseteq Int
    /\ Endings \subseteq {"eot", "length", "stop"}
    /\ Workers \in Nat \ {0}

VARIABLES phase, limit, emitted, reason,   \* self._engine, as Completion
          queues,        \* the keys of self._queues
          queue,         \* the queue.Queue object of each request
          wake,          \* _new_request_event is set
          shut,          \* how far shutdown() is: "no", "signal", "yes"
          pc,            \* where the engine thread is
          outputs,       \* step()'s result, the part not yet delivered
          pending,       \* the queues the crash handler has not failed yet
          client,        \* where each client is
          received,      \* outputs each client has been given
          ended,         \* how its stream ended: "", "end" or "crashed"
          jobs, busy     \* the executor: q.get calls queued, q.get calls running

engineVars == <<phase, limit, emitted, reason>>
threadVars == <<pc, outputs, pending>>
clientVars == <<client, received, ended, jobs, busy>>
vars == <<engineVars, queues, queue, wake, shut, threadVars, clientVars>>

Engine == INSTANCE Completion

PCs == {"look", "wait", "clear", "acquire", "step", "deliver", "put",
        "end", "pop", "failed", "dead", "exited"}
ClientStates == {"new", "signal", "handed", "open", "queued", "getting",
                 "closing", "sentinel", "closed", "abandoned", "rejected"}

Output(r, n, last) == [kind |-> "output", req |-> r, n |-> n, finished |-> last]
Mark(kind, r) == [kind |-> kind, req |-> r, n |-> 0, finished |-> FALSE]
SENTINEL(r) == Mark("sentinel", r)
Crash(r) == Mark("crash", r)
Items == [kind : {"output", "sentinel", "crash"}, req : Requests, n : Nat,
          finished : BOOLEAN]

TypeOK ==
    /\ phase \in [Requests -> {"new", "live", "done"}]
    /\ queues \subseteq Requests
    /\ queue \in [Requests -> Seq(Items)]
    /\ wake \in BOOLEAN /\ shut \in {"no", "signal", "yes"}
    /\ pc \in PCs
    /\ outputs \in Seq(Items)
    /\ pending \subseteq Requests
    /\ client \in [Requests -> ClientStates]
    /\ received \in [Requests -> Nat]
    /\ ended \in [Requests -> {"", "end", "crashed"}]
    /\ jobs \in Seq(Requests)
    /\ busy \subseteq Requests

Init ==
    /\ Engine!Init
    /\ queues = {}
    /\ queue = [r \in Requests |-> << >>]
    /\ wake = FALSE /\ shut = "no"
    /\ pc = "look" /\ outputs = << >> /\ pending = {}
    /\ client = [r \in Requests |-> "new"]
    /\ received = [r \in Requests |-> 0]
    /\ ended = [r \in Requests |-> ""]
    /\ jobs = << >> /\ busy = {}

LockFree == pc # "step"

Put(r, item) == queue' = [queue EXCEPT ![r] = Append(@, item)]
Goto(r, state) == client' = [client EXCEPT ![r] = state]

-----------------------------------------------------------------------------
(* The engine thread: _run.                                                *)

OnlyPc ==
    UNCHANGED <<engineVars, queues, queue, wake, shut, outputs, pending, clientVars>>

Live == { r \in Requests : phase[r] = "live" }

\* The loop's condition, then the block that looks for work.
LookForWork ==
    /\ pc = "look"
    /\ pc' = IF shut # "no" THEN "exited" ELSE IF Live = {} THEN "wait" ELSE "acquire"
    /\ OnlyPc

\* wait(timeout=0.1) returns when the event is set or the time is up.
WaitReturns ==
    /\ pc = "wait"
    /\ pc' = "clear"
    /\ OnlyPc

ClearEvent ==
    /\ pc = "clear"
    /\ wake' = FALSE
    /\ pc' = "look"
    /\ UNCHANGED <<engineVars, queues, queue, shut, outputs, pending, clientVars>>

StepCalled ==
    /\ pc = "acquire"
    /\ pc' = "step"
    /\ OnlyPc

\* One row of step(): at most one token per request and step.
StepYields(r) ==
    /\ pc = "step"
    /\ \A i \in 1 .. Len(outputs) : outputs[i].req # r
    /\ \/ /\ Engine!EmitMore(r)
          /\ outputs' = Append(outputs, Output(r, emitted'[r], FALSE))
       \/ /\ \E why \in Endings : Engine!EmitLast(r, why)
          /\ outputs' = Append(outputs, Output(r, emitted'[r], TRUE))
    /\ UNCHANGED <<queues, queue, wake, shut, pc, pending, clientVars>>

StepReturns ==
    /\ pc = "step"
    /\ pc' = "deliver"
    /\ OnlyPc

\* An exception: the outputs of the rows already sampled are lost with it.
StepRaises ==
    /\ pc = "step"
    /\ pc' = "failed"
    /\ outputs' = << >>
    /\ UNCHANGED <<engineVars, queues, queue, wake, shut, pending, clientVars>>

TakePending ==
    /\ pc = "failed"
    /\ pending' = queues /\ queues' = {}
    /\ pc' = "dead"
    /\ UNCHANGED <<engineVars, queue, wake, shut, outputs, clientVars>>

\* A bug to catch: the text of the exception is put, not the exception.
FailOneAsText(r) ==
    /\ pc = "dead" /\ r \in pending
    /\ Put(r, Mark("text", r))
    /\ pending' = pending \ {r}
    /\ UNCHANGED <<engineVars, queues, wake, shut, pc, outputs, clientVars>>

\* A bug to catch: the queues are collected, but nothing is put.
FailOneForgotten(r) ==
    /\ pc = "dead" /\ r \in pending
    /\ pending' = pending \ {r}
    /\ UNCHANGED <<engineVars, queues, queue, wake, shut, pc, outputs, clientVars>>

\* The last thing the thread does: it returns when all are failed.
FailOne(r) ==
    /\ pc = "dead" /\ r \in pending
    /\ Put(r, Crash(r))
    /\ pending' = pending \ {r}
    /\ UNCHANGED <<engineVars, queues, wake, shut, pc, outputs, clientVars>>

Delivered ==
    /\ pc = "deliver" /\ outputs = << >>
    /\ pc' = "look"
    /\ OnlyPc

\* A bug to catch: the lookup takes the queue out.
LookupPops ==
    /\ pc = "deliver" /\ outputs # << >>
    /\ IF Head(outputs).req \in queues
       THEN pc' = "put" /\ UNCHANGED outputs
       ELSE outputs' = Tail(outputs) /\ UNCHANGED pc
    /\ queues' = queues \ {Head(outputs).req}
    /\ UNCHANGED <<engineVars, queue, wake, shut, pending, clientVars>>

\* The lookup under the lock; an output nobody is registered for is dropped.
Lookup ==
    /\ pc = "deliver" /\ outputs # << >>
    /\ IF Head(outputs).req \in queues
       THEN pc' = "put" /\ UNCHANGED outputs
       ELSE outputs' = Tail(outputs) /\ UNCHANGED pc
    /\ UNCHANGED <<engineVars, queues, queue, wake, shut, pending, clientVars>>

\* The put, the lock released since the lookup.
PutOutput ==
    /\ pc = "put"
    /\ Put(Head(outputs).req, Head(outputs))
    /\ IF Head(outputs).finished
       THEN pc' = "end" /\ UNCHANGED outputs
       ELSE pc' = "deliver" /\ outputs' = Tail(outputs)
    /\ UNCHANGED <<engineVars, queues, wake, shut, pending, clientVars>>

\* A bug to catch: the end of a finished stream is never marked.
PutSentinelForgotten ==
    /\ pc = "end"
    /\ pc' = "pop"
    /\ OnlyPc

PutSentinel ==
    /\ pc = "end"
    /\ Put(Head(outputs).req, SENTINEL(Head(outputs).req))
    /\ pc' = "pop"
    /\ UNCHANGED <<engineVars, queues, wake, shut, outputs, pending, clientVars>>

\* A bug to catch: the queue of a finished request stays registered.
PopForgotten ==
    /\ pc = "pop"
    /\ outputs' = Tail(outputs)
    /\ pc' = "deliver"
    /\ UNCHANGED <<engineVars, queues, queue, wake, shut, pending, clientVars>>

PopFinished ==
    /\ pc = "pop"
    /\ queues' = queues \ {Head(outputs).req}
    /\ outputs' = Tail(outputs)
    /\ pc' = "deliver"
    /\ UNCHANGED <<engineVars, queue, wake, shut, pending, clientVars>>

-----------------------------------------------------------------------------
(* Clients: submit, stream, cancel; and shutdown.                          *)

\* The queue is registered first; then add_request may fail its assertions.
Submit(r) ==
    /\ client[r] = "new" /\ LockFree
    /\ queues' = queues \cup {r}
    /\ \/ /\ \E m \in Limits : Engine!Submit(r, m)
          /\ Goto(r, "signal")
       \/ Goto(r, "rejected") /\ UNCHANGED engineVars
    /\ UNCHANGED <<queue, wake, shut, threadVars, received, ended, jobs, busy>>

\* A bug to catch: the engine thread is not told.
SetEventForgotten(r) ==
    /\ client[r] = "signal"
    /\ Goto(r, "handed")
    /\ UNCHANGED <<engineVars, queues, queue, wake, shut, threadVars, received, ended, jobs, busy>>

SetEvent(r) ==
    /\ client[r] = "signal"
    /\ wake' = TRUE
    /\ Goto(r, "handed")
    /\ UNCHANGED <<engineVars, queues, queue, shut, threadVars, received, ended, jobs, busy>>

\* stream() is a generator: one that is never started runs no `finally'.
Abandon(r) ==
    /\ client[r] = "handed"
    /\ Goto(r, "abandoned")
    /\ UNCHANGED <<engineVars, queues, queue, wake, shut, threadVars, received, ended, jobs, busy>>

\* A bug to catch: stream() finds its queue by id, and it is gone already.
AwaitItemById(r) ==
    /\ client[r] \in {"handed", "open"}
    /\ IF r \in queues
       THEN Goto(r, "queued") /\ jobs' = Append(jobs, r) /\ UNCHANGED ended
       ELSE Goto(r, "closing") /\ ended' = [ended EXCEPT ![r] = "end"] /\ UNCHANGED jobs
    /\ UNCHANGED <<engineVars, queues, queue, wake, shut, threadVars, received, busy>>

AwaitItem(r) ==
    /\ client[r] \in {"handed", "open"}
    /\ Goto(r, "queued")
    /\ jobs' = Append(jobs, r)
    /\ UNCHANGED <<engineVars, queues, queue, wake, shut, threadVars, received, ended, busy>>

\* The executor runs its jobs first in, first out.
WorkerTakes ==
    /\ jobs # << >> /\ Cardinality(busy) < Workers
    /\ busy' = busy \cup {Head(jobs)}
    /\ Goto(Head(jobs), "getting")
    /\ jobs' = Tail(jobs)
    /\ UNCHANGED <<engineVars, queues, queue, wake, shut, threadVars, received, ended>>

\* q.get() returns; nobody is told when the client has left meanwhile.
GetReturns(r) ==
    /\ r \in busy /\ queue[r] # << >>
    /\ busy' = busy \ {r}
    /\ queue' = [queue EXCEPT ![r] = Tail(@)]
    /\ LET item == Head(queue[r])
       IN  \/ /\ client[r] # "getting"
              /\ UNCHANGED <<client, received, ended>>
           \/ /\ client[r] = "getting" /\ item.kind = "output"
              /\ received' = [received EXCEPT ![r] = @ + 1]
              /\ Goto(r, "open")
              /\ UNCHANGED ended
           \/ /\ client[r] = "getting" /\ item.kind # "output"
              /\ ended' = [ended EXCEPT ![r] =
                            IF item.kind = "sentinel" THEN "end" ELSE "crashed"]
              /\ Goto(r, "closing")
              /\ UNCHANGED received
    /\ UNCHANGED <<engineVars, queues, wake, shut, threadVars, jobs>>

\* The client goes away: a get not yet running is cancelled (its worker would
\* only drop it), a running one is left behind in its worker.
Disconnect(r) ==
    /\ client[r] \in {"open", "queued", "getting"}
    /\ Goto(r, "closing")
    /\ jobs' = RemoveFirst(jobs, r)
    /\ UNCHANGED <<engineVars, queues, queue, wake, shut, threadVars, received, ended, busy>>

\* A bug to catch: only the queue is dropped, the engine keeps the request.
CancelQueueOnly(r) ==
    /\ client[r] = "closing" /\ LockFree
    /\ queues' = queues \ {r}
    /\ Goto(r, IF r \in queues THEN "sentinel" ELSE "closed")
    /\ UNCHANGED <<engineVars, queue, wake, shut, threadVars, received, ended, jobs, busy>>

\* cancel(), from stream()'s finally: a no-op after a normal end.
Cancel(r) ==
    /\ client[r] = "closing" /\ LockFree
    /\ IF phase[r] = "live" THEN Engine!Cancel(r) ELSE UNCHANGED engineVars
    /\ queues' = queues \ {r}
    /\ Goto(r, IF r \in queues THEN "sentinel" ELSE "closed")
    /\ UNCHANGED <<queue, wake, shut, threadVars, received, ended, jobs, busy>>

\* A bug to catch: cancel() leaves the queue without a mark.
CancelPutsNothing(r) ==
    /\ client[r] = "sentinel"
    /\ Goto(r, "closed")
    /\ UNCHANGED <<engineVars, queues, queue, wake, shut, threadVars, received, ended, jobs, busy>>

CancelPuts(r) ==
    /\ client[r] = "sentinel"
    /\ Put(r, SENTINEL(r))
    /\ Goto(r, "closed")
    /\ UNCHANGED <<engineVars, queues, wake, shut, threadVars, received, ended, jobs, busy>>

\* shutdown(): the flag, then the event; join() only waits, for five seconds at most.
Shutdown ==
    \/ /\ shut = "no"
       /\ shut' = "signal"
       /\ UNCHANGED <<engineVars, queues, queue, wake, threadVars, clientVars>>
    \/ /\ shut = "signal"
       /\ shut' = "yes" /\ wake' = TRUE
       /\ UNCHANGED <<engineVars, queues, queue, threadVars, clientVars>>

-----------------------------------------------------------------------------
\* What the engine thread does of itself; an exception is no part of it.
Thread ==
    \/ LookForWork \/ WaitReturns \/ ClearEvent \/ StepCalled
    \/ StepReturns \/ TakePending \/ (\E r \in Requests : FailOne(r))
    \/ Delivered \/ Lookup \/ PutOutput \/ PutSentinel \/ PopFinished

\* What a client's task does once it has begun, the client staying or not.
Task(r) == SetEvent(r) \/ AwaitItem(r) \/ GetReturns(r) \/ Cancel(r) \/ CancelPuts(r)

Next ==
    \/ Thread
    \/ \E r \in Requests : StepYields(r)
    \/ StepRaises
    \/ \E r \in Requests : Submit(r) \/ Abandon(r) \/ Disconnect(r)
    \/ \E r \in Requests : Task(r)
    \/ WorkerTakes
    \/ Shutdown

Spec == Init /\ [][Next]_vars

(***************************************************************************)
(* The thread, the executor and every task keep running: the OS schedules  *)
(* threads and grants the lock, the event loop resumes tasks.  A step that *)
(* keeps being called yields a token of every live request sooner or later *)
(* (LLMEngine's EveryRequestFinishes, for requests the pool can hold).     *)
(* Nobody has to submit, leave, fail or shut down.                         *)
(***************************************************************************)
Fairness ==
    /\ WF_vars(Thread)
    /\ WF_vars(WorkerTakes)
    /\ \A r \in Requests : WF_vars(Task(r)) /\ SF_vars(StepYields(r))

FairSpec == Spec /\ Fairness

-----------------------------------------------------------------------------
(* Properties.                                                             *)

Streaming == {"signal", "handed", "open", "queued", "getting"}

Failed == pc \in {"failed", "dead"}

\* The outputs of this step that no queue holds yet.
Undelivered == IF pc \in {"end", "pop"} THEN Tail(outputs) ELSE outputs

(***************************************************************************)
(* What a client was given, what its queue holds and what the thread still *)
(* has to deliver are together every token of its request, in order, none  *)
(* twice: handing the queue itself to stream() leaves no window in which   *)
(* an output is dropped.                                                   *)
(***************************************************************************)
NothingLostInDelivery ==
    ~ Failed =>
      \A r \in Requests : client[r] \in Streaming =>
        LET left == queue[r] \o Undelivered
            mine == { i \in 1 .. Len(left) : left[i].kind = "output" /\ left[i].req = r }
        IN  /\ { left[i].n : i \in mine } = received[r] + 1 .. emitted[r]
            /\ \A i, j \in mine : i < j => left[i].n < left[j].n

(***************************************************************************)
(* A stream that ends without an error ended because the request did, and  *)
(* its client has every token; an error means that the thread crashed.     *)
(***************************************************************************)
EndsAreHonest ==
    \A r \in Requests :
      /\ ended[r] = "end" =>
           received[r] = emitted[r] /\ reason[r] \in Endings
      /\ ended[r] = "crashed" => Failed

(***************************************************************************)
(* A stream that was left is out of the engine: its blocks are free and    *)
(* its queue forgotten, however it ended and whatever the thread was doing *)
(* with it.                                                                *)
(***************************************************************************)
ClosedMeansReleased ==
    \A r \in Requests : client[r] \in {"sentinel", "closed"} =>
      phase[r] = "done" /\ r \notin queues

(***************************************************************************)
(* The event never fails to announce a request: when the thread is waiting *)
(* for it and it is not set, either there is no work or a submit() is      *)
(* about to set it.  The 0.1 s timeout is not what makes it work.          *)
(***************************************************************************)
NoLostWakeup ==
    pc = "wait" /\ ~ wake /\ Live # {} => \E r \in Requests : client[r] = "signal"

Serving == ~ Failed /\ shut = "no"

\* A stream opened after the crash, which nobody serves, holds a worker.
HeldUp == pc = "dead" /\ busy \cap queues # {}

(***************************************************************************)
(* Every stream registered before the thread had failed its last queue     *)
(* ends, wherever it is: not yet iterated, waiting for a worker or for its *)
(* first token, or with tokens left; with the request, or, if the thread   *)
(* crashes, with EngineCrashedError, one registered between the exception  *)
(* and the block that collects the queues included.  One worker is enough  *)
(* for all, unless a stream opened after the crash never gives it back.    *)
(***************************************************************************)
ServedStreamsEnd ==
    []<> ~ HeldUp =>
      \A r \in Requests :
        client[r] \in Streaming /\ r \in queues /\ pc # "dead"
          ~> client[r] \in {"closed", "abandoned"} \/ shut # "no"

(***************************************************************************)
(* A worker blocked in q.get for a client that left is freed by the mark   *)
(* cancel() puts: disconnecting never uses up the executor.                *)
(***************************************************************************)
NoWorkerLeaks ==
    \A r \in Requests : r \in busy /\ client[r] = "closing" ~> r \notin busy

(***************************************************************************)
(* The thread forgets the queue of every request it was given, also of one *)
(* whose client never started to read: "a long-lived server doesn't        *)
(* accumulate one abandoned queue per completed request".                  *)
(***************************************************************************)
QueuesAreForgotten ==
    \A r \in Requests :
      r \in queues /\ phase[r] = "live" /\ Serving ~> r \notin queues \/ shut # "no"

(***************************************************************************)
(* What the docstring of EngineCrashedError says: no open request's        *)
(* queue.get() blocks forever because the thread crashed.                  *)
(***************************************************************************)
NoStreamHangs ==
    \A r \in Requests :
      client[r] = "getting" /\ pc = "dead" ~> client[r] # "getting"
=============================================================================
