---------------------------- MODULE Server_proofs ----------------------------
(***************************************************************************)
(* Theorems about the HTTP server, for every number of clients, every set  *)
(* of limits and endings and any number of executor threads.  The server   *)
(* adds no behaviour to the engine below it, so what is proved of the      *)
(* asynchronous engine holds of it too.                                    *)
(***************************************************************************)
EXTENDS Server, AsyncEngine_proofs

LEMMA InitIsInit == ServerInit => Init
BY DEF ServerInit

\* Every step of a handler is a step of its client, or none of the engine.
LEMMA StepIsStep == [ServerNext]_allVars => [Next]_vars
<1> SUFFICES ASSUME [ServerNext]_allVars PROVE Next \/ UNCHANGED vars
  OBVIOUS
<1>1. CASE UNCHANGED allVars
  BY <1>1 DEF allVars
<1>2. ASSUME NEW r \in Requests, UnknownModel(r) \/ Answer(r) PROVE UNCHANGED vars
  BY <1>2 DEF UnknownModel, Answer
<1>3. ASSUME NEW r \in Requests, Post(r) PROVE Next
  BY <1>3 DEF Post, Next
<1>4. ASSUME NEW r \in Requests, Receive(r) PROVE Next
  BY <1>4 DEF Receive, Next, Task
<1>5. ASSUME NEW r \in Requests, Leave(r) PROVE Next
  BY <1>5 DEF Leave, Next
<1>6. CASE Behind
  BY <1>6 DEF Behind, Next, Task
<1> QED BY <1>1, <1>2, <1>3, <1>4, <1>5, <1>6 DEF ServerNext

(***************************************************************************)
(* server/api.py uses the engine as its clients may: whatever the handlers *)
(* do is a behaviour of AsyncEngine.                                       *)
(***************************************************************************)
THEOREM ServerIsAsyncEngine == ServerSpec => Spec
BY InitIsInit, StepIsStep, PTL DEF ServerSpec, Spec

-----------------------------------------------------------------------------
(* The last output of a request says so.                                   *)

ServerTyped ==
    /\ mode \in [Requests -> Modes]
    /\ response \in [Requests -> Responses]
    /\ final \in [Requests -> BOOLEAN]

\* An output of r that is not marked as the last one has another behind it.
MoreToCome(r, n) == phase[r] = "live" \/ n < emitted[r]

LastTold(r) ==
    client[r] \in Streaming =>
      /\ \A i \in 1 .. Len(outputs) : outputs[i].req = r =>
           outputs[i].finished \/ phase[r] = "live"
      /\ \A i \in 1 .. Len(queue[r]) : queue[r][i].kind = "output" =>
           queue[r][i].finished \/ MoreToCome(r, queue[r][i].n)
      /\ final[r] \/ MoreToCome(r, received[r])

\* What the state of a client says of its answer.
Answering(r) ==
    /\ ended[r] = "end" => final[r]
    /\ response[r] \in {"none", "404"} => client[r] = "new"
    /\ response[r] = "400" => client[r] = "rejected"
    /\ response[r] \in {"200", "[DONE]"} => ended[r] = "end"
    /\ response[r] \in {"500", "broken"} => ended[r] = "crashed"

Told == ServerTyped /\ \A r \in Requests : LastTold(r) /\ Answering(r)

LEMMA ServerInitInv == ServerInit => Told
<1> SUFFICES ASSUME ServerInit PROVE Told
  OBVIOUS
<1>1. ServerTyped
  BY DEF ServerInit, ServerTyped, Responses
<1>2. \A r \in Requests : LastTold(r) /\ Answering(r)
  BY DEF ServerInit, Init, LastTold, Answering, Streaming
<1> QED BY <1>1, <1>2 DEF Told

USE DEF engineVars, threadVars, clientVars, serverVars

\* A step that moves r's outputs on, and changes none of them.
LEMMA ToldKept ==
  ASSUME NEW r \in Requests, LastTold(r),
         client'[r] \in Streaming => client[r] \in Streaming,
         phase'[r] = phase[r], emitted'[r] = emitted[r],
         \A i \in 1 .. Len(outputs') : outputs'[i].req = r =>
           \E j \in 1 .. Len(outputs) : outputs'[i] = outputs[j],
         \A i \in 1 .. Len(queue'[r]) : queue'[r][i].kind = "output" =>
           \/ \E j \in 1 .. Len(queue[r]) : queue'[r][i] = queue[r][j]
           \/ \E j \in 1 .. Len(outputs) : queue'[r][i] = outputs[j] /\ outputs[j].req = r,
         client'[r] \in Streaming => final'[r] \/ MoreToCome(r, received[r])'
  PROVE  LastTold(r)'
<1> SUFFICES ASSUME client'[r] \in Streaming PROVE LastTold(r)'
  BY DEF LastTold
<1>1. \A i \in 1 .. Len(outputs') : outputs'[i].req = r =>
        outputs'[i].finished \/ phase[r] = "live"
  BY DEF LastTold
<1>2. \A i \in 1 .. Len(queue'[r]) : queue'[r][i].kind = "output" =>
        queue'[r][i].finished \/ phase[r] = "live" \/ queue'[r][i].n < emitted[r]
  BY DEF LastTold, MoreToCome
<1> QED BY <1>1, <1>2 DEF LastTold, MoreToCome

\* Items that are put or taken: none is made up.
LEMMA PutItems ==
  ASSUME Typed, NEW x \in Requests, NEW item \in Items, Put(x, item), NEW r \in Requests
  PROVE  \A i \in 1 .. Len(queue'[r]) :
           (\E j \in 1 .. Len(queue[r]) : queue'[r][i] = queue[r][j]) \/ (r = x /\ queue'[r][i] = item)
<1>1. CASE r # x
  BY <1>1, PutEffect
<1>2. CASE r = x
  <2>1. /\ Len(queue'[x]) = Len(queue[x]) + 1
        /\ \A i \in 1 .. Len(queue[x]) : queue'[x][i] = queue[x][i]
        /\ queue'[x][Len(queue[x]) + 1] = item
    BY PutEffect
  <2>2. Len(queue[x]) \in Nat
    BY ItemsTyped
  <2>3. \A i \in 1 .. Len(queue'[x]) : i \in 1 .. Len(queue[x]) \/ i = Len(queue[x]) + 1
    BY <2>1, <2>2
  <2> QED BY <1>2, <2>1, <2>3
<1> QED BY <1>1, <1>2

LEMMA TailOutputs ==
  ASSUME Typed, outputs' = Tail(outputs), outputs # << >>
  PROVE  \A i \in 1 .. Len(outputs') : \E j \in 1 .. Len(outputs) : outputs'[i] = outputs[j]
BY OutputsSplit

\* A row of step(): it is told with the token whether it was the last.
LEMMA StepYieldsTells ==
  ASSUME Inv, Delivery, Told, NEW x \in Requests, StepYields(x), UNCHANGED serverVars,
         NEW r \in Requests
  PROVE  LastTold(r)'
<1> USE DEF Inv
<1>1. /\ UNCHANGED <<queue, client, received, final>> /\ ~ Failed /\ ~ InStep(x)
      /\ \A i \in 1 .. Len(outputs) : outputs[i].req # x
  BY DEF StepYields, Failed, InStep
<1>2. PICK last \in BOOLEAN :
        /\ outputs' = Append(outputs, Output(x, emitted'[x], last))
        /\ last \/ phase'[x] = "live"
        /\ emitted' = [emitted EXCEPT ![x] = @ + 1]
        /\ \A y \in Requests \ {x} : phase'[y] = phase[y]
  <2>1. phase \in [Requests -> {"new", "live", "done"}]
    BY DEF Typed, TypeOK
  <2>2. CASE Engine!EmitMore(x) /\ outputs' = Append(outputs, Output(x, emitted'[x], FALSE))
    BY <2>2 DEF Engine!EmitMore
  <2>3. CASE /\ \E why \in Endings : Engine!EmitLast(x, why)
             /\ outputs' = Append(outputs, Output(x, emitted'[x], TRUE))
    BY <2>1, <2>3 DEF Engine!EmitLast
  <2> QED BY <2>2, <2>3 DEF StepYields
<1>3. /\ emitted'[x] = emitted[x] + 1
      /\ \A y \in Requests \ {x} : emitted'[y] = emitted[y]
      /\ emitted[x] \in Nat /\ received[x] \in Nat
  BY <1>2, ItemsTyped DEF Typed
<1>4. /\ Len(outputs') = Len(outputs) + 1 /\ Len(outputs) \in Nat
      /\ \A i \in 1 .. Len(outputs) : outputs'[i] = outputs[i]
      /\ outputs'[Len(outputs) + 1] = Output(x, emitted'[x], last)
  <2>1. Output(x, emitted'[x], last) \in Items /\ outputs \in Seq(Items)
    BY <1>3, ItemsTyped, OutputIsItem
  <2> QED BY <1>2, <2>1, AppendProperties, LenProperties
<1>5. \A i \in 1 .. Len(outputs') : i \in 1 .. Len(outputs) \/ i = Len(outputs) + 1
  BY <1>4
<1>6. Output(x, emitted'[x], last).req = x /\ Output(x, emitted'[x], last).finished = last
  BY DEF Output
<1>7. LastTold(r)
  BY DEF Told
<1>8. CASE r # x
  <2>1. \A i \in 1 .. Len(outputs') : outputs'[i].req = r =>
          \E j \in 1 .. Len(outputs) : outputs'[i] = outputs[j]
    BY <1>4, <1>5, <1>6, <1>8
  <2>2. emitted'[r] = emitted[r] /\ phase'[r] = phase[r]
    BY <1>2, <1>3, <1>8
  <2>3. client'[r] \in Streaming => final'[r] \/ MoreToCome(r, received[r])'
    BY <1>1, <1>7, <2>2 DEF LastTold, MoreToCome
  <2> QED BY <1>1, <1>7, <2>1, <2>2, <2>3, ToldKept
<1>9. CASE r = x
  <2> SUFFICES ASSUME client[x] \in Streaming PROVE LastTold(x)'
    BY <1>1, <1>9 DEF LastTold
  <2>1. PICK k \in 0 .. Len(queue[x]) : Holds(x, k)
    BY DEF Delivery, Stream
  <2>2. k \in Nat /\ Len(queue[x]) \in Nat
    BY ItemsTyped
  <2>3. emitted[x] = received[x] + k
    <3>1. ~ Due(x)
      BY <1>1 DEF Due
    <3> QED BY <1>1, <1>3, <2>1, <2>2, <3>1 DEF Holds
  <2>4. \A i \in 1 .. Len(outputs') : outputs'[i].req = x =>
          outputs'[i].finished \/ phase'[x] = "live"
    BY <1>1, <1>2, <1>4, <1>5, <1>6
  <2>5. \A i \in 1 .. Len(queue[x]) : queue[x][i].kind = "output" =>
          queue[x][i].n < emitted'[x]
    <3> SUFFICES ASSUME NEW i \in 1 .. Len(queue[x]), queue[x][i].kind = "output"
                 PROVE  queue[x][i].n < emitted'[x]
      OBVIOUS
    <3>1. ~ (i \in k + 1 .. Len(queue[x]))
      BY <2>1 DEF Holds, Marks
    <3>2. i \in 1 .. k
      BY <2>2, <3>1
    <3>3. queue[x][i].n = received[x] + i
      BY <2>1, <3>2 DEF Holds
    <3> QED BY <1>3, <2>2, <2>3, <3>2, <3>3
  <2>6. received[x] < emitted'[x]
    BY <1>3, <2>2, <2>3
  <2> QED BY <1>1, <2>4, <2>5, <2>6 DEF LastTold, MoreToCome
<1> QED BY <1>8, <1>9

\* _submit_or_400: a request that was accepted is live.
LEMMA SubmitTells ==
  ASSUME Inv, Told, NEW x \in Requests, Submit(x), final' = final, NEW r \in Requests
  PROVE  LastTold(r)'
<1>1. /\ UNCHANGED <<queue, outputs, received, emitted>>
      /\ \A y \in Requests \ {x} : phase'[y] = phase[y] /\ client'[y] = client[y]
      /\ phase'[x] = "live" \/ client'[x] = "rejected"
  BY DEF Submit, Engine!Submit, Goto, Inv, Typed, TypeOK
<1>2. LastTold(r)
  BY DEF Told
<1>3. CASE r # x
  <2>1. client'[r] \in Streaming => final'[r] \/ MoreToCome(r, received[r])'
    BY <1>1, <1>2, <1>3 DEF LastTold, MoreToCome
  <2> QED BY <1>1, <1>2, <1>3, <2>1, ToldKept
<1>4. CASE r = x
  BY <1>1, <1>4 DEF LastTold, MoreToCome, Streaming
<1> QED BY <1>3, <1>4

\* queue.get takes the head.
LEMMA GetTakes ==
  ASSUME Typed, NEW x \in Requests, GetReturns(x)
  PROVE  /\ \A i \in 1 .. Len(queue'[x]) : \E j \in 1 .. Len(queue[x]) : queue'[x][i] = queue[x][j]
         /\ Head(queue[x]) = queue[x][1] /\ 1 \in 1 .. Len(queue[x])
<1>0. queue[x] # << >> /\ queue' = [queue EXCEPT ![x] = Tail(@)]
  BY DEF GetReturns
<1>1. queue[x] \in Seq(Items) /\ queue'[x] = Tail(queue[x])
  BY <1>0 DEF Typed, TypeOK
<1>2. /\ Len(Tail(queue[x])) = Len(queue[x]) - 1
      /\ \A i \in 1 .. Len(Tail(queue[x])) : Tail(queue[x])[i] = queue[x][i + 1]
  BY <1>0, <1>1, HeadTailProperties
<1>3. Len(queue[x]) \in Nat /\ Len(queue[x]) # 0
  BY <1>0, <1>1, LenProperties, EmptySeq
<1>4. \A i \in 1 .. Len(Tail(queue[x])) : i + 1 \in 1 .. Len(queue[x])
  BY <1>2, <1>3
<1>5. Head(queue[x]) = queue[x][1]
  BY <1>1
<1> QED BY <1>1, <1>2, <1>3, <1>4, <1>5

\* The handler keeps the finish_reason of what it was handed.
LEMMA ReceiveTells ==
  ASSUME Inv, Delivery, Told, NEW x \in Requests, Receive(x), NEW r \in Requests
  PROVE  LastTold(r)'
<1> USE DEF Inv
<1>1. /\ UNCHANGED <<phase, emitted, outputs>> /\ queue[x] # << >>
      /\ queue' = [queue EXCEPT ![x] = Tail(@)]
  BY DEF Receive, GetReturns
<1>2. /\ \A i \in 1 .. Len(queue'[x]) : \E j \in 1 .. Len(queue[x]) : queue'[x][i] = queue[x][j]
      /\ Head(queue[x]) = queue[x][1] /\ 1 \in 1 .. Len(queue[x])
  BY GetTakes DEF Receive
<1>3. \A y \in Requests \ {x} :
        /\ client'[y] = client[y] /\ received'[y] = received[y]
        /\ queue'[y] = queue[y] /\ final'[y] = final[y]
  <2>1. /\ client \in [Requests -> ClientStates] /\ received \in [Requests -> Nat]
        /\ queue \in [Requests -> Seq(Items)]
    BY DEF Typed, TypeOK
  <2>2. final' = final \/ final' = [final EXCEPT ![x] = Head(queue[x]).finished]
    BY DEF Receive
  <2>3. \A y \in Requests \ {x} : final'[y] = final[y]
    BY <2>2 DEF Told, ServerTyped
  <2>4. \A y \in Requests \ {x} : client'[y] = client[y] /\ received'[y] = received[y]
    BY <2>1 DEF Receive, GetReturns, Goto
  <2> QED BY <1>1, <2>1, <2>3, <2>4
<1>4. LastTold(r)
  BY DEF Told
<1>5. CASE r # x
  <2>1. client'[r] \in Streaming => final'[r] \/ MoreToCome(r, received[r])'
    BY <1>1, <1>3, <1>4, <1>5 DEF LastTold, MoreToCome
  <2> QED BY <1>1, <1>3, <1>4, <1>5, <2>1, ToldKept
<1>6. CASE r = x
  <2>1. CASE client'[x] \notin Streaming
    BY <1>6, <2>1 DEF LastTold
  <2>2. CASE client[x] # "getting"
    <3>1. UNCHANGED client
      BY <2>2 DEF Receive, GetReturns
    <3>2. client[x] \in Gone \cup {"getting"}
      BY DEF Delivery, BusyGetting, Receive, GetReturns
    <3> QED BY <1>6, <2>2, <3>1, <3>2 DEF LastTold, Streaming, Gone
  <2>3. CASE client[x] = "getting" /\ client'[x] \in Streaming
    <3>1. /\ Head(queue[x]).kind = "output"
          /\ received' = [received EXCEPT ![x] = @ + 1]
      BY <2>3 DEF Receive, GetReturns, Goto, Streaming, Typed, TypeOK
    <3>2. received'[x] = received[x] + 1 /\ received[x] \in Nat
      BY <3>1 DEF Typed, TypeOK
    <3>3. received'[x] # received[x]
      BY <3>2
    <3>4. final'[x] = Head(queue[x]).finished
      <4>1. final' = [final EXCEPT ![x] = Head(queue[x]).finished]
        BY <3>3 DEF Receive
      <4> QED BY <4>1 DEF Told, ServerTyped
    <3>5. Head(queue[x]).n = received'[x]
      <4>1. PICK k \in 0 .. Len(queue[x]) : Holds(x, k)
        BY <2>3 DEF Delivery, Stream, Streaming
      <4>2. Len(queue[x]) \in Nat /\ k \in Nat
        BY ItemsTyped
      <4>3. ~ (1 \in k + 1 .. Len(queue[x]))
        BY <1>2, <3>1, <4>1 DEF Holds, Marks
      <4>4. 1 \in 1 .. k
        BY <1>2, <4>2, <4>3
      <4> QED BY <1>2, <3>2, <4>1, <4>4 DEF Holds
    <3>6. final'[x] \/ MoreToCome(x, received[x])'
      <4>1. Head(queue[x]).finished \/ MoreToCome(x, Head(queue[x]).n)
        BY <1>2, <1>4, <1>6, <2>3, <3>1 DEF LastTold, Streaming
      <4> QED BY <1>1, <3>4, <3>5, <4>1 DEF MoreToCome
    <3>7. client[x] \in Streaming
      BY <2>3 DEF Streaming
    <3> QED BY <1>1, <1>2, <1>4, <1>6, <3>6, <3>7, ToldKept
  <2> QED BY <2>1, <2>2, <2>3
<1> QED BY <1>5, <1>6

\* The thread puts outputs as step() returned them, and marks.
LEMMA ThreadPuts ==
  ASSUME Typed, Thread \/ StepRaises, NEW r \in Requests
  PROVE  \A i \in 1 .. Len(queue'[r]) : queue'[r][i].kind = "output" =>
           \/ \E j \in 1 .. Len(queue[r]) : queue'[r][i] = queue[r][j]
           \/ \E j \in 1 .. Len(outputs) : queue'[r][i] = outputs[j] /\ outputs[j].req = r
<1>1. CASE UNCHANGED queue
  BY <1>1, Zenon
<1>2. CASE \E x \in Requests : FailOne(x)
  <2> PICK x \in Requests : FailOne(x)
    BY <1>2
  <2>1. Crash(x) \in Items /\ Crash(x).kind # "output"
    BY MarkIsItem DEF Crash, Mark
  <2> QED BY <2>1, PutItems DEF FailOne
<1>3. CASE PutOutput
  <2>1. outputs # << >>
    BY <1>3 DEF PutOutput, Typed, HoldsOutput
  <2>2. /\ 1 \in 1 .. Len(outputs) /\ Head(outputs) = outputs[1]
        /\ Head(outputs) \in Items /\ Head(outputs).req \in Requests
    BY <2>1, OutputsSplit, HeadOutput
  <2> QED BY <1>3, <2>2, PutItems DEF PutOutput
<1>4. CASE PutSentinel
  <2>1. outputs # << >>
    BY <1>4 DEF PutSentinel, Typed, HoldsOutput
  <2>2. Head(outputs).req \in Requests
    BY <2>1, HeadOutput
  <2>3. /\ SENTINEL(Head(outputs).req) \in Items
        /\ SENTINEL(Head(outputs).req).kind # "output"
    BY <2>2, MarkIsItem DEF SENTINEL, Mark
  <2> QED BY <1>4, <2>2, <2>3, PutItems DEF PutSentinel
<1>5. UNCHANGED queue \/ PutOutput \/ PutSentinel \/ \E x \in Requests : FailOne(x)
  BY DEF Thread, LookForWork, WaitReturns, ClearEvent, StepCalled, StepReturns,
         StepRaises, TakePending, Delivered, Lookup, PopFinished, OnlyPc
<1> QED BY <1>1, <1>2, <1>3, <1>4, <1>5

\* What is put and taken on the way: the outputs stay what they are.
LEMMA ThreadTells ==
  ASSUME Inv, Delivery, Told, Thread \/ StepRaises, final' = final, NEW r \in Requests
  PROVE  LastTold(r)'
<1> USE DEF Inv
<1>1. UNCHANGED <<phase, emitted, client, received>>
  BY DEF Thread, LookForWork, WaitReturns, ClearEvent, StepCalled, StepReturns,
         StepRaises, TakePending, FailOne, Delivered, Lookup, PutOutput,
         PutSentinel, PopFinished, OnlyPc
<1>2. \A i \in 1 .. Len(outputs') : \E j \in 1 .. Len(outputs) : outputs'[i] = outputs[j]
  <2>1. \/ outputs' = outputs \/ outputs' = << >>
        \/ outputs # << >> /\ outputs' = Tail(outputs)
    BY DEF Thread, LookForWork, WaitReturns, ClearEvent, StepCalled, StepReturns,
           StepRaises, TakePending, FailOne, Delivered, Lookup, PutOutput,
           PutSentinel, PopFinished, OnlyPc, Typed, HoldsOutput
  <2>2. CASE outputs' = outputs
    BY <2>2, Zenon
  <2>3. CASE outputs' = << >>
    BY <2>3
  <2>4. CASE outputs # << >> /\ outputs' = Tail(outputs)
    BY <2>4, TailOutputs
  <2> QED BY <2>1, <2>2, <2>3, <2>4
<1>3. \A i \in 1 .. Len(queue'[r]) : queue'[r][i].kind = "output" =>
        \/ \E j \in 1 .. Len(queue[r]) : queue'[r][i] = queue[r][j]
        \/ \E j \in 1 .. Len(outputs) : queue'[r][i] = outputs[j] /\ outputs[j].req = r
  BY ThreadPuts
<1>4. LastTold(r)
  BY DEF Told
<1>5. client'[r] \in Streaming => final'[r] \/ MoreToCome(r, received[r])'
  BY <1>1, <1>4 DEF LastTold, MoreToCome
<1> QED BY <1>1, <1>2, <1>3, <1>4, <1>5, ToldKept

\* A client puts at most a mark.
LEMMA ClientPuts ==
  ASSUME Typed, NEW x \in Requests,
         \/ SetEvent(x) \/ Abandon(x) \/ AwaitItem(x) \/ WorkerTakes
         \/ Disconnect(x) \/ Cancel(x) \/ CancelPuts(x),
         NEW r \in Requests
  PROVE  \A i \in 1 .. Len(queue'[r]) : queue'[r][i].kind = "output" =>
           \E j \in 1 .. Len(queue[r]) : queue'[r][i] = queue[r][j]
<1>1. CASE UNCHANGED queue
  BY <1>1, Zenon
<1>2. CASE CancelPuts(x)
  <2>1. SENTINEL(x) \in Items /\ SENTINEL(x).kind # "output"
    BY MarkIsItem DEF SENTINEL, Mark
  <2> QED BY <1>2, <2>1, PutItems DEF CancelPuts
<1>3. UNCHANGED queue \/ CancelPuts(x)
  BY DEF SetEvent, Abandon, AwaitItem, WorkerTakes, Disconnect, Cancel
<1> QED BY <1>1, <1>2, <1>3

\* What a client does that takes nothing from its queue.
LEMMA ClientTells ==
  ASSUME Inv, Delivery, Told, NEW x \in Requests,
         \/ SetEvent(x) \/ Abandon(x) \/ AwaitItem(x) \/ WorkerTakes
         \/ Disconnect(x) \/ Cancel(x) \/ CancelPuts(x),
         final' = final, NEW r \in Requests
  PROVE  LastTold(r)'
<1> USE DEF Inv
<1>1. UNCHANGED <<emitted, outputs, received>>
  BY DEF SetEvent, Abandon, AwaitItem, WorkerTakes, Disconnect, Cancel, CancelPuts, Engine!Cancel
<1>2. client'[r] \in Streaming => client[r] \in Streaming /\ phase'[r] = phase[r]
  <2> USE DEF Goto, Streaming, Typed, TypeOK
  <2>1. CASE SetEvent(x) \/ Abandon(x) \/ AwaitItem(x)
    BY <2>1 DEF SetEvent, Abandon, AwaitItem
  <2>2. CASE WorkerTakes
    <3>1. Head(jobs) \in Requests /\ client[Head(jobs)] = "queued"
      <4> HIDE DEF Typed
      <4>1. jobs # << >> /\ jobs \in Seq(Requests)
        BY <2>2 DEF WorkerTakes, Typed
      <4>2. Head(jobs) \in Requests
        BY <4>1, HeadTailProperties
      <4>3. Len(jobs) \in Nat /\ Len(jobs) # 0
        BY <4>1, LenProperties, EmptySeq
      <4>4. Head(jobs) = jobs[1]
        BY <4>1
      <4>5. 1 \in 1 .. Len(jobs)
        BY <4>3
      <4> QED BY <4>2, <4>4, <4>5 DEF Delivery, JobsQueued
    <3> QED BY <2>2, <3>1 DEF WorkerTakes
  <2>3. CASE Disconnect(x) \/ CancelPuts(x)
    BY <2>3 DEF Disconnect, CancelPuts
  <2>4. CASE Cancel(x)
    BY <2>4 DEF Cancel, Engine!Cancel
  <2> QED BY <2>1, <2>2, <2>3, <2>4
<1>3. \A i \in 1 .. Len(queue'[r]) : queue'[r][i].kind = "output" =>
        \E j \in 1 .. Len(queue[r]) : queue'[r][i] = queue[r][j]
  BY ClientPuts
<1>4. LastTold(r)
  BY DEF Told
<1>5. CASE client'[r] \notin Streaming
  BY <1>5 DEF LastTold
<1>6. CASE client'[r] \in Streaming
  <2>1. final'[r] \/ MoreToCome(r, received[r])'
    BY <1>1, <1>2, <1>4, <1>6 DEF LastTold, MoreToCome
  <2>2. \A i \in 1 .. Len(outputs') : outputs'[i].req = r =>
          \E j \in 1 .. Len(outputs) : outputs'[i] = outputs[j]
    BY <1>1, Zenon
  <2> QED BY <1>1, <1>2, <1>3, <1>4, <1>6, <2>1, <2>2, ToldKept
<1> QED BY <1>5, <1>6

\* Nobody but its own handler moves a client that the engine does not know.
LEMMA BehindEffect ==
  ASSUME Inv, Behind
  PROVE  /\ UNCHANGED <<ended, received>>
         /\ \A r \in Requests : client[r] \in NotAccepted => client'[r] = client[r]
<1> USE DEF Inv
<1>1. CASE Thread \/ StepRaises
  <2>1. UNCHANGED <<ended, received>>
    BY <1>1 DEF Thread, LookForWork, WaitReturns, ClearEvent, StepCalled, StepReturns,
           StepRaises, TakePending, FailOne, Delivered, Lookup, PutOutput,
           PutSentinel, PopFinished, OnlyPc
  <2> QED BY <1>1, <2>1, ThreadEffect
<1>2. ASSUME NEW x \in Requests, StepYields(x) PROVE <<ended, received, client>>' = <<ended, received, client>>
  BY <1>2 DEF StepYields
<1>3. ASSUME NEW x \in Requests,
             SetEvent(x) \/ AwaitItem(x) \/ WorkerTakes \/ CancelPuts(x)
      PROVE  /\ UNCHANGED <<ended, received>>
             /\ \A r \in Requests : client[r] \in NotAccepted => client'[r] = client[r]
  <2>1. UNCHANGED <<ended, received>>
    BY <1>3 DEF SetEvent, AwaitItem, WorkerTakes, CancelPuts
  <2>2. client' = client
        \/ \E y \in Requests : \E state \in Onward :
             client[y] \notin NotAccepted /\ client' = [client EXCEPT ![y] = state]
    BY <1>3, MoveEffect
  <2> QED BY <2>1, <2>2 DEF Typed, TypeOK
<1>4. ASSUME NEW x \in Requests, Cancel(x)
      PROVE  /\ UNCHANGED <<ended, received>>
             /\ \A r \in Requests : client[r] \in NotAccepted => client'[r] = client[r]
  BY <1>4 DEF Cancel, Goto, NotAccepted, Typed, TypeOK
<1>5. CASE Shutdown
  BY <1>5 DEF Shutdown
<1>6. ASSUME WorkerTakes
      PROVE  /\ UNCHANGED <<ended, received>>
             /\ \A r \in Requests : client[r] \in NotAccepted => client'[r] = client[r]
  <2>1. \E x \in Requests : TRUE
    <3>1. jobs # << >> /\ jobs \in Seq(Requests)
      BY <1>6 DEF WorkerTakes, Typed, TypeOK
    <3> QED BY <3>1, HeadTailProperties
  <2> QED BY <1>3, <1>6, <2>1
<1> QED BY <1>1, <1>2, <1>3, <1>4, <1>5, <1>6 DEF Behind

LEMMA NextTypes ==
  ASSUME Inv, Told, [ServerNext]_allVars
  PROVE  ServerTyped'
<1> USE DEF ServerTyped, Told
<1>1. CASE UNCHANGED allVars \/ (Behind /\ UNCHANGED serverVars)
  BY <1>1 DEF allVars
<1>2. ASSUME NEW x \in Requests, UnknownModel(x) \/ Post(x) \/ Leave(x) \/ Answer(x)
      PROVE  ServerTyped'
  <2>1. mode' = mode /\ final' = final
    BY <1>2 DEF UnknownModel, Post, Leave, Answer
  <2>2. \E what \in Responses : response' = [response EXCEPT ![x] = what]
    BY <1>2 DEF UnknownModel, Post, Leave, Answer, Respond, Responses
  <2> QED BY <2>1, <2>2
<1>3. ASSUME NEW x \in Requests, Receive(x) PROVE ServerTyped'
  <2>1. Head(queue[x]) \in Items
    <3>1. queue[x] # << >> /\ queue[x] \in Seq(Items)
      BY <1>3 DEF Receive, GetReturns, Inv, Typed, TypeOK
    <3> QED BY <3>1, HeadTailProperties
  <2>2. Head(queue[x]).finished \in BOOLEAN
    BY <2>1 DEF Items
  <2>3. final' = final \/ final' = [final EXCEPT ![x] = Head(queue[x]).finished]
    BY <1>3 DEF Receive
  <2>4. UNCHANGED <<mode, response>>
    BY <1>3 DEF Receive
  <2>5. final' \in [Requests -> BOOLEAN]
    <3>1. final \in [Requests -> BOOLEAN]
      BY Zenon
    <3>2. \A b \in BOOLEAN : [final EXCEPT ![x] = b] \in [Requests -> BOOLEAN]
      BY <3>1, Zenon
    <3> QED BY <2>2, <2>3, <3>1, <3>2, Zenon
  <2> QED BY <2>4, <2>5, Zenon
<1> QED BY <1>1, <1>2, <1>3 DEF ServerNext

LEMMA NextAnswering ==
  ASSUME Inv, Delivery, Told, [ServerNext]_allVars, NEW r \in Requests
  PROVE  Answering(r)'
<1> USE DEF Answering
<1>1. Answering(r) /\ ServerTyped
  BY DEF Told
<1>2. CASE UNCHANGED allVars
  BY <1>1, <1>2 DEF allVars, vars
<1>3. CASE Behind /\ UNCHANGED serverVars
  BY <1>1, <1>3, BehindEffect DEF NotAccepted
<1>4. ASSUME NEW x \in Requests, UnknownModel(x) PROVE Answering(r)'
  BY <1>1, <1>4 DEF UnknownModel, Respond, ServerTyped, vars
<1>5. ASSUME NEW x \in Requests, Post(x) PROVE Answering(r)'
  <2>1. /\ ended' = ended /\ final' = final /\ client[x] = "new"
        /\ client'[x] \in {"signal", "rejected"}
        /\ \A y \in Requests \ {x} : client'[y] = client[y]
    BY <1>5 DEF Post, Submit, Goto, Inv, Typed, TypeOK
  <2>2. /\ response'[x] = IF client'[x] = "rejected" THEN "400" ELSE "open"
        /\ \A y \in Requests \ {x} : response'[y] = response[y]
    BY <1>1, <1>5 DEF Post, Respond, ServerTyped
  <2> QED BY <1>1, <2>1, <2>2
<1>6. ASSUME NEW x \in Requests, Receive(x) PROVE Answering(r)'
  <2>1. /\ response' = response /\ queue[x] # << >> /\ phase' = phase /\ emitted' = emitted
        /\ x \in busy
    BY <1>6 DEF Receive, GetReturns
  <2>2. \A y \in Requests \ {x} :
          client'[y] = client[y] /\ ended'[y] = ended[y] /\ final'[y] = final[y]
    <3>1. final' = final \/ final' = [final EXCEPT ![x] = Head(queue[x]).finished]
      BY <1>6 DEF Receive
    <3>2. \A y \in Requests \ {x} : final'[y] = final[y]
      BY <1>1, <3>1 DEF ServerTyped
    <3> QED BY <1>6, <3>2 DEF Receive, GetReturns, Goto, Inv, Typed, TypeOK
  <2>3. CASE r # x
    BY <1>1, <2>1, <2>2, <2>3
  <2>4. CASE r = x /\ client[x] # "getting"
    <3>1. /\ UNCHANGED <<client, received, ended>>
      BY <1>6, <2>4 DEF Receive, GetReturns
    <3>2. final' = final
      BY <1>6, <3>1 DEF Receive
    <3> QED BY <1>1, <2>1, <3>1, <3>2
  <2>5. CASE r = x /\ client[x] = "getting"
    <3>1. response[x] \notin {"none", "404", "400"}
      BY <1>1, <2>5
    <3>2. ended[x] = ""
      BY <2>5 DEF Delivery, EndedHonestly, Gone
    <3>3. response[x] \notin {"200", "[DONE]", "500", "broken"}
      BY <1>1, <2>5, <3>2
    <3>4. ASSUME ended'[x] = "end" PROVE final'[x]
      <4>1. received' = received
        BY <1>6, <3>2, <3>4 DEF Receive, GetReturns
      <4>2. final' = final
        BY <1>6, <4>1 DEF Receive
      <4>3. received'[x] = emitted'[x] /\ phase'[x] = "done"
        BY <1>6, <3>4, GetDelivers DEF Receive, Delivery, EndedHonestly
      <4>4. ~ MoreToCome(x, received[x])
        <5>1. emitted[x] \in Nat /\ received[x] = emitted[x] /\ phase[x] = "done"
          BY <2>1, <4>1, <4>3, ItemsTyped DEF Inv
        <5> QED BY <5>1 DEF MoreToCome
      <4>5. LastTold(x) /\ client[x] \in Streaming
        BY <2>5 DEF Told, Streaming
      <4> QED BY <4>2, <4>4, <4>5 DEF LastTold
    <3> QED BY <2>1, <2>5, <3>1, <3>3, <3>4
  <2> QED BY <2>3, <2>4, <2>5
<1>7. ASSUME NEW x \in Requests, Leave(x) PROVE Answering(r)'
  <2>1. /\ ended' = ended /\ final' = final
        /\ \A y \in Requests \ {x} : client'[y] = client[y]
    BY <1>7 DEF Leave, Abandon, Disconnect, Goto, Inv, Typed, TypeOK
  <2>2. response'[x] = "left" /\ \A y \in Requests \ {x} : response'[y] = response[y]
    BY <1>1, <1>7 DEF Leave, Respond, ServerTyped
  <2> QED BY <1>1, <2>1, <2>2
<1>8. ASSUME NEW x \in Requests, Answer(x) PROVE Answering(r)'
  <2>1. /\ UNCHANGED <<ended, client, final>>
        /\ \/ /\ ended[x] = "end"
              /\ Respond(x, "[DONE]") \/ Respond(x, "200")
           \/ /\ ended[x] = "crashed"
              /\ Respond(x, "broken") \/ Respond(x, "500")
    BY <1>8 DEF Answer, vars
  <2> QED BY <1>1, <2>1 DEF Respond, ServerTyped
<1> QED BY <1>2, <1>3, <1>4, <1>5, <1>6, <1>7, <1>8 DEF ServerNext

LEMMA NextTold == Inv /\ Delivery /\ Told /\ [ServerNext]_allVars => Told'
<1> SUFFICES ASSUME Inv, Delivery, Told, [ServerNext]_allVars PROVE Told'
  OBVIOUS
<1>1. ServerTyped' /\ \A r \in Requests : Answering(r)'
  BY NextTypes, NextAnswering
<1>2. ASSUME NEW r \in Requests PROVE LastTold(r)'
  <2>1. CASE UNCHANGED allVars
    BY <2>1 DEF allVars, vars, Told, LastTold, MoreToCome
  <2>2. CASE UNCHANGED <<phase, emitted, outputs, queue, client, received, final>>
    BY <2>2 DEF Told, LastTold, MoreToCome
  <2>3. ASSUME NEW x \in Requests, UnknownModel(x) \/ Answer(x) PROVE LastTold(r)'
    BY <2>2, <2>3 DEF UnknownModel, Answer, vars
  <2>4. ASSUME NEW x \in Requests, Post(x) PROVE LastTold(r)'
    BY <2>4, SubmitTells DEF Post
  <2>5. ASSUME NEW x \in Requests, Receive(x) PROVE LastTold(r)'
    BY <2>5, ReceiveTells
  <2>6. ASSUME NEW x \in Requests, Leave(x) PROVE LastTold(r)'
    BY <2>6, ClientTells DEF Leave
  <2>7. CASE Behind /\ UNCHANGED serverVars
    <3>1. CASE Thread \/ StepRaises
      BY <2>7, <3>1, ThreadTells
    <3>2. ASSUME NEW x \in Requests, StepYields(x) PROVE LastTold(r)'
      BY <2>7, <3>2, StepYieldsTells
    <3>3. ASSUME NEW x \in Requests,
                 SetEvent(x) \/ AwaitItem(x) \/ Cancel(x) \/ CancelPuts(x)
          PROVE  LastTold(r)'
      BY <2>7, <3>3, ClientTells
    <3>4. CASE WorkerTakes
      BY <2>7, <3>4, ClientTells
    <3>5. CASE Shutdown
      BY <2>2, <2>7, <3>5 DEF Shutdown
    <3> QED BY <2>7, <3>1, <3>2, <3>3, <3>4, <3>5 DEF Behind
  <2> QED BY <2>1, <2>3, <2>4, <2>5, <2>6, <2>7 DEF ServerNext
<1> QED BY <1>1, <1>2 DEF Told

THEOREM ServerInvHolds == ServerSpec => [](Inv /\ Delivery /\ Told)
<1>1. ServerInit => Inv /\ Delivery /\ Told
  BY InitIsInit, InitInv, InitDelivery, ServerInitInv
<1>2. Inv /\ Delivery /\ Told /\ [ServerNext]_allVars => Inv' /\ Delivery' /\ Told'
  BY StepIsStep, NextInv, NextDelivery, NextTold
<1> QED BY <1>1, <1>2, PTL DEF ServerSpec

(***************************************************************************)
(* An answer that looks complete is: a 200 or [DONE] is sent only when the *)
(* loop over stream() ended by itself, and then the client has every token *)
(* of a request that ended, and the reason; a refusal leaves no request in *)
(* the engine, and an error is sent only after a crash of its thread.      *)
(***************************************************************************)
THEOREM AnswersAreCompleteHolds == ServerSpec => []AnswersAreComplete
<1>1. Inv /\ Delivery /\ Told => AnswersAreComplete
  BY DEF Inv, Delivery, Told, EndedHonestly, Answering, Accepted, NotAccepted, AnswersAreComplete
<1> QED BY <1>1, ServerInvHolds, PTL

-----------------------------------------------------------------------------
(* The counters.                                                           *)

\* No client has, or is about to be given, a token that was not generated.
NotAhead(r) ==
    /\ received[r] <= emitted[r]
    /\ \A i \in 1 .. Len(queue[r]) : queue[r][i].kind = "output" => queue[r][i].n <= emitted[r]

\* The requests whose answer is not a stream.
Whole == { r \in Requests : mode[r] = "whole" }

Counted ==
    /\ \A r \in Requests : NotAhead(r)
    /\ tokens_generated_total = SumFunctionOnSet(received, Whole)
    /\ request_total = Cardinality(Answered("200"))
    /\ Answered("200") \subseteq Whole

LEMMA ServerInitCounted == ServerInit => Counted
<1> SUFFICES ASSUME ServerInit PROVE Counted
  OBVIOUS
<1>1. \A r \in Requests : NotAhead(r)
  <2> SUFFICES ASSUME NEW r \in Requests PROVE NotAhead(r)
    OBVIOUS
  <2>1. queue[r] = << >> /\ received[r] = 0 /\ emitted[r] = 0
    BY DEF ServerInit, Init, Engine!Init
  <2>2. Len(queue[r]) = 0
    BY <2>1
  <2> QED BY <2>1, <2>2 DEF NotAhead
<1>2. Answered("200") = {} /\ request_total = 0 /\ Cardinality({}) = 0
  BY FS_EmptySet DEF Answered, ServerInit
<1>3. SumFunctionOnSet(received, Whole) = 0
  <2>1. IsFiniteSet(Whole) /\ \A x \in Whole : received[x] = 0
    BY FS_Subset, ServerAssumption DEF Whole, ServerInit, Init
  <2> QED BY <2>1, SumZero
<1> QED BY <1>1, <1>2, <1>3 DEF Counted, ServerInit

\* A step that gives r's client no token, and its queue none that is new.
LEMMA NotAheadKept ==
  ASSUME Typed, Typed', NEW r \in Requests, NotAhead(r), received'[r] = received[r],
         emitted'[r] = emitted[r] \/ emitted'[r] = emitted[r] + 1,
         \A i \in 1 .. Len(queue'[r]) : queue'[r][i].kind = "output" =>
           \/ \E j \in 1 .. Len(queue[r]) : queue'[r][i] = queue[r][j]
           \/ queue'[r][i].n <= emitted[r]
  PROVE  NotAhead(r)'
<1>1. /\ received[r] \in Nat /\ emitted[r] \in Nat
      /\ \A i \in 1 .. Len(queue'[r]) : queue'[r][i].n \in Nat
  <2>1. queue'[r] \in Seq(Items)
    BY DEF Typed, TypeOK
  <2>2. \A i \in 1 .. Len(queue'[r]) : queue'[r][i] \in Items
    BY <2>1, ElementOfSeq
  <2>3. \A item \in Items : item.n \in Nat
    BY DEF Items
  <2> QED BY <2>2, <2>3, ItemsTyped
<1>2. \A i \in 1 .. Len(queue'[r]) : queue'[r][i].kind = "output" => queue'[r][i].n <= emitted[r]
  BY DEF NotAhead
<1>3. \A n \in Nat : n <= emitted[r] => n <= emitted'[r]
  BY <1>1
<1> QED BY <1>1, <1>2, <1>3 DEF NotAhead

LEMMA NextNotAhead ==
  ASSUME Inv, Delivery, [Next]_vars, NEW r \in Requests, NotAhead(r)
  PROVE  NotAhead(r)'
<1> USE DEF Inv
<1>1. Typed'
  BY NextInv
<1>2. CASE UNCHANGED vars \/ Shutdown
  BY <1>2 DEF vars, Shutdown, NotAhead
<1>3. CASE Thread \/ StepRaises
  <2>1. UNCHANGED <<emitted, received>>
    BY <1>3 DEF Thread, LookForWork, WaitReturns, ClearEvent, StepCalled, StepReturns,
           StepRaises, TakePending, FailOne, Delivered, Lookup, PutOutput,
           PutSentinel, PopFinished, OnlyPc
  <2>2. \A i \in 1 .. Len(outputs) : outputs[i].req = r => outputs[i].n <= emitted[r]
    <3>1. \A i \in 1 .. Len(outputs) : outputs[i].req = r => outputs[i].n = emitted[r]
      BY DEF Delivery, OutputsTell
    <3> QED BY <3>1, ItemsTyped
  <2> QED BY <1>1, <1>3, <2>1, <2>2, ThreadPuts, NotAheadKept
<1>4. ASSUME NEW x \in Requests, StepYields(x) PROVE NotAhead(r)'
  <2>1. UNCHANGED <<queue, received>> /\ emitted' = [emitted EXCEPT ![x] = @ + 1]
    BY <1>4 DEF StepYields, Engine!EmitMore, Engine!EmitLast
  <2>2. emitted'[r] = emitted[r] \/ emitted'[r] = emitted[r] + 1
    BY <2>1 DEF Typed
  <2>3. \A i \in 1 .. Len(queue'[r]) : \E j \in 1 .. Len(queue[r]) : queue'[r][i] = queue[r][j]
    BY <2>1, Zenon
  <2> QED BY <1>1, <2>1, <2>2, <2>3, NotAheadKept
<1>5. ASSUME NEW x \in Requests, Submit(x) PROVE NotAhead(r)'
  BY <1>5 DEF Submit, Engine!Submit, NotAhead
<1>6. ASSUME NEW x \in Requests,
             \/ SetEvent(x) \/ Abandon(x) \/ AwaitItem(x) \/ WorkerTakes
             \/ Disconnect(x) \/ Cancel(x) \/ CancelPuts(x)
      PROVE  NotAhead(r)'
  <2>1. UNCHANGED <<emitted, received>>
    BY <1>6 DEF SetEvent, Abandon, AwaitItem, WorkerTakes, Disconnect, Cancel, CancelPuts,
                Engine!Cancel
  <2> QED BY <1>1, <1>6, <2>1, ClientPuts, NotAheadKept
<1>7. ASSUME NEW x \in Requests, GetReturns(x) PROVE NotAhead(r)'
  <2>1. emitted' = emitted /\ queue' = [queue EXCEPT ![x] = Tail(@)]
    BY <1>7 DEF GetReturns
  <2>2. \A i \in 1 .. Len(queue'[r]) : \E j \in 1 .. Len(queue[r]) : queue'[r][i] = queue[r][j]
    <3>1. CASE r = x
      BY <1>7, <3>1, GetTakes
    <3>2. CASE r # x
      <4>1. queue'[r] = queue[r]
        BY <2>1, <3>2 DEF Typed, TypeOK
      <4> QED BY <4>1, Zenon
    <3> QED BY <3>1, <3>2
  <2>3. CASE received'[r] = received[r]
    BY <1>1, <2>1, <2>2, <2>3, NotAheadKept
  <2>4. CASE received'[r] # received[r]
    <3>1. /\ r = x /\ client[x] = "getting" /\ Head(queue[x]).kind = "output"
          /\ received'[x] = received[x] + 1
      BY <1>7, <2>4 DEF GetReturns, Typed, TypeOK
    <3>2. Head(queue[x]) = queue[x][1] /\ 1 \in 1 .. Len(queue[x])
      BY <1>7, GetTakes
    <3>3. Head(queue[x]).n = received'[x]
      <4>1. PICK k \in 0 .. Len(queue[x]) : Holds(x, k)
        BY <3>1 DEF Delivery, Stream, Streaming
      <4>2. Len(queue[x]) \in Nat /\ k \in Nat
        BY ItemsTyped
      <4>3. ~ (1 \in k + 1 .. Len(queue[x]))
        BY <3>1, <3>2, <4>1 DEF Holds, Marks
      <4>4. 1 \in 1 .. k
        BY <3>2, <4>2, <4>3
      <4> QED BY <3>1, <3>2, <4>1, <4>4 DEF Holds
    <3>4. received'[r] <= emitted'[r]
      BY <2>1, <3>1, <3>2, <3>3 DEF NotAhead
    <3> QED BY <2>1, <2>2, <3>4 DEF NotAhead
  <2> QED BY <2>3, <2>4
<1>8. CASE WorkerTakes
  BY <1>6, <1>8
<1> QED BY <1>2, <1>3, <1>4, <1>5, <1>6, <1>7, <1>8 DEF Next, Task

\* An answer other than a 200, to a request that has none.
LEMMA AnsweredKept ==
  ASSUME ServerTyped, NEW x \in Requests, NEW what \in Responses, Respond(x, what),
         response[x] # "200", what # "200"
  PROVE  Answered("200")' = Answered("200")
BY DEF ServerTyped, Respond, Answered

LEMMA NextRequestTotal ==
  ASSUME Told, Counted, [ServerNext]_allVars
  PROVE  request_total' = Cardinality(Answered("200"))' /\ Answered("200")' \subseteq Whole
<1>1. /\ ServerTyped /\ request_total = Cardinality(Answered("200"))
      /\ Answered("200") \subseteq Whole
  BY DEF Told, Counted
<1>2. CASE UNCHANGED <<response, request_total>>
  BY <1>1, <1>2 DEF Answered
<1>3. ASSUME NEW x \in Requests,
             \/ UnknownModel(x) \/ Post(x) \/ Leave(x)
             \/ Answer(x) /\ UNCHANGED request_total
      PROVE  request_total' = Cardinality(Answered("200"))' /\ Answered("200")' \subseteq Whole
  <2>1. request_total' = request_total /\ response[x] # "200"
        /\ \E what \in Responses : what # "200" /\ Respond(x, what)
    <3>1. CASE UnknownModel(x) \/ Post(x)
      BY <3>1 DEF UnknownModel, Post, Responses
    <3>2. CASE Leave(x)
      BY <1>1, <3>2 DEF Leave, Responses, Answered, Whole
    <3>3. CASE Answer(x) /\ UNCHANGED request_total
      <4>1. request_total \in Nat
        BY <1>1, FS_Subset, FS_CardinalityType, ServerAssumption DEF Answered
      <4>2. request_total # request_total + 1
        BY <4>1
      <4> QED BY <3>3, <4>2 DEF Answer, Responses
    <3> QED BY <1>3, <3>1, <3>2, <3>3
  <2> QED BY <1>1, <2>1, AnsweredKept
<1>4. ASSUME NEW x \in Requests, Answer(x), ~ UNCHANGED request_total
      PROVE  request_total' = Cardinality(Answered("200"))' /\ Answered("200")' \subseteq Whole
  <2>1. /\ request_total' = request_total + 1 /\ mode[x] = "whole"
        /\ response[x] = "open" /\ Respond(x, "200")
    BY <1>4 DEF Answer
  <2>2. x \notin Answered("200") /\ Answered("200")' = Answered("200") \cup {x}
    BY <1>1, <2>1 DEF Respond, ServerTyped, Answered
  <2>3. IsFiniteSet(Answered("200"))
    BY FS_Subset, ServerAssumption DEF Answered
  <2>4. Cardinality(Answered("200") \cup {x}) = Cardinality(Answered("200")) + 1
    BY <2>2, <2>3, FS_AddElement
  <2> QED BY <1>1, <2>1, <2>2, <2>4 DEF Whole
<1>5. ASSUME NEW x \in Requests, Receive(x) PROVE UNCHANGED <<response, request_total>>
  BY <1>5 DEF Receive
<1> QED BY <1>2, <1>3, <1>4, <1>5 DEF ServerNext, allVars

LEMMA NextTokensTotal ==
  ASSUME Inv, Counted, [ServerNext]_allVars
  PROVE  tokens_generated_total' = SumFunctionOnSet(received, Whole)' /\ Whole' = Whole
<1>1. Whole' = Whole
  <2>1. mode' = mode
    BY DEF ServerNext, allVars, UnknownModel, Post, Receive, Leave, Answer
  <2> QED BY <2>1 DEF Whole
<1>2. /\ IsFiniteSet(Whole) /\ \A x \in Whole : received[x] \in Nat
      /\ tokens_generated_total = SumFunctionOnSet(received, Whole)
  BY FS_Subset, ServerAssumption, ItemsTyped DEF Whole, Inv, Counted
<1>3. SumFunctionOnSet(received, Whole)' = SumFunctionOnSet(received', Whole)
  BY <1>1
<1>4. CASE UNCHANGED <<received, tokens_generated_total>>
  BY <1>1, <1>2, <1>4
<1>5. ASSUME NEW x \in Requests, UnknownModel(x) \/ Post(x) \/ Leave(x) \/ Answer(x)
      PROVE  UNCHANGED <<received, tokens_generated_total>>
  BY <1>5 DEF UnknownModel, Post, Leave, Answer, Submit, Abandon, Disconnect, vars
<1>6. ASSUME Behind, UNCHANGED serverVars PROVE UNCHANGED <<received, tokens_generated_total>>
  BY <1>6, BehindEffect
<1>7. ASSUME NEW x \in Requests, Receive(x)
      PROVE  tokens_generated_total' = SumFunctionOnSet(received', Whole)
  <2>1. received' = received \/ received' = [received EXCEPT ![x] = @ + 1]
    BY <1>7 DEF Receive, GetReturns
  <2>2. /\ received \in [Requests -> Nat] /\ received[x] \in Nat
        /\ mode[x] = "whole" <=> x \in Whole
    BY DEF Inv, Typed, TypeOK, Whole
  <2>3. CASE received' = received
    <3>1. tokens_generated_total' = tokens_generated_total
      BY <1>7, <2>3 DEF Receive
    <3> QED BY <1>2, <2>3, <3>1
  <2>4. CASE received' = [received EXCEPT ![x] = @ + 1]
    <3>1. /\ received'[x] = received[x] + 1 /\ received'[x] # received[x]
          /\ \A y \in Whole \ {x} : received'[y] = received[y]
      BY <2>2, <2>4 DEF Whole
    <3>2. tokens_generated_total' = tokens_generated_total + IF mode[x] = "whole" THEN 1 ELSE 0
      BY <1>7, <3>1 DEF Receive, CountToken
    <3>3. PICK now : now = received'
      OBVIOUS
    <3>4. CASE x \in Whole
      <4>1. SumFunctionOnSet(now, Whole) = SumFunctionOnSet(received, Whole) + 1
        BY <1>2, <3>1, <3>3, <3>4, SumPlusOne
      <4> QED BY <1>2, <2>2, <3>2, <3>3, <3>4, <4>1
    <3>5. CASE x \notin Whole
      <4>1. SumFunctionOnSet(now, Whole) = SumFunctionOnSet(received, Whole)
        BY <1>2, <3>1, <3>3, <3>5, SumSame
      <4>2. SumFunctionOnSet(received, Whole) \in Nat
        BY <1>2, SumNatType
      <4> QED BY <1>2, <2>2, <3>2, <3>3, <3>5, <4>1, <4>2
    <3> QED BY <3>4, <3>5
  <2> QED BY <2>1, <2>3, <2>4
<1>8. CASE UNCHANGED allVars
  BY <1>4, <1>8 DEF allVars, vars
<1> QED BY <1>1, <1>3, <1>4, <1>5, <1>6, <1>7, <1>8 DEF ServerNext

LEMMA NextCounted == Inv /\ Delivery /\ Told /\ Counted /\ [ServerNext]_allVars => Counted'
<1> SUFFICES ASSUME Inv, Delivery, Told, Counted, [ServerNext]_allVars PROVE Counted'
  OBVIOUS
<1>1. [Next]_vars
  BY StepIsStep
<1>2. \A r \in Requests : NotAhead(r)'
  BY <1>1, NextNotAhead DEF Counted
<1> QED BY <1>2, NextRequestTotal, NextTokensTotal DEF Counted

(***************************************************************************)
(* Of whole answers everything is counted exactly once (_consume and what  *)
(* follows it): tokens_generated_total is at all times the tokens of every *)
(* 200, all of them, and those handed to the handlers of the other whole   *)
(* requests, none that was not generated; request_total is the number of   *)
(* 200s.  For any finite number of clients.  Streams are not counted.      *)
(***************************************************************************)
THEOREM WholeAnswersAreCountedHolds == ServerSpec => []WholeAnswersAreCounted
<1>1. ServerInit => Counted
  BY ServerInitCounted
<1>2. Inv /\ Delivery /\ Told /\ Counted => WholeAnswersAreCounted
  <2> SUFFICES ASSUME Inv, Delivery, Told, Counted PROVE WholeAnswersAreCounted
    OBVIOUS
  <2>1. /\ IsFiniteSet(Whole) /\ Whole \subseteq Requests
        /\ \A x \in Whole : received[x] \in Nat
        /\ tokens_generated_total = SumFunctionOnSet(received, Whole)
        /\ request_total = Cardinality(Answered("200"))
    BY FS_Subset, ServerAssumption, ItemsTyped DEF Whole, Inv, Counted
  <2> PICK handed : handed = [r \in Requests |-> Handed(r)]
    OBVIOUS
  <2>2. \A x \in Whole : handed[x] = received[x]
    <3> SUFFICES ASSUME NEW x \in Whole PROVE handed[x] = received[x]
      OBVIOUS
    <3>1. x \in Requests /\ handed[x] = Handed(x)
      BY <2>1
    <3>2. response[x] = "200" => received[x] = emitted[x]
      BY <3>1 DEF Told, Answering, Delivery, EndedHonestly
    <3> QED BY <3>1, <3>2 DEF Handed
  <2>3. SumFunctionOnSet(handed, Whole) = SumFunctionOnSet(received, Whole)
    BY <2>1, <2>2, SumSame
  <2>4. \A r \in Whole : received[r] <= emitted[r]
    BY <2>1 DEF Counted, NotAhead
  <2> QED BY <2>1, <2>3, <2>4, Zenon DEF WholeAnswersAreCounted, Whole
<1>3. ServerInit => Inv /\ Delivery /\ Told
  BY InitIsInit, InitInv, InitDelivery, ServerInitInv
<1>4. Inv /\ Delivery /\ Told /\ Counted /\ [ServerNext]_allVars
        => Inv' /\ Delivery' /\ Told' /\ Counted'
  BY StepIsStep, NextInv, NextDelivery, NextTold, NextCounted
<1> QED BY <1>1, <1>2, <1>3, <1>4, PTL DEF ServerSpec
=============================================================================
