------------------------- MODULE AsyncEngine_proofs -------------------------
(***************************************************************************)
(* Theorems about the asynchronous engine, for every number of clients,    *)
(* every set of limits and endings and any number of executor threads.     *)
(***************************************************************************)
EXTENDS AsyncEngine, Lemmas

\* The thread works on the first output of the step from its lookup on.
HoldsOutput == pc \in {"put", "end", "pop"} => outputs # << >>

Typed ==
    /\ TypeOK
    /\ emitted \in [Requests -> Nat]
    /\ reason \in [Requests -> {"none", "cancelled", "eot", "length", "stop"}]
    /\ HoldsOutput

\* A client whose request the engine has not accepted.
NotAccepted == {"new", "rejected"}

\* The engine knows a request exactly when its client was accepted.
Accepted == \A r \in Requests : phase[r] = "new" <=> client[r] \in NotAccepted

\* A client that has not returned from submit() yet.
Early == NotAccepted \cup {"signal"}

\* Only the others have a job in the executor.
JobsSubmitted == \A i \in 1 .. Len(jobs) : client[jobs[i]] \notin Early

Inv ==
    /\ Typed
    /\ Accepted
    /\ JobsSubmitted
    /\ ClosedMeansReleased
    /\ NoLostWakeup

\* The variables the invariant is about.
USE DEF engineVars, threadVars, clientVars

-----------------------------------------------------------------------------
(* Types.                                                                  *)

LEMMA OutputIsItem ==
  ASSUME NEW r \in Requests, NEW n \in Nat, NEW last \in BOOLEAN
  PROVE  Output(r, n, last) \in Items
BY DEF Output, Items

LEMMA MarkIsItem ==
  ASSUME NEW r \in Requests, NEW kind \in {"sentinel", "crash"}
  PROVE  Mark(kind, r) \in Items
BY DEF Mark, Items

\* queue.put.
LEMMA PutType ==
  ASSUME queue \in [Requests -> Seq(Items)], NEW r \in Requests, NEW item \in Items,
         Put(r, item)
  PROVE  queue' \in [Requests -> Seq(Items)]
<1>1. queue[r] \in Seq(Items)
  OBVIOUS
<1>2. Append(queue[r], item) \in Seq(Items)
  BY <1>1, AppendProperties
<1> QED BY <1>2 DEF Put

LEMMA InitInv == Init => Inv
<1> SUFFICES ASSUME Init PROVE Inv
  OBVIOUS
<1>1. << >> \in Seq(Items) /\ << >> \in Seq(Requests) /\ Len(jobs) = 0
  BY EmptySeq DEF Init
<1>2. JobsSubmitted
  BY <1>1 DEF JobsSubmitted
<1> USE DEF Init, Engine!Init
<1>3. TypeOK
  BY <1>1 DEF TypeOK, PCs, ClientStates
<1>4. /\ emitted \in [Requests -> Nat] /\ HoldsOutput
      /\ reason \in [Requests -> {"none", "cancelled", "eot", "length", "stop"}]
  BY DEF HoldsOutput
<1>5. Accepted
  BY DEF Accepted, NotAccepted
<1>6. ClosedMeansReleased /\ NoLostWakeup
  BY DEF ClosedMeansReleased, NoLostWakeup
<1> QED BY <1>2, <1>3, <1>4, <1>5, <1>6 DEF Inv, Typed

\* The steps of the thread that only move it.
LEMMA MoveType ==
  ASSUME Typed,
         LookForWork \/ WaitReturns \/ ClearEvent \/ StepCalled \/ StepReturns \/ Delivered
  PROVE  Typed'
BY DEF Typed, TypeOK, HoldsOutput, PCs, LookForWork, WaitReturns, ClearEvent,
       StepCalled, StepReturns, Delivered, OnlyPc

LEMMA StepYieldsType ==
  ASSUME Typed, NEW r \in Requests, StepYields(r)
  PROVE  Typed'
<1>1. /\ emitted' = [emitted EXCEPT ![r] = @ + 1]
      /\ phase' \in [Requests -> {"new", "live", "done"}]
      /\ reason' \in [Requests -> {"none", "cancelled", "eot", "length", "stop"}]
  BY DEF Typed, TypeOK, StepYields, Engine!EmitMore, Engine!EmitLast
<1>2. emitted' \in [Requests -> Nat] /\ emitted'[r] \in Nat
  BY <1>1 DEF Typed
<1>3. outputs' \in Seq(Items)
  <2>1. PICK last \in BOOLEAN : outputs' = Append(outputs, Output(r, emitted'[r], last))
    BY DEF StepYields
  <2>2. outputs \in Seq(Items) /\ Output(r, emitted'[r], last) \in Items
    BY <1>2, OutputIsItem DEF Typed, TypeOK
  <2> QED BY <2>1, <2>2, AppendProperties
<1>4. HoldsOutput'
  BY DEF StepYields, HoldsOutput
<1> QED BY <1>1, <1>2, <1>3, <1>4 DEF Typed, TypeOK, StepYields

\* An exception in step(), and the handler that fails the open queues.
LEMMA CrashType ==
  ASSUME Typed, StepRaises \/ TakePending \/ \E r \in Requests : FailOne(r)
  PROVE  Typed'
<1>1. CASE StepRaises
  BY <1>1, EmptySeq DEF Typed, TypeOK, HoldsOutput, PCs, StepRaises
<1>2. CASE TakePending
  BY <1>2 DEF Typed, TypeOK, HoldsOutput, PCs, TakePending
<1>3. ASSUME NEW r \in Requests, FailOne(r) PROVE Typed'
  <2>1. Crash(r) \in Items
    BY MarkIsItem DEF Crash
  <2>2. queue' \in [Requests -> Seq(Items)]
    BY <1>3, <2>1, PutType DEF FailOne, Typed, TypeOK
  <2> QED BY <1>3, <2>2 DEF FailOne, Typed, TypeOK, HoldsOutput
<1> QED BY <1>1, <1>2, <1>3

\* The output the thread is at belongs to a request, and the rest are outputs.
LEMMA HeadOutput ==
  ASSUME Typed, outputs # << >>
  PROVE  /\ Head(outputs) \in Items /\ Head(outputs).req \in Requests
         /\ Tail(outputs) \in Seq(Items)
<1>1. outputs \in Seq(Items)
  BY DEF Typed, TypeOK
<1>2. Head(outputs) \in Items /\ Tail(outputs) \in Seq(Items)
  BY <1>1, HeadTailProperties
<1> QED BY <1>2 DEF Items

LEMMA DeliverType ==
  ASSUME Typed, Lookup \/ PutOutput \/ PutSentinel \/ PopFinished
  PROVE  Typed'
<1>1. outputs # << >>
  BY DEF Typed, HoldsOutput, Lookup, PutOutput, PutSentinel, PopFinished
<1>2. /\ Head(outputs) \in Items /\ Head(outputs).req \in Requests
      /\ Tail(outputs) \in Seq(Items)
  BY <1>1, HeadOutput
<1>3. CASE Lookup
  BY <1>1, <1>2, <1>3 DEF Lookup, Typed, TypeOK, HoldsOutput, PCs
<1>4. CASE PutOutput
  <2>1. queue' \in [Requests -> Seq(Items)]
    BY <1>2, <1>4, PutType DEF PutOutput, Typed, TypeOK
  <2> QED BY <1>1, <1>2, <1>4, <2>1 DEF PutOutput, Typed, TypeOK, HoldsOutput, PCs
<1>5. CASE PutSentinel
  <2>1. SENTINEL(Head(outputs).req) \in Items
    BY <1>2, MarkIsItem DEF SENTINEL
  <2>2. queue' \in [Requests -> Seq(Items)]
    BY <1>2, <1>5, <2>1, PutType DEF PutSentinel, Typed, TypeOK
  <2> QED BY <1>1, <1>5, <2>2 DEF PutSentinel, Typed, TypeOK, HoldsOutput, PCs
<1>6. CASE PopFinished
  BY <1>2, <1>6 DEF PopFinished, Typed, TypeOK, HoldsOutput, PCs
<1> QED BY <1>3, <1>4, <1>5, <1>6

\* The steps of clients and of shutdown that touch neither queue nor executor.
LEMMA ClientType ==
  ASSUME Typed, NEW r \in Requests,
         Submit(r) \/ SetEvent(r) \/ Abandon(r) \/ Cancel(r) \/ Shutdown
  PROVE  Typed'
<1>1. CASE Submit(r)
  <2>1. /\ phase' \in [Requests -> {"new", "live", "done"}]
        /\ emitted' = emitted /\ reason' = reason
    BY <1>1 DEF Submit, Engine!Submit, Typed, TypeOK
  <2>2. client' \in [Requests -> ClientStates]
    BY <1>1 DEF Submit, Goto, Typed, TypeOK, ClientStates
  <2> QED BY <1>1, <2>1, <2>2 DEF Submit, Typed, TypeOK, HoldsOutput
<1>2. CASE SetEvent(r)
  BY <1>2 DEF SetEvent, Goto, Typed, TypeOK, HoldsOutput, ClientStates
<1>3. CASE Abandon(r)
  BY <1>3 DEF Abandon, Goto, Typed, TypeOK, HoldsOutput, ClientStates
<1>4. CASE Cancel(r)
  <2>1. /\ phase' \in [Requests -> {"new", "live", "done"}] /\ emitted' = emitted
        /\ reason' \in [Requests -> {"none", "cancelled", "eot", "length", "stop"}]
    BY <1>4 DEF Cancel, Engine!Cancel, Typed, TypeOK
  <2>2. client' \in [Requests -> ClientStates]
    BY <1>4 DEF Cancel, Goto, Typed, TypeOK, ClientStates
  <2> QED BY <1>4, <2>1, <2>2 DEF Cancel, Typed, TypeOK, HoldsOutput
<1>5. CASE Shutdown
  BY <1>5 DEF Shutdown, Typed, TypeOK, HoldsOutput
<1> QED BY <1>1, <1>2, <1>3, <1>4, <1>5

\* The steps around queue.get.
LEMMA GetType ==
  ASSUME Typed, NEW r \in Requests,
         AwaitItem(r) \/ WorkerTakes \/ GetReturns(r) \/ Disconnect(r) \/ CancelPuts(r)
  PROVE  Typed'
<1>1. CASE AwaitItem(r)
  <2>1. jobs' \in Seq(Requests)
    BY <1>1, AppendProperties DEF AwaitItem, Typed, TypeOK
  <2> QED BY <1>1, <2>1 DEF AwaitItem, Goto, Typed, TypeOK, HoldsOutput, ClientStates
<1>2. CASE WorkerTakes
  <2>1. Head(jobs) \in Requests /\ jobs' \in Seq(Requests)
    BY <1>2, HeadTailProperties DEF WorkerTakes, Typed, TypeOK
  <2> QED BY <1>2, <2>1 DEF WorkerTakes, Goto, Typed, TypeOK, HoldsOutput, ClientStates
<1>3. CASE GetReturns(r)
  <2>1. Tail(queue[r]) \in Seq(Items)
    BY <1>3, HeadTailProperties DEF GetReturns, Typed, TypeOK
  <2>2. queue' \in [Requests -> Seq(Items)] /\ busy' \subseteq Requests
    BY <1>3, <2>1 DEF GetReturns, Typed, TypeOK
  <2>3. /\ client' \in [Requests -> ClientStates]
        /\ received' \in [Requests -> Nat]
        /\ ended' \in [Requests -> {"", "end", "crashed"}]
    <3>1. /\ \/ UNCHANGED client
             \/ \E state \in {"open", "closing"} : Goto(r, state)
          /\ \/ UNCHANGED received
             \/ received' = [received EXCEPT ![r] = @ + 1]
          /\ \/ UNCHANGED ended
             \/ \E how \in {"end", "crashed"} : ended' = [ended EXCEPT ![r] = how]
      BY <1>3 DEF GetReturns
    <3>2. /\ client \in [Requests -> ClientStates]
          /\ received \in [Requests -> Nat]
          /\ ended \in [Requests -> {"", "end", "crashed"}]
      BY DEF Typed, TypeOK
    <3>3. client' \in [Requests -> ClientStates]
      BY <3>1, <3>2 DEF Goto, ClientStates
    <3>4. received' \in [Requests -> Nat]
      <4>1. received[r] \in Nat
        BY <3>2, Zenon
      <4>2. \A n \in Nat : n + 1 \in Nat
        OBVIOUS
      <4> QED BY <3>1, <3>2, <4>1, <4>2, Zenon
    <3>5. ended' \in [Requests -> {"", "end", "crashed"}]
      BY <3>1, <3>2
    <3> QED BY <3>3, <3>4, <3>5
  <2> QED BY <1>3, <2>2, <2>3 DEF GetReturns, Typed, TypeOK, HoldsOutput
<1>4. CASE Disconnect(r)
  <2>1. jobs' \in Seq(Requests)
    BY <1>4, RemoveFirstType DEF Disconnect, Typed, TypeOK
  <2> QED BY <1>4, <2>1 DEF Disconnect, Goto, Typed, TypeOK, HoldsOutput, ClientStates
<1>5. CASE CancelPuts(r)
  <2>1. SENTINEL(r) \in Items
    BY MarkIsItem DEF SENTINEL
  <2>2. queue' \in [Requests -> Seq(Items)]
    BY <1>5, <2>1, PutType DEF CancelPuts, Typed, TypeOK
  <2> QED BY <1>5, <2>2 DEF CancelPuts, Goto, Typed, TypeOK, HoldsOutput, ClientStates
<1> QED BY <1>1, <1>2, <1>3, <1>4, <1>5

-----------------------------------------------------------------------------
(* What each step does to the requests, the clients and the jobs.          *)

\* The steps of the thread, without those of step() itself.
LEMMA ThreadEffect ==
  ASSUME Thread \/ StepRaises
  PROVE  /\ UNCHANGED <<phase, client, jobs>> /\ queues' \subseteq queues
         /\ pc' = "wait" => Live = {}
BY DEF Thread, LookForWork, WaitReturns, ClearEvent, StepCalled, StepReturns,
       StepRaises, TakePending, FailOne, Delivered, Lookup, PutOutput,
       PutSentinel, PopFinished, OnlyPc

\* A row of step(): only a live request can end.
LEMMA StepYieldsEffect ==
  ASSUME Typed, NEW r \in Requests, StepYields(r)
  PROVE  /\ UNCHANGED <<client, jobs, queues, wake, pc>> /\ pc = "step"
         /\ phase[r] = "live"
         /\ phase' = phase \/ phase' = [phase EXCEPT ![r] = "done"]
BY DEF StepYields, Engine!EmitMore, Engine!EmitLast

\* Where a client goes from there.
Onward == ClientStates \ Early

\* A client's own step that is neither the first nor the last: the client was
\* accepted and has not left the engine, or has left it for good.
LEMMA MoveEffect ==
  ASSUME Typed, JobsSubmitted, NEW r \in Requests,
         \/ SetEvent(r) \/ Abandon(r) \/ AwaitItem(r) \/ WorkerTakes
         \/ GetReturns(r) \/ Disconnect(r) \/ CancelPuts(r)
  PROVE  /\ UNCHANGED <<phase, queues, pc>>
         /\ client' = client
            \/ \E x \in Requests : \E state \in Onward :
                 /\ client[x] \notin NotAccepted
                 /\ state \in {"sentinel", "closed"} => client[x] = "sentinel"
                 /\ client[x] = "signal" => wake'
                 /\ client' = [client EXCEPT ![x] = state]
         /\ wake => wake'
<1> USE DEF Goto, Onward, ClientStates, Early, NotAccepted
<1>1. CASE SetEvent(r)
  BY <1>1 DEF SetEvent
<1>2. CASE Abandon(r)
  BY <1>2 DEF Abandon
<1>3. CASE AwaitItem(r)
  BY <1>3 DEF AwaitItem
<1>4. CASE WorkerTakes
  <2>1. /\ Head(jobs) = jobs[1] /\ 1 \in 1 .. Len(jobs)
        /\ Head(jobs) \in Requests
    <3>1. jobs \in Seq(Requests) /\ jobs # << >>
      BY <1>4 DEF WorkerTakes, Typed, TypeOK
    <3>2. Head(jobs) \in Requests /\ Len(Tail(jobs)) = Len(jobs) - 1
      BY <3>1, HeadTailProperties
    <3>3. Len(jobs) \in Nat /\ Len(jobs) # 0
      BY <3>1, LenProperties, EmptySeq
    <3>4. Head(jobs) = jobs[1]
      BY <3>1
    <3> QED BY <3>2, <3>3, <3>4
  <2>2. client[Head(jobs)] \notin Early
    BY <2>1 DEF JobsSubmitted
  <2> QED BY <1>4, <2>1, <2>2 DEF WorkerTakes
<1>5. CASE GetReturns(r)
  BY <1>5 DEF GetReturns
<1>6. CASE Disconnect(r)
  BY <1>6 DEF Disconnect
<1>7. CASE CancelPuts(r)
  BY <1>7 DEF CancelPuts
<1> QED BY <1>1, <1>2, <1>3, <1>4, <1>5, <1>6, <1>7

\* The same steps leave no early client in the executor's queue.
LEMMA JobsEffect ==
  ASSUME Typed, JobsSubmitted, NEW r \in Requests,
         \/ SetEvent(r) \/ Abandon(r) \/ AwaitItem(r) \/ WorkerTakes
         \/ GetReturns(r) \/ Disconnect(r) \/ CancelPuts(r)
  PROVE  \A i \in 1 .. Len(jobs') : client[jobs'[i]] \notin Early
<1>1. jobs \in Seq(Requests) /\ Len(jobs) \in Nat
  BY LenProperties DEF Typed, TypeOK
<1>2. CASE UNCHANGED jobs
  BY <1>2 DEF JobsSubmitted
<1>3. CASE AwaitItem(r)
  <2>1. jobs' = Append(jobs, r) /\ client[r] \notin Early
    BY <1>3 DEF AwaitItem, Early, NotAccepted
  <2>2. /\ Len(jobs') = Len(jobs) + 1
        /\ \A i \in 1 .. Len(jobs) : jobs'[i] = jobs[i]
        /\ jobs'[Len(jobs) + 1] = r
    BY <1>1, <2>1, AppendProperties
  <2> QED BY <1>1, <2>1, <2>2 DEF JobsSubmitted
<1>4. CASE WorkerTakes
  <2>1. jobs # << >> /\ jobs' = Tail(jobs)
    BY <1>4 DEF WorkerTakes
  <2>2. /\ Len(jobs') = Len(jobs) - 1
        /\ \A i \in 1 .. Len(jobs') : jobs'[i] = jobs[i + 1]
    BY <1>1, <2>1, HeadTailProperties
  <2> QED BY <1>1, <2>2 DEF JobsSubmitted
<1>5. CASE Disconnect(r)
  <2>1. jobs' = RemoveFirst(jobs, r)
    BY <1>5 DEF Disconnect
  <2>2. CASE \E i \in 1 .. Len(jobs) : jobs[i] = r
    <3> DEFINE left == RemoveFirst(jobs, r)
    <3>1. /\ Len(left) = Len(jobs) - 1
          /\ \E k \in 1 .. Len(jobs) :
               /\ jobs[k] = r
               /\ \A i \in 1 .. Len(jobs) - 1 :
                    left[i] = IF i < k THEN jobs[i] ELSE jobs[i + 1]
      BY <1>1, <2>2, RemoveFirstEffect
    <3>2. jobs' = left
      BY <2>1
    <3> HIDE DEF left
    <3>3. PICK k \in 1 .. Len(jobs) :
            /\ Len(jobs') = Len(jobs) - 1
            /\ \A i \in 1 .. Len(jobs) - 1 :
                 jobs'[i] = IF i < k THEN jobs[i] ELSE jobs[i + 1]
      BY <3>1, <3>2
    <3>4. \A i \in 1 .. Len(jobs') :
            /\ i \in 1 .. Len(jobs) - 1 /\ i \in 1 .. Len(jobs) /\ i + 1 \in 1 .. Len(jobs)
      <4>1. \A n \in Nat : \A i \in 1 .. n - 1 : i \in 1 .. n /\ i + 1 \in 1 .. n
        OBVIOUS
      <4> QED BY <1>1, <3>3, <4>1, Zenon
    <3>5. \A i \in 1 .. Len(jobs') : \E j \in 1 .. Len(jobs) : jobs'[i] = jobs[j]
      <4> SUFFICES ASSUME NEW i \in 1 .. Len(jobs')
                   PROVE  \E j \in 1 .. Len(jobs) : jobs'[i] = jobs[j]
        OBVIOUS
      <4>1. jobs'[i] = IF i < k THEN jobs[i] ELSE jobs[i + 1]
        BY <3>3, <3>4
      <4> QED BY <3>4, <4>1
    <3> QED BY <3>5 DEF JobsSubmitted
  <2>3. CASE ~ \E i \in 1 .. Len(jobs) : jobs[i] = r
    BY <2>1, <2>3 DEF RemoveFirst, JobsSubmitted
  <2> QED BY <2>2, <2>3
<1> QED BY <1>2, <1>3, <1>4, <1>5 DEF SetEvent, Abandon, GetReturns, CancelPuts

-----------------------------------------------------------------------------
(* Every step keeps the invariant.                                         *)

Rest == Accepted /\ JobsSubmitted /\ ClosedMeansReleased /\ NoLostWakeup

LEMMA ThreadKeeps ==
  ASSUME Inv, Thread \/ StepRaises
  PROVE  Rest'
<1>1. /\ UNCHANGED <<phase, client, jobs>> /\ queues' \subseteq queues
      /\ pc' = "wait" => Live = {}
  BY ThreadEffect
<1>2. Accepted' /\ JobsSubmitted'
  BY <1>1 DEF Inv, Accepted, JobsSubmitted
<1>3. ClosedMeansReleased'
  BY <1>1 DEF Inv, ClosedMeansReleased
<1>4. NoLostWakeup'
  BY <1>1 DEF NoLostWakeup, Live
<1> QED BY <1>2, <1>3, <1>4 DEF Rest

LEMMA StepYieldsKeeps ==
  ASSUME Inv, NEW r \in Requests, StepYields(r)
  PROVE  Rest'
<1>1. /\ UNCHANGED <<client, jobs, queues, wake, pc>> /\ pc = "step"
      /\ phase[r] = "live"
      /\ phase' = phase \/ phase' = [phase EXCEPT ![r] = "done"]
  BY StepYieldsEffect DEF Inv
<1>2. phase \in [Requests -> {"new", "live", "done"}]
  BY DEF Inv, Typed, TypeOK
<1>3. Accepted' /\ JobsSubmitted'
  BY <1>1, <1>2 DEF Inv, Accepted, JobsSubmitted
<1>4. ClosedMeansReleased'
  BY <1>1, <1>2 DEF Inv, ClosedMeansReleased
<1>5. NoLostWakeup'
  BY <1>1 DEF NoLostWakeup
<1> QED BY <1>3, <1>4, <1>5 DEF Rest

LEMMA MoveKeeps ==
  ASSUME Inv, NEW r \in Requests,
         \/ SetEvent(r) \/ Abandon(r) \/ AwaitItem(r) \/ WorkerTakes
         \/ GetReturns(r) \/ Disconnect(r) \/ CancelPuts(r)
  PROVE  Rest'
<1>1. /\ client \in [Requests -> ClientStates] /\ jobs' \in Seq(Requests)
      /\ Typed /\ JobsSubmitted
  BY MoveEffect, GetType, ClientType DEF Inv, Typed, TypeOK
<1>2. /\ UNCHANGED <<phase, queues, pc>>
      /\ client' = client
         \/ \E x \in Requests : \E state \in Onward :
              /\ client[x] \notin NotAccepted
              /\ state \in {"sentinel", "closed"} => client[x] = "sentinel"
              /\ client[x] = "signal" => wake'
              /\ client' = [client EXCEPT ![x] = state]
      /\ wake => wake'
  BY <1>1, MoveEffect
<1>3. \A i \in 1 .. Len(jobs') : client[jobs'[i]] \notin Early /\ jobs'[i] \in Requests
  BY <1>1, JobsEffect, ElementOfSeq
<1>4. CASE client' = client
  <2>1. Accepted' /\ JobsSubmitted'
    BY <1>2, <1>3, <1>4 DEF Inv, Accepted, JobsSubmitted
  <2>2. ClosedMeansReleased' /\ NoLostWakeup'
    BY <1>2, <1>4 DEF Inv, ClosedMeansReleased, NoLostWakeup, Live
  <2> QED BY <2>1, <2>2 DEF Rest
<1>5. CASE \E x \in Requests : \E state \in Onward :
             /\ client[x] \notin NotAccepted
             /\ state \in {"sentinel", "closed"} => client[x] = "sentinel"
             /\ client[x] = "signal" => wake'
             /\ client' = [client EXCEPT ![x] = state]
  <2>1. PICK x \in Requests, state \in Onward :
             /\ client[x] \notin NotAccepted
             /\ state \in {"sentinel", "closed"} => client[x] = "sentinel"
             /\ client[x] = "signal" => wake'
             /\ client' = [client EXCEPT ![x] = state]
    BY <1>5
  <2>2. \A y \in Requests : client'[y] = IF y = x THEN state ELSE client[y]
    BY <1>1, <2>1
  <2>3. Accepted'
    BY <1>2, <2>1, <2>2 DEF Inv, Accepted, Onward, Early, NotAccepted
  <2>4. JobsSubmitted'
    BY <1>3, <2>1, <2>2 DEF JobsSubmitted, Onward
  <2>5. ClosedMeansReleased'
    BY <1>2, <2>1, <2>2 DEF Inv, ClosedMeansReleased
  <2>6. NoLostWakeup'
    BY <1>2, <2>1, <2>2 DEF Inv, NoLostWakeup, Live
  <2> QED BY <2>3, <2>4, <2>5, <2>6 DEF Rest
<1> QED BY <1>2, <1>4, <1>5

\* submit(): the new request is announced by a client about to set the event.
LEMMA SubmitKeeps ==
  ASSUME Inv, NEW r \in Requests, Submit(r)
  PROVE  Rest'
<1>1. /\ client \in [Requests -> ClientStates]
      /\ phase \in [Requests -> {"new", "live", "done"}]
      /\ jobs \in Seq(Requests)
  BY DEF Inv, Typed, TypeOK
<1>2. /\ UNCHANGED <<jobs, wake, pc>> /\ queues' = queues \cup {r}
      /\ client[r] = "new"
      /\ \/ client' = [client EXCEPT ![r] = "signal"] /\ phase' = [phase EXCEPT ![r] = "live"]
         \/ client' = [client EXCEPT ![r] = "rejected"] /\ phase' = phase
  BY DEF Submit, Engine!Submit, Goto
<1>3. \A y \in Requests \ {r} : client'[y] = client[y] /\ phase'[y] = phase[y]
  BY <1>1, <1>2
<1>4. \/ client'[r] = "signal" /\ phase'[r] = "live"
      \/ client'[r] = "rejected" /\ phase'[r] = phase[r] /\ phase' = phase
  BY <1>1, <1>2
<1>5. Accepted'
  BY <1>2, <1>3, <1>4 DEF Inv, Accepted, NotAccepted
<1>6. JobsSubmitted'
  <2>1. \A i \in 1 .. Len(jobs) : jobs[i] \in Requests \ {r}
    BY <1>1, <1>2, ElementOfSeq DEF Inv, JobsSubmitted, Early, NotAccepted
  <2> QED BY <1>2, <1>3, <2>1 DEF Inv, JobsSubmitted
<1>7. ClosedMeansReleased'
  BY <1>2, <1>3, <1>4 DEF Inv, ClosedMeansReleased
<1>8. NoLostWakeup'
  <2>1. CASE client'[r] = "signal"
    BY <2>1 DEF NoLostWakeup
  <2>2. CASE client'[r] # "signal"
    BY <1>2, <1>3, <1>4, <2>2 DEF Inv, NoLostWakeup, Live
  <2> QED BY <2>1, <2>2
<1> QED BY <1>5, <1>6, <1>7, <1>8 DEF Rest

\* cancel(): whatever was going on, the request is out of the engine now.
LEMMA CancelKeeps ==
  ASSUME Inv, NEW r \in Requests, Cancel(r)
  PROVE  Rest'
<1>1. /\ client \in [Requests -> ClientStates]
      /\ phase \in [Requests -> {"new", "live", "done"}]
      /\ jobs \in Seq(Requests)
  BY DEF Inv, Typed, TypeOK
<1>2. /\ UNCHANGED <<jobs, wake, pc>> /\ queues' = queues \ {r}
      /\ client[r] = "closing"
      /\ \E state \in {"sentinel", "closed"} : client' = [client EXCEPT ![r] = state]
      /\ IF phase[r] = "live" THEN phase' = [phase EXCEPT ![r] = "done"] ELSE phase' = phase
  BY DEF Cancel, Engine!Cancel, Goto
<1>3. phase'[r] = "done"
  BY <1>1, <1>2 DEF Inv, Accepted, NotAccepted
<1>4. client'[r] \in {"sentinel", "closed"}
  BY <1>1, <1>2
<1>5. \A y \in Requests \ {r} : client'[y] = client[y] /\ phase'[y] = phase[y]
  BY <1>1, <1>2
<1>6. Accepted'
  BY <1>3, <1>4, <1>5 DEF Inv, Accepted, NotAccepted
<1>7. JobsSubmitted'
  <2>1. \A i \in 1 .. Len(jobs) : jobs[i] \in Requests
    BY <1>1, ElementOfSeq
  <2> QED BY <1>2, <1>4, <1>5, <2>1 DEF Inv, JobsSubmitted, Early, NotAccepted
<1>8. ClosedMeansReleased'
  BY <1>2, <1>3, <1>5 DEF Inv, ClosedMeansReleased
<1>9. NoLostWakeup'
  BY <1>2, <1>3, <1>5 DEF Inv, NoLostWakeup, Live
<1> QED BY <1>6, <1>7, <1>8, <1>9 DEF Rest

\* shutdown() and stuttering.
LEMMA IdleKeeps ==
  ASSUME Inv, Shutdown \/ UNCHANGED vars
  PROVE  Rest'
<1>1. UNCHANGED <<phase, client, jobs, queues, pc>> /\ (wake => wake')
  BY DEF Shutdown, vars
<1>2. Accepted' /\ JobsSubmitted'
  BY <1>1 DEF Inv, Accepted, JobsSubmitted
<1>3. ClosedMeansReleased' /\ NoLostWakeup'
  BY <1>1 DEF Inv, ClosedMeansReleased, NoLostWakeup, Live
<1> QED BY <1>2, <1>3 DEF Rest

LEMMA NextInv == Inv /\ [Next]_vars => Inv'
<1> SUFFICES ASSUME Inv, [Next]_vars PROVE Inv'
  OBVIOUS
<1>1. CASE Thread
  <2>1. Typed'
    BY <1>1, MoveType, CrashType, DeliverType DEF Inv, Thread
  <2> QED BY <1>1, <2>1, ThreadKeeps DEF Inv, Rest
<1>2. ASSUME NEW r \in Requests, StepYields(r) PROVE Inv'
  BY <1>2, StepYieldsType, StepYieldsKeeps DEF Inv, Rest
<1>3. CASE StepRaises
  BY <1>3, CrashType, ThreadKeeps DEF Inv, Rest
<1>4. ASSUME NEW r \in Requests, Submit(r) PROVE Inv'
  BY <1>4, ClientType, SubmitKeeps DEF Inv, Rest
<1>5. ASSUME NEW r \in Requests, Cancel(r) PROVE Inv'
  BY <1>5, ClientType, CancelKeeps DEF Inv, Rest
<1>6. ASSUME NEW r \in Requests, SetEvent(r) \/ Abandon(r) PROVE Inv'
  BY <1>6, ClientType, MoveKeeps DEF Inv, Rest
<1>7. ASSUME NEW r \in Requests,
             AwaitItem(r) \/ GetReturns(r) \/ Disconnect(r) \/ CancelPuts(r)
      PROVE  Inv'
  BY <1>7, GetType, MoveKeeps DEF Inv, Rest
<1>8. CASE WorkerTakes
  <2>1. PICK r \in Requests : TRUE
    BY <1>8, HeadTailProperties DEF WorkerTakes, Inv, Typed, TypeOK
  <2> QED BY <1>8, <2>1, GetType, MoveKeeps DEF Inv, Rest
<1>9. CASE Shutdown
  <2>1. Typed'
    BY <1>9 DEF Shutdown, Inv, Typed, TypeOK, HoldsOutput
  <2> QED BY <1>9, <2>1, IdleKeeps DEF Inv, Rest
<1>10. CASE UNCHANGED vars
  <2>1. Typed'
    BY <1>10 DEF vars, Inv, Typed, TypeOK, HoldsOutput
  <2> QED BY <1>10, <2>1, IdleKeeps DEF Inv, Rest
<1> QED BY <1>1, <1>2, <1>3, <1>4, <1>5, <1>6, <1>7, <1>8, <1>9, <1>10 DEF Next, Task

THEOREM InvHolds == Spec => []Inv
<1>1. Init => Inv
  BY InitInv
<1>2. Inv /\ [Next]_vars => Inv'
  BY NextInv
<1> QED BY <1>1, <1>2, PTL DEF Spec

(***************************************************************************)
(* Every variable keeps its type, whatever the interleaving of the engine  *)
(* thread, the executor and the clients (class AsyncEngine).               *)
(***************************************************************************)
THEOREM TypeCorrect == Spec => []TypeOK
<1>1. Inv => TypeOK
  BY DEF Inv, Typed
<1> QED BY <1>1, InvHolds, PTL

(***************************************************************************)
(* A stream that was left is out of the engine and its queue forgotten:    *)
(* cancel() in stream()'s `finally', against every step of the thread.     *)
(***************************************************************************)
THEOREM ClosedMeansReleasedHolds == Spec => []ClosedMeansReleased
<1>1. Inv => ClosedMeansReleased
  BY DEF Inv
<1> QED BY <1>1, InvHolds, PTL

(***************************************************************************)
(* Clearing the event in _run never wipes out the announcement of a        *)
(* request: a waiting thread with work to do finds it set, or is about to. *)
(***************************************************************************)
THEOREM NoLostWakeupHolds == Spec => []NoLostWakeup
<1>1. Inv => NoLostWakeup
  BY DEF Inv
<1> QED BY <1>1, InvHolds, PTL

-----------------------------------------------------------------------------
(* Delivery: what becomes of every output and of the end of a stream.      *)

\* The thread has put an output that was the last one of its request.
Ending == pc \in {"end", "pop"}

\* step()'s result: the newest output of its request, at most one a request.
OutputsTell ==
    /\ \A i \in 1 .. Len(outputs) :
         /\ outputs[i].kind = "output"
         /\ phase[outputs[i].req] # "new"
         /\ outputs[i].n = emitted[outputs[i].req]
         /\ outputs[i].finished =>
              phase[outputs[i].req] = "done" /\ reason[outputs[i].req] \in Endings
    /\ \A i, j \in 1 .. Len(outputs) : outputs[i].req = outputs[j].req => i = j
    /\ Ending => Head(outputs).finished

\* The executor's queue holds one job of each client that waits for it.
JobsQueued ==
    /\ \A i \in 1 .. Len(jobs) : client[jobs[i]] = "queued"
    /\ \A i, j \in 1 .. Len(jobs) : jobs[i] = jobs[j] => i = j

\* stream()'s finally has begun.
Gone == {"closing", "sentinel", "closed"}

\* A running q.get belongs to a client that awaits it or has left.
BusyGetting == \A r \in busy : client[r] \in Gone \cup {"getting"}

Fresh ==
    \A r \in Requests : client[r] = "new" =>
      /\ queue[r] = << >> /\ received[r] = 0 /\ emitted[r] = 0 /\ ended[r] = ""
      /\ r \notin queues /\ r \notin pending

InStep(r) == \E i \in 1 .. Len(outputs) : outputs[i].req = r

\* step() returned an output of r that the thread has not put yet.
Due(r) == InStep(r) /\ (Ending => Head(outputs).req # r)

Registered(r) == r \in queues \/ (phase[r] = "done" /\ ~ InStep(r))

\* r is to be given k outputs more and no other.
AllInQueue(r, k) ==
    phase[r] = "done" /\ reason[r] \in Endings /\ emitted[r] = received[r] + k

\* The i-th item of r's queue is a mark, and an honest one.
Marks(r, k, i) ==
    /\ queue[r][i].kind # "output"
    /\ queue[r][i].kind = "sentinel" => AllInQueue(r, k)
    /\ queue[r][i].kind = "crash" => Failed

\* The queue of r holds its next k outputs and then nothing but marks.
Holds(r, k) ==
    /\ \A i \in 1 .. Len(queue[r]) : queue[r][i].req = r
    /\ \A i \in 1 .. k : queue[r][i].kind = "output" /\ queue[r][i].n = received[r] + i
    /\ \A i \in k + 1 .. Len(queue[r]) : Marks(r, k, i)
    /\ ~ Failed => emitted[r] = received[r] + k + (IF Due(r) THEN 1 ELSE 0)

Stream(r) ==
    client[r] \in Streaming =>
      /\ ended[r] = ""
      /\ ~ Failed => Registered(r)
      /\ \E k \in 0 .. Len(queue[r]) : Holds(r, k)

EndedHonestly ==
    \A r \in Requests :
      /\ ended[r] # "" => client[r] \in Gone
      /\ ended[r] = "end" =>
           received[r] = emitted[r] /\ phase[r] = "done" /\ reason[r] \in Endings
      /\ ended[r] = "crashed" => Failed

Delivery ==
    /\ OutputsTell
    /\ JobsQueued
    /\ BusyGetting
    /\ Fresh
    /\ \A r \in Requests : Stream(r)
    /\ EndedHonestly

LEMMA InitDelivery == Init => Delivery
<1> SUFFICES ASSUME Init PROVE Delivery
  OBVIOUS
<1>1. Len(outputs) = 0 /\ Len(jobs) = 0 /\ ~ Ending
  BY EmptySeq DEF Init, Ending
<1>2. OutputsTell /\ JobsQueued
  <2>1. \A i \in 1 .. 0 : FALSE
    OBVIOUS
  <2> QED BY <1>1, <2>1, Zenon DEF OutputsTell, JobsQueued
<1> USE DEF Init, Engine!Init
<1>3. BusyGetting /\ Fresh /\ EndedHonestly
  BY DEF BusyGetting, Fresh, EndedHonestly
<1>4. \A r \in Requests : Stream(r)
  BY DEF Stream, Streaming
<1> QED BY <1>2, <1>3, <1>4 DEF Delivery

LEMMA ItemsTyped ==
  ASSUME Typed, NEW r \in Requests
  PROVE  /\ outputs \in Seq(Items) /\ Len(outputs) \in Nat
         /\ queue[r] \in Seq(Items) /\ Len(queue[r]) \in Nat
         /\ \A i \in 1 .. Len(outputs) : outputs[i] \in Items /\ outputs[i].req \in Requests
         /\ received[r] \in Nat /\ emitted[r] \in Nat
<1>1. outputs \in Seq(Items) /\ queue[r] \in Seq(Items)
  BY DEF Typed, TypeOK
<1>2. \A i \in 1 .. Len(outputs) : outputs[i] \in Items
  BY <1>1, ElementOfSeq
<1>3. \A item \in Items : item.req \in Requests
  BY DEF Items
<1>4. received[r] \in Nat /\ emitted[r] \in Nat
  BY DEF Typed, TypeOK
<1> QED BY <1>1, <1>2, <1>3, <1>4, LenProperties

\* A step that does not touch r's stream keeps what is known of it.
LEMMA StreamKept ==
  ASSUME NEW r \in Requests, Stream(r),
         client'[r] \in Streaming => client[r] \in Streaming,
         queue'[r] = queue[r], received'[r] = received[r], emitted'[r] = emitted[r],
         ended'[r] = ended[r], phase'[r] = phase[r], reason'[r] = reason[r],
         Failed => Failed',
         ~ Failed' => (Due(r)' <=> Due(r)) /\ (Registered(r) => Registered(r)')
  PROVE  Stream(r)'
<1>1. \A k, i : Marks(r, k, i) => Marks(r, k, i)'
  BY DEF Marks, AllInQueue
<1>2. \A k : Holds(r, k) => Holds(r, k)'
  BY <1>1 DEF Holds
<1> QED BY <1>2 DEF Stream

\* The steps that move the thread or a client and nothing else.
LEMMA StillKeeps ==
  ASSUME Typed, Delivery,
         UNCHANGED <<phase, reason, emitted, queues, queue, outputs, pending>>,
         UNCHANGED <<received, ended, jobs, busy>>,
         Failed' <=> Failed, Ending' <=> Ending,
         \/ client' = client
         \/ \E x \in Requests : \E state \in {"handed", "abandoned"} :
              /\ client[x] \in {"signal", "handed"}
              /\ client' = [client EXCEPT ![x] = state]
  PROVE  Delivery'
<1>1. \A r \in Requests :
        \/ client'[r] = client[r]
        \/ client[r] \in {"signal", "handed"} /\ client'[r] \in {"handed", "abandoned"}
  BY DEF Typed, TypeOK
<1>2. OutputsTell'
  BY DEF Delivery, OutputsTell
<1>3. JobsQueued'
  <2>1. \A i \in 1 .. Len(jobs) : jobs[i] \in Requests
    BY ElementOfSeq DEF Typed, TypeOK
  <2> QED BY <1>1, <2>1 DEF Delivery, JobsQueued
<1>4. BusyGetting'
  BY <1>1 DEF Delivery, BusyGetting, Gone, Typed, TypeOK
<1>5. Fresh'
  BY <1>1 DEF Delivery, Fresh
<1>6. \A r \in Requests : Stream(r)'
  <2> SUFFICES ASSUME NEW r \in Requests PROVE Stream(r)'
    OBVIOUS
  <2>1. client'[r] \in Streaming => client[r] \in Streaming
    BY <1>1 DEF Streaming
  <2>2. (Due(r)' <=> Due(r)) /\ (Registered(r)' <=> Registered(r))
    BY DEF Due, Registered, InStep
  <2>3. Stream(r)
    BY DEF Delivery
  <2> QED BY <2>1, <2>2, <2>3, StreamKept
<1>7. EndedHonestly'
  BY <1>1 DEF Delivery, EndedHonestly, Gone
<1> QED BY <1>2, <1>3, <1>4, <1>5, <1>6, <1>7 DEF Delivery

\* What the thread's own steps leave alone of the clients.
LEMMA ClientsKept ==
  ASSUME Delivery, UNCHANGED <<client, received, ended, jobs, busy>>,
         UNCHANGED <<phase, reason, emitted>>, Failed => Failed'
  PROVE  JobsQueued' /\ BusyGetting' /\ EndedHonestly'
BY DEF Delivery, JobsQueued, BusyGetting, EndedHonestly

\* The head and the rest of step()'s result.
LEMMA OutputsSplit ==
  ASSUME Typed, outputs # << >>
  PROVE  /\ 1 \in 1 .. Len(outputs) /\ Head(outputs) = outputs[1]
         /\ Head(outputs).req \in Requests
         /\ Len(Tail(outputs)) = Len(outputs) - 1
         /\ \A i \in 1 .. Len(Tail(outputs)) :
              i + 1 \in 1 .. Len(outputs) /\ Tail(outputs)[i] = outputs[i + 1]
<1>1. outputs \in Seq(Items) /\ Len(outputs) \in Nat
  BY LenProperties DEF Typed, TypeOK
<1>2. /\ Len(Tail(outputs)) = Len(outputs) - 1
      /\ \A i \in 1 .. Len(Tail(outputs)) : Tail(outputs)[i] = outputs[i + 1]
  BY <1>1, HeadTailProperties
<1>3. Len(outputs) # 0
  BY <1>1, EmptySeq
<1>4. \A n \in Nat \ {0} : 1 \in 1 .. n /\ \A i \in 1 .. n - 1 : i + 1 \in 1 .. n
  OBVIOUS
<1>5. 1 \in 1 .. Len(outputs) /\ \A i \in 1 .. Len(Tail(outputs)) : i + 1 \in 1 .. Len(outputs)
  <2>1. Len(outputs) \in Nat \ {0}
    BY <1>1, <1>3
  <2> QED BY <1>2, <1>4, <2>1
<1>6. Head(outputs) = outputs[1]
  BY <1>1
<1> QED BY <1>2, <1>5, <1>6, HeadOutput

\* The thread is done with the head: its request is not in the rest.
LEMMA TailTells ==
  ASSUME Typed, OutputsTell, outputs # << >>, outputs' = Tail(outputs),
         UNCHANGED <<phase, reason, emitted>>, ~ Ending'
  PROVE  /\ OutputsTell'
         /\ \A r \in Requests : InStep(r)' <=> InStep(r) /\ r # Head(outputs).req
<1> PICK h \in Requests : h = Head(outputs).req
  BY OutputsSplit
<1>1. /\ 1 \in 1 .. Len(outputs) /\ outputs[1].req = h
      /\ Len(outputs') = Len(outputs) - 1 /\ Len(outputs) \in Nat
      /\ \A i \in 1 .. Len(outputs') :
           i + 1 \in 1 .. Len(outputs) /\ outputs'[i] = outputs[i + 1]
  BY OutputsSplit, LenProperties DEF Typed, TypeOK
<1>2. \A i, j \in 1 .. Len(outputs) : outputs[i].req = outputs[j].req => i = j
  BY DEF OutputsTell
<1>3. \A i \in 1 .. Len(outputs') : outputs'[i].req # h
  <2> SUFFICES ASSUME NEW i \in 1 .. Len(outputs'), outputs'[i].req = h PROVE FALSE
    OBVIOUS
  <2>1. i + 1 \in 1 .. Len(outputs) /\ outputs[i + 1].req = outputs[1].req
    BY <1>1
  <2>2. i + 1 = 1
    BY <1>1, <1>2, <2>1, Zenon
  <2> QED BY <2>2
<1>4. \A i \in 1 .. Len(outputs) :
        outputs[i].req # h => i - 1 \in 1 .. Len(outputs') /\ outputs'[i - 1] = outputs[i]
  <2> SUFFICES ASSUME NEW i \in 1 .. Len(outputs), outputs[i].req # h
               PROVE  i - 1 \in 1 .. Len(outputs') /\ outputs'[i - 1] = outputs[i]
    OBVIOUS
  <2>1. i # 1
    BY <1>1
  <2>2. i - 1 \in 1 .. Len(outputs') /\ (i - 1) + 1 = i
    BY <1>1, <2>1
  <2> QED BY <1>1, <2>2
<1>5. ASSUME NEW r \in Requests PROVE InStep(r)' <=> InStep(r) /\ r # h
  <2>1. ASSUME InStep(r)' PROVE InStep(r) /\ r # h
    <3>1. PICK i \in 1 .. Len(outputs') : outputs'[i].req = r
      BY <2>1 DEF InStep
    <3> QED BY <1>1, <1>3, <3>1 DEF InStep
  <2>2. ASSUME InStep(r), r # h PROVE InStep(r)'
    <3>1. PICK i \in 1 .. Len(outputs) : outputs[i].req = r
      BY <2>2 DEF InStep
    <3>2. i - 1 \in 1 .. Len(outputs') /\ outputs'[i - 1].req = r
      BY <1>4, <2>2, <3>1
    <3> QED BY <3>2 DEF InStep
  <2> QED BY <2>1, <2>2
<1>6. \A i \in 1 .. Len(outputs') :
        /\ outputs'[i].kind = "output"
        /\ phase[outputs'[i].req] # "new"
        /\ outputs'[i].n = emitted[outputs'[i].req]
        /\ outputs'[i].finished =>
             phase[outputs'[i].req] = "done" /\ reason[outputs'[i].req] \in Endings
  BY <1>1 DEF OutputsTell
<1>7. \A i, j \in 1 .. Len(outputs') : outputs'[i].req = outputs'[j].req => i = j
  <2> SUFFICES ASSUME NEW i \in 1 .. Len(outputs'), NEW j \in 1 .. Len(outputs'),
                      outputs'[i].req = outputs'[j].req
               PROVE  i = j
    OBVIOUS
  <2>1. /\ i + 1 \in 1 .. Len(outputs) /\ j + 1 \in 1 .. Len(outputs)
        /\ outputs[i + 1].req = outputs[j + 1].req
    BY <1>1
  <2>2. i + 1 = j + 1
    BY <1>2, <2>1, Zenon
  <2> QED BY <2>2
<1> QED BY <1>5, <1>6, <1>7 DEF OutputsTell

\* An output is dropped that nobody is registered for; the queue of one that
\* ended is popped: its request has nothing else in this step's result.
LEMMA DropKeeps ==
  ASSUME Typed, Delivery, outputs # << >>,
         outputs' = Tail(outputs), queues' \in {queues, queues \ {Head(outputs).req}},
         UNCHANGED <<phase, reason, emitted, queue, pending>>,
         UNCHANGED <<client, received, ended, jobs, busy>>,
         ~ Failed, ~ Failed', ~ Ending',
         Ending \/ Head(outputs).req \notin queues
  PROVE  Delivery'
<1> PICK h \in Requests : h = Head(outputs).req
  BY OutputsSplit
<1>1. /\ OutputsTell'
      /\ \A r \in Requests : InStep(r)' <=> InStep(r) /\ r # h
  BY TailTells DEF Delivery
<1>2. JobsQueued' /\ BusyGetting' /\ EndedHonestly'
  BY ClientsKept
<1>3. Fresh'
  BY DEF Delivery, Fresh
<1>4. InStep(h)
  BY OutputsSplit DEF InStep
<1>5. ASSUME NEW r \in Requests, client[r] \in Streaming PROVE Stream(r)'
  <2>1. Stream(r) /\ Registered(r)
    BY <1>5 DEF Delivery, Stream
  <2>2. r # h \/ Ending
    BY <1>4, <2>1 DEF Registered
  <2>3. Due(r)' <=> Due(r)
    BY <1>1, <2>2 DEF Due
  <2>4. Registered(r)'
    <3>1. CASE r = h
      <4>1. outputs[1] = Head(outputs) /\ 1 \in 1 .. Len(outputs)
        BY OutputsSplit
      <4>2. phase[h] = "done"
        BY <2>2, <3>1, <4>1 DEF Delivery, OutputsTell
      <4> QED BY <1>1, <3>1, <4>2 DEF Registered
    <3>2. CASE r # h
      BY <1>1, <2>1, <3>2 DEF Registered
    <3> QED BY <3>1, <3>2
  <2> QED BY <2>1, <2>3, <2>4, StreamKept
<1>6. \A r \in Requests : Stream(r)'
  BY <1>5 DEF Stream
<1> QED BY <1>1, <1>2, <1>3, <1>6 DEF Delivery

\* queue.put.
LEMMA PutEffect ==
  ASSUME Typed, NEW x \in Requests, NEW item \in Items, Put(x, item)
  PROVE  /\ Len(queue'[x]) = Len(queue[x]) + 1
         /\ \A i \in 1 .. Len(queue[x]) : queue'[x][i] = queue[x][i]
         /\ queue'[x][Len(queue[x]) + 1] = item
         /\ \A r \in Requests \ {x} : queue'[r] = queue[r]
<1>1. queue \in [Requests -> Seq(Items)]
  BY DEF Typed, TypeOK
<1>2. queue'[x] = Append(queue[x], item) /\ \A r \in Requests \ {x} : queue'[r] = queue[r]
  BY <1>1 DEF Put
<1>3. queue[x] \in Seq(Items)
  BY <1>1
<1>4. /\ Len(Append(queue[x], item)) = Len(queue[x]) + 1
      /\ \A i \in 1 .. Len(queue[x]) : Append(queue[x], item)[i] = queue[x][i]
      /\ Append(queue[x], item)[Len(queue[x]) + 1] = item
  BY <1>3, AppendProperties
<1> QED BY <1>2, <1>4

\* A mark put behind the items of a queue, when it tells the truth.
LEMMA MarkKeeps ==
  ASSUME Typed, NEW x \in Requests, NEW item \in Items, Put(x, item), item.req = x,
         Stream(x), client'[x] = client[x],
         received'[x] = received[x], emitted'[x] = emitted[x],
         ended'[x] = ended[x], phase'[x] = phase[x], reason'[x] = reason[x],
         Failed => Failed',
         ~ Failed' => (Due(x)' <=> Due(x)) /\ (Registered(x) => Registered(x)'),
         item.kind # "output",
         \A k \in Nat : client[x] \in Streaming /\ Holds(x, k) =>
           /\ item.kind = "sentinel" => AllInQueue(x, k)
           /\ item.kind = "crash" => Failed
  PROVE  Stream(x)'
<1> SUFFICES ASSUME client[x] \in Streaming PROVE Stream(x)'
  BY DEF Stream
<1>1. PICK k \in 0 .. Len(queue[x]) : Holds(x, k)
  BY DEF Stream
<1>2. /\ Len(queue'[x]) = Len(queue[x]) + 1
      /\ \A i \in 1 .. Len(queue[x]) : queue'[x][i] = queue[x][i]
      /\ queue'[x][Len(queue[x]) + 1] = item
  BY PutEffect
<1>3. Len(queue[x]) \in Nat
  BY ItemsTyped
<1>4. k \in Nat /\ k \in 0 .. Len(queue'[x])
  BY <1>2, <1>3
<1>5. \A i \in 1 .. Len(queue'[x]) : i \in 1 .. Len(queue[x]) \/ i = Len(queue[x]) + 1
  BY <1>2, <1>3
<1>7. Holds(x, k)'
  <2>1. \A i \in 1 .. Len(queue'[x]) : queue'[x][i].req = x
    BY <1>1, <1>2, <1>5 DEF Holds
  <2>2. \A i \in 1 .. k : queue'[x][i].kind = "output" /\ queue'[x][i].n = received'[x] + i
    <3>1. \A i \in 1 .. k : i \in 1 .. Len(queue[x])
      BY <1>3
    <3> QED BY <1>1, <1>2, <3>1 DEF Holds
  <2>3. \A i \in k + 1 .. Len(queue'[x]) : Marks(x, k, i)'
    <3> SUFFICES ASSUME NEW i \in k + 1 .. Len(queue'[x]) PROVE Marks(x, k, i)'
      OBVIOUS
    <3>1. CASE i = Len(queue[x]) + 1
      <4>1. queue'[x][i] = item
        BY <1>2, <3>1
      <4>2. /\ item.kind = "sentinel" => AllInQueue(x, k)
            /\ item.kind = "crash" => Failed
        BY <1>1, <1>4
      <4> QED BY <4>1, <4>2 DEF Marks, AllInQueue
    <3>2. CASE i # Len(queue[x]) + 1
      <4>1. i \in k + 1 .. Len(queue[x]) /\ i \in 1 .. Len(queue[x])
        BY <1>2, <1>3, <3>2
      <4>2. Marks(x, k, i)
        BY <1>1, <4>1 DEF Holds
      <4>3. queue'[x][i] = queue[x][i]
        BY <1>2, <4>1
      <4> QED BY <4>2, <4>3 DEF Marks, AllInQueue
    <3> QED BY <3>1, <3>2
  <2>4. ~ Failed' => emitted'[x] = received'[x] + k + (IF Due(x)' THEN 1 ELSE 0)
    BY <1>1 DEF Holds
  <2> QED BY <2>1, <2>2, <2>3, <2>4 DEF Holds
<1>8. ended'[x] = "" /\ (~ Failed' => Registered(x)')
  BY DEF Stream
<1> QED BY <1>4, <1>7, <1>8 DEF Stream

\* PutOutput: no mark can be in front of an output that is still due.
LEMMA PutOutputKeeps ==
  ASSUME Inv, Delivery, PutOutput
  PROVE  Delivery'
<1> USE DEF Inv
<1>1. outputs # << >> /\ ~ Failed /\ ~ Ending /\ ~ Failed'
  BY DEF PutOutput, Typed, HoldsOutput, Failed, Ending
<1> PICK h \in Requests : h = Head(outputs).req
  BY <1>1, OutputsSplit
<1>2. Put(h, Head(outputs)) /\ Head(outputs) \in Items
  BY <1>1, HeadOutput DEF PutOutput
<1>3. /\ UNCHANGED <<phase, reason, emitted, queues, pending>>
      /\ UNCHANGED <<client, received, ended, jobs, busy>>
      /\ \/ outputs' = outputs /\ Ending' /\ Head(outputs).finished
         \/ outputs' = Tail(outputs) /\ ~ Ending'
  BY DEF PutOutput, Ending
<1>4. 1 \in 1 .. Len(outputs) /\ Head(outputs) = outputs[1] /\ InStep(h)
  BY <1>1, OutputsSplit DEF InStep
<1>5. outputs[1].kind = "output" /\ outputs[1].n = emitted[h] /\ phase[h] # "new"
  BY <1>4, Zenon DEF Delivery, OutputsTell
<1>6. OutputsTell' /\ \A r \in Requests : Due(r)' <=> Due(r) /\ r # h
  <2>1. CASE outputs' = outputs /\ Ending' /\ Head(outputs).finished
    <3>1. OutputsTell'
      BY <1>3, <2>1 DEF Delivery, OutputsTell
    <3>2. \A r \in Requests : Due(r)' <=> Due(r) /\ r # h
      BY <1>1, <2>1 DEF Due, InStep
    <3> QED BY <3>1, <3>2
  <2>2. CASE outputs' = Tail(outputs) /\ ~ Ending'
    <3>1. /\ OutputsTell'
          /\ \A r \in Requests : InStep(r)' <=> InStep(r) /\ r # h
      BY <1>1, <1>3, <2>2, TailTells DEF Delivery
    <3> QED BY <1>1, <2>2, <3>1 DEF Due
  <2> QED BY <1>3, <2>1, <2>2
<1>7. \A r \in Requests : InStep(r)' => InStep(r)
  <2>1. CASE outputs' = outputs
    BY <2>1 DEF InStep
  <2>2. CASE outputs' = Tail(outputs) /\ ~ Ending'
    BY <1>1, <1>3, <2>2, TailTells DEF Delivery
  <2> QED BY <1>3, <2>1, <2>2
<1>8. /\ Len(queue'[h]) = Len(queue[h]) + 1
      /\ \A i \in 1 .. Len(queue[h]) : queue'[h][i] = queue[h][i]
      /\ queue'[h][Len(queue[h]) + 1] = outputs[1]
      /\ \A r \in Requests \ {h} : queue'[r] = queue[r]
  BY <1>2, <1>4, PutEffect
<1>9. JobsQueued' /\ BusyGetting' /\ EndedHonestly'
  BY <1>1, <1>3, ClientsKept
<1>10. Fresh'
  <2>1. client[h] # "new"
    BY <1>5 DEF Accepted, NotAccepted
  <2> QED BY <1>3, <1>8, <2>1 DEF Delivery, Fresh
<1>11. ASSUME NEW r \in Requests, client[r] \in Streaming PROVE Stream(r)'
  <2>1. Stream(r) /\ Registered(r)
    BY <1>1, <1>11 DEF Delivery, Stream
  <2>2. Registered(r)'
    BY <1>3, <1>7, <2>1 DEF Registered
  <2>3. CASE r # h
    <3>1. Due(r)' <=> Due(r)
      BY <1>6, <2>3
    <3> QED BY <1>1, <1>3, <1>8, <2>1, <2>2, <2>3, <3>1, StreamKept
  <2>4. CASE r = h
    <3> DEFINE len == Len(queue[h])
    <3>1. PICK k \in 0 .. len : Holds(h, k)
      BY <1>11, <2>1, <2>4 DEF Stream
    <3>2. len \in Nat /\ received[h] \in Nat /\ emitted[h] \in Nat
      BY ItemsTyped
    <3>3. emitted[h] = received[h] + k + 1
      BY <1>1, <1>4, <3>1 DEF Holds, Due
    <3>4. \A i \in k + 1 .. len : FALSE
      <4> SUFFICES ASSUME NEW i \in k + 1 .. len PROVE FALSE
        OBVIOUS
      <4>1. Marks(h, k, i)
        BY <3>1 DEF Holds
      <4>2. queue[h][i].kind \notin {"output", "sentinel", "crash"}
        BY <1>1, <3>2, <3>3, <4>1 DEF Marks, AllInQueue
      <4>3. queue[h][i] \in Items
        <5>1. i \in 1 .. len /\ queue[h] \in Seq(Items)
          BY <3>2, ItemsTyped
        <5> QED BY <5>1, ElementOfSeq
      <4> QED BY <4>2, <4>3 DEF Items
    <3>5. k = len
      <4>1. k \in Nat /\ ~ (k + 1 <= len)
        BY <3>2, <3>4
      <4> QED BY <3>2, <4>1
    <3>6. Len(queue'[h]) = k + 1 /\ k + 1 \in 0 .. Len(queue'[h])
      BY <1>8, <3>2, <3>5
    <3> HIDE DEF len
    <3>7. Holds(h, k + 1)'
      <4>1. \A i \in 1 .. k + 1 : i \in 1 .. k \/ i = k + 1
        BY <3>2, <3>5
      <4>2. \A i \in 1 .. k : queue'[h][i] = queue[h][i]
        BY <1>8, <3>5 DEF len
      <4>3. queue'[h][k + 1] = outputs[1] /\ outputs[1].req = h
        BY <1>4, <1>8, <3>5 DEF len
      <4>4. \A i \in 1 .. k + 1 : queue'[h][i].req = h
        BY <3>1, <3>5, <4>1, <4>2, <4>3 DEF Holds, len
      <4>5. \A i \in 1 .. k + 1 : queue'[h][i].kind = "output" /\ queue'[h][i].n = received[h] + i
        <5> SUFFICES ASSUME NEW i \in 1 .. k + 1
                     PROVE  queue'[h][i].kind = "output" /\ queue'[h][i].n = received[h] + i
          OBVIOUS
        <5>1. CASE i \in 1 .. k
          BY <3>1, <4>2, <5>1 DEF Holds
        <5>2. CASE i = k + 1
          BY <1>5, <3>2, <3>3, <3>5, <4>3, <5>2
        <5> QED BY <4>1, <5>1, <5>2
      <4>6. \A i \in (k + 1) + 1 .. Len(queue'[h]) : FALSE
        BY <3>2, <3>5, <3>6
      <4>7. ~ Due(h)'
        BY <1>6
      <4>8. emitted'[h] = received'[h] + (k + 1) + 0
        BY <1>3, <3>2, <3>3, <3>5
      <4> QED BY <1>3, <3>6, <4>4, <4>5, <4>6, <4>7, <4>8 DEF Holds
    <3> QED BY <1>3, <2>1, <2>2, <2>4, <3>6, <3>7 DEF Stream
  <2> QED BY <2>3, <2>4
<1>12. \A r \in Requests : Stream(r)'
  BY <1>3, <1>11 DEF Stream
<1> QED BY <1>6, <1>9, <1>10, <1>12 DEF Delivery

\* PutSentinel: the last output of the request was put just before.
LEMMA PutSentinelKeeps ==
  ASSUME Inv, Delivery, PutSentinel
  PROVE  Delivery'
<1> USE DEF Inv
<1>1. outputs # << >> /\ ~ Failed /\ Ending /\ ~ Failed' /\ Ending'
  BY DEF PutSentinel, Typed, HoldsOutput, Failed, Ending
<1> PICK h \in Requests : h = Head(outputs).req
  BY <1>1, OutputsSplit
<1>2. Put(h, SENTINEL(h)) /\ SENTINEL(h) \in Items
  BY MarkIsItem DEF PutSentinel, SENTINEL
<1>3. /\ UNCHANGED <<phase, reason, emitted, queues, outputs, pending>>
      /\ UNCHANGED <<client, received, ended, jobs, busy>>
  BY DEF PutSentinel
<1>4. 1 \in 1 .. Len(outputs) /\ Head(outputs) = outputs[1]
  BY <1>1, OutputsSplit
<1>5. phase[h] = "done" /\ reason[h] \in Endings
  <2>1. outputs[1].finished /\ outputs[1].req = h
    BY <1>1, <1>4 DEF Delivery, OutputsTell
  <2> QED BY <1>4, <2>1, Zenon DEF Delivery, OutputsTell
<1>6. OutputsTell'
  BY <1>1, <1>3 DEF Delivery, OutputsTell
<1>7. JobsQueued' /\ BusyGetting' /\ EndedHonestly'
  BY <1>1, <1>3, ClientsKept
<1>8. \A r \in Requests \ {h} : queue'[r] = queue[r]
  BY <1>2, PutEffect
<1>9. Fresh'
  <2>1. client[h] # "new"
    BY <1>5 DEF Accepted, NotAccepted
  <2> QED BY <1>3, <1>8, <2>1 DEF Delivery, Fresh
<1>10. ASSUME NEW r \in Requests PROVE Stream(r)'
  <2>1. Stream(r) /\ (Due(r)' <=> Due(r)) /\ (Registered(r)' <=> Registered(r))
    BY <1>1, <1>3 DEF Delivery, Due, Registered, InStep
  <2>2. CASE r # h
    BY <1>1, <1>3, <1>8, <2>1, <2>2, StreamKept
  <2>3. CASE r = h
    <3>1. \A k \in Nat : Holds(h, k) => AllInQueue(h, k)
      <4> SUFFICES ASSUME NEW k \in Nat, Holds(h, k) PROVE AllInQueue(h, k)
        OBVIOUS
      <4>1. ~ Due(h)
        BY <1>1 DEF Due
      <4>2. emitted[h] = received[h] + k + 0
        BY <1>1, <4>1 DEF Holds
      <4>3. received[h] \in Nat
        BY ItemsTyped
      <4> QED BY <1>5, <4>2, <4>3 DEF AllInQueue
    <3>2. SENTINEL(h).kind = "sentinel" /\ SENTINEL(h).req = h
      BY DEF SENTINEL, Mark
    <3>3. Stream(h)
      BY <2>1, <2>3
    <3>4. (Due(h)' <=> Due(h)) /\ (Registered(h)' <=> Registered(h))
      BY <2>1, <2>3
    <3>5. Stream(h)'
      BY <1>1, <1>2, <1>3, <3>1, <3>2, <3>3, <3>4, MarkKeeps
    <3> QED BY <2>3, <3>5
  <2> QED BY <2>2, <2>3
<1> QED BY <1>6, <1>7, <1>9, <1>10 DEF Delivery

\* A row of step(): the new output is the next one of its request.
LEMMA StepYieldsDelivers ==
  ASSUME Inv, Delivery, NEW x \in Requests, StepYields(x)
  PROVE  Delivery'
<1> USE DEF Inv
<1>1. /\ UNCHANGED <<queues, queue, pending>> /\ ~ InStep(x)
      /\ UNCHANGED <<client, received, ended, jobs, busy>>
      /\ ~ Failed /\ ~ Failed' /\ ~ Ending /\ ~ Ending'
      /\ phase[x] = "live"
  BY DEF StepYields, InStep, Failed, Ending, Engine!EmitMore, Engine!EmitLast
<1>2. PICK last \in BOOLEAN :
        /\ outputs' = Append(outputs, Output(x, emitted'[x], last))
        /\ last => phase'[x] = "done" /\ reason'[x] \in Endings
        /\ emitted' = [emitted EXCEPT ![x] = @ + 1]
        /\ phase'[x] # "new"
        /\ \A r \in Requests \ {x} : phase'[r] = phase[r] /\ reason'[r] = reason[r]
  <2>1. /\ phase \in [Requests -> {"new", "live", "done"}]
        /\ reason \in [Requests -> {"none", "cancelled", "eot", "length", "stop"}]
    BY DEF Typed, TypeOK
  <2>2. CASE Engine!EmitMore(x) /\ outputs' = Append(outputs, Output(x, emitted'[x], FALSE))
    BY <2>2 DEF Engine!EmitMore
  <2>3. CASE /\ \E why \in Endings : Engine!EmitLast(x, why)
             /\ outputs' = Append(outputs, Output(x, emitted'[x], TRUE))
    BY <2>1, <2>3 DEF Engine!EmitLast
  <2> QED BY <2>2, <2>3 DEF StepYields
<1>3. /\ emitted'[x] = emitted[x] + 1
      /\ \A r \in Requests \ {x} : emitted'[r] = emitted[r]
  BY <1>2 DEF Typed
<1>4. /\ Len(outputs') = Len(outputs) + 1 /\ Len(outputs) \in Nat
      /\ \A i \in 1 .. Len(outputs) : outputs'[i] = outputs[i]
      /\ outputs'[Len(outputs) + 1] = Output(x, emitted'[x], last)
  <2>1. Output(x, emitted'[x], last) \in Items /\ outputs \in Seq(Items)
    BY <1>3, ItemsTyped, OutputIsItem
  <2> QED BY <1>2, <2>1, AppendProperties, LenProperties
<1>5. \A i \in 1 .. Len(outputs') : i \in 1 .. Len(outputs) \/ i = Len(outputs) + 1
  BY <1>4
<1>6. \A i \in 1 .. Len(outputs) : outputs[i].req # x /\ outputs[i].req \in Requests
  BY <1>1, ItemsTyped DEF InStep
<1>7. OutputsTell'
  <2>1. \A i \in 1 .. Len(outputs) : outputs'[i].req \in Requests \ {x} /\ outputs'[i].req = outputs[i].req
    BY <1>4, <1>6
  <2>2. \A i \in 1 .. Len(outputs) :
          /\ outputs'[i].kind = "output"
          /\ phase'[outputs'[i].req] # "new"
          /\ outputs'[i].n = emitted'[outputs'[i].req]
          /\ outputs'[i].finished =>
               phase'[outputs'[i].req] = "done" /\ reason'[outputs'[i].req] \in Endings
    BY <1>2, <1>3, <1>4, <1>6 DEF Delivery, OutputsTell
  <2>3. \A i : i = Len(outputs) + 1 =>
          /\ outputs'[i].kind = "output" /\ outputs'[i].req = x
          /\ outputs'[i].n = emitted'[x]
          /\ outputs'[i].finished => phase'[x] = "done" /\ reason'[x] \in Endings
    BY <1>2, <1>4 DEF Output
  <2>4. \A i \in 1 .. Len(outputs') :
          /\ outputs'[i].kind = "output"
          /\ phase'[outputs'[i].req] # "new"
          /\ outputs'[i].n = emitted'[outputs'[i].req]
          /\ outputs'[i].finished =>
               phase'[outputs'[i].req] = "done" /\ reason'[outputs'[i].req] \in Endings
    <3> SUFFICES ASSUME NEW i \in 1 .. Len(outputs') PROVE
          /\ outputs'[i].kind = "output"
          /\ phase'[outputs'[i].req] # "new"
          /\ outputs'[i].n = emitted'[outputs'[i].req]
          /\ outputs'[i].finished =>
               phase'[outputs'[i].req] = "done" /\ reason'[outputs'[i].req] \in Endings
      OBVIOUS
    <3>1. CASE i \in 1 .. Len(outputs)
      BY <2>2, <3>1
    <3>2. CASE i = Len(outputs) + 1
      <4>1. outputs'[i].req = x
        BY <2>3, <3>2
      <4> QED BY <1>2, <2>3, <3>2, <4>1
    <3> QED BY <1>5, <3>1, <3>2
  <2>5. \A i, j \in 1 .. Len(outputs') : outputs'[i].req = outputs'[j].req => i = j
    <3>1. \A i, j \in 1 .. Len(outputs) : outputs'[i].req = outputs'[j].req => i = j
      BY <1>4 DEF Delivery, OutputsTell
    <3> QED BY <1>5, <2>1, <2>3, <3>1, Zenon
  <2> QED BY <1>1, <2>4, <2>5 DEF OutputsTell
<1>8. \A r \in Requests : InStep(r)' <=> InStep(r) \/ r = x
  <2>1. Len(outputs) + 1 \in 1 .. Len(outputs') /\ outputs'[Len(outputs) + 1].req = x
    BY <1>4 DEF Output
  <2>2. \A i \in 1 .. Len(outputs) : i \in 1 .. Len(outputs') /\ outputs'[i].req = outputs[i].req
    BY <1>4
  <2> QED BY <1>5, <2>1, <2>2, Zenon DEF InStep
<1>9. JobsQueued' /\ BusyGetting'
  BY <1>1 DEF Delivery, JobsQueued, BusyGetting
<1>10. Fresh'
  <2>1. client[x] # "new"
    BY <1>1 DEF Accepted, NotAccepted
  <2> QED BY <1>1, <1>3, <2>1 DEF Delivery, Fresh
<1>11. EndedHonestly'
  <2> SUFFICES ASSUME NEW r \in Requests PROVE
        /\ ended'[r] # "" => client'[r] \in Gone
        /\ ended'[r] = "end" =>
             received'[r] = emitted'[r] /\ phase'[r] = "done" /\ reason'[r] \in Endings
        /\ ended'[r] = "crashed" => Failed'
    BY DEF EndedHonestly
  <2>1. CASE r = x
    BY <1>1, <2>1 DEF Delivery, EndedHonestly
  <2>2. CASE r # x
    BY <1>1, <1>2, <1>3, <2>2 DEF Delivery, EndedHonestly
  <2> QED BY <2>1, <2>2
<1>12. ASSUME NEW r \in Requests, client[r] \in Streaming PROVE Stream(r)'
  <2>1. Stream(r) /\ Registered(r)
    BY <1>1, <1>12 DEF Delivery, Stream
  <2>2. CASE r # x
    <3>1. (Due(r)' <=> Due(r)) /\ (Registered(r)' <=> Registered(r))
      BY <1>1, <1>2, <1>8, <2>2 DEF Due, Registered
    <3> QED BY <1>1, <1>2, <1>3, <2>1, <2>2, <3>1, StreamKept
  <2>3. CASE r = x
    <3>1. Registered(x)'
      BY <1>1, <2>1, <2>3 DEF Registered
    <3>2. PICK k \in 0 .. Len(queue[x]) : Holds(x, k)
      BY <1>12, <2>1, <2>3 DEF Stream
    <3>3. ~ Due(x) /\ Due(x)'
      BY <1>1, <1>8 DEF Due
    <3>4. received[x] \in Nat /\ emitted[x] \in Nat /\ k \in Nat
      BY ItemsTyped
    <3>5. emitted[x] = received[x] + k + 0
      BY <1>1, <3>2, <3>3 DEF Holds
    <3>6. emitted'[x] = received[x] + k + 1
      BY <1>3, <3>4, <3>5
    <3>7. \A i : Marks(x, k, i) => Marks(x, k, i)'
      BY <1>1 DEF Marks, AllInQueue
    <3>8. Holds(x, k)'
      BY <1>1, <3>2, <3>3, <3>6, <3>7 DEF Holds
    <3> QED BY <1>1, <2>1, <2>3, <3>1, <3>2, <3>8 DEF Stream
  <2> QED BY <2>2, <2>3
<1>13. \A r \in Requests : Stream(r)'
  BY <1>1, <1>12 DEF Stream
<1> QED BY <1>7, <1>9, <1>10, <1>11, <1>13 DEF Delivery

\* An exception takes step()'s result with it; no stream ends well after it.
LEMMA CrashKeeps ==
  ASSUME Inv, Delivery, StepRaises \/ TakePending
  PROVE  Delivery'
<1>1. /\ UNCHANGED <<phase, reason, emitted, queue>>
      /\ UNCHANGED <<client, received, ended, jobs, busy>>
      /\ Failed' /\ ~ Ending' /\ queues' \subseteq queues /\ pending' \subseteq pending \cup queues
      /\ outputs' \in {<< >>, outputs}
  BY DEF StepRaises, TakePending, Failed, Ending
<1>2. OutputsTell'
  <2>1. Len(<< >>) = 0 /\ \A i \in 1 .. 0 : FALSE
    BY EmptySeq
  <2>2. CASE outputs' = << >>
    BY <1>1, <2>1, <2>2, Zenon DEF OutputsTell
  <2>3. CASE outputs' = outputs
    BY <1>1, <2>3 DEF Delivery, OutputsTell
  <2> QED BY <1>1, <2>2, <2>3
<1>3. JobsQueued' /\ BusyGetting' /\ EndedHonestly'
  BY <1>1, ClientsKept
<1>4. Fresh'
  BY <1>1 DEF Delivery, Fresh
<1>5. \A r \in Requests : Stream(r)'
  BY <1>1, StreamKept DEF Delivery
<1> QED BY <1>2, <1>3, <1>4, <1>5 DEF Delivery

\* FailOne: EngineCrashedError behind whatever the queue holds.
LEMMA FailOneKeeps ==
  ASSUME Inv, Delivery, NEW x \in Requests, FailOne(x)
  PROVE  Delivery'
<1> USE DEF Inv
<1>1. /\ UNCHANGED <<phase, reason, emitted, queues, outputs>>
      /\ UNCHANGED <<client, received, ended, jobs, busy>>
      /\ Failed /\ Failed' /\ Ending' = Ending
      /\ Put(x, Crash(x)) /\ x \in pending /\ pending' \subseteq pending
  BY DEF FailOne, Failed, Ending
<1>2. Crash(x) \in Items /\ Crash(x).kind = "crash" /\ Crash(x).req = x
  BY MarkIsItem DEF Crash, Mark
<1>3. OutputsTell'
  BY <1>1 DEF Delivery, OutputsTell
<1>4. JobsQueued' /\ BusyGetting' /\ EndedHonestly'
  BY <1>1, ClientsKept
<1>5. \A r \in Requests \ {x} : queue'[r] = queue[r]
  BY <1>1, <1>2, PutEffect
<1>6. Fresh'
  <2>1. client[x] # "new"
    BY <1>1 DEF Delivery, Fresh
  <2> QED BY <1>1, <1>5, <2>1 DEF Delivery, Fresh
<1>7. ASSUME NEW r \in Requests PROVE Stream(r)'
  <2>1. CASE r # x
    BY <1>1, <1>5, <2>1, StreamKept DEF Delivery
  <2>2. CASE r = x
    BY <1>1, <1>2, <2>2, MarkKeeps DEF Delivery
  <2> QED BY <2>1, <2>2
<1> QED BY <1>3, <1>4, <1>6, <1>7 DEF Delivery

\* submit(): the stream begins with nothing in its queue and nothing due.
LEMMA SubmitDelivers ==
  ASSUME Inv, Delivery, NEW x \in Requests, Submit(x)
  PROVE  Delivery'
<1> USE DEF Inv
<1>1. /\ UNCHANGED <<emitted, reason, queue, outputs, pending>>
      /\ UNCHANGED <<received, ended, jobs, busy>>
      /\ (Failed' <=> Failed) /\ (Ending' <=> Ending)
      /\ client[x] = "new" /\ queues' = queues \cup {x}
      /\ phase[x] = "new"
  BY DEF Submit, Engine!Submit, Failed, Ending, Accepted, NotAccepted
<1>2. /\ client'[x] \in {"signal", "rejected"}
      /\ \A r \in Requests \ {x} : client'[r] = client[r] /\ phase'[r] = phase[r]
  BY DEF Submit, Engine!Submit, Goto, Typed, TypeOK
<1>3. \A i \in 1 .. Len(outputs) : outputs[i].req \in Requests \ {x}
  BY <1>1, ItemsTyped DEF Delivery, OutputsTell
<1>4. OutputsTell'
  BY <1>1, <1>2, <1>3 DEF Delivery, OutputsTell
<1>5. JobsQueued'
  <2>1. \A i \in 1 .. Len(jobs) : jobs[i] \in Requests \ {x}
    <3>1. \A i \in 1 .. Len(jobs) : jobs[i] \in Requests
      BY ElementOfSeq DEF Typed, TypeOK
    <3> QED BY <1>1, <3>1 DEF Delivery, JobsQueued
  <2> QED BY <1>1, <1>2, <2>1 DEF Delivery, JobsQueued
<1>6. BusyGetting'
  <2>1. busy \subseteq Requests \ {x}
    BY <1>1 DEF Delivery, BusyGetting, Gone, Typed, TypeOK
  <2> QED BY <1>1, <1>2, <2>1 DEF Delivery, BusyGetting
<1>7. Fresh'
  BY <1>1, <1>2 DEF Delivery, Fresh
<1>8. EndedHonestly'
  BY <1>1, <1>2 DEF Delivery, EndedHonestly, Fresh
<1>9. ASSUME NEW r \in Requests PROVE Stream(r)'
  <2>1. ~ InStep(x) /\ InStep(r)' = InStep(r) /\ Due(r)' = Due(r)
    BY <1>1, <1>3 DEF InStep, Due
  <2>2. CASE r # x
    <3>1. Registered(r) => Registered(r)'
      BY <1>1, <1>2, <2>1, <2>2 DEF Registered
    <3> QED BY <1>1, <1>2, <2>1, <2>2, <3>1, StreamKept DEF Delivery
  <2>3. CASE r = x
    <3>1. queue'[x] = << >> /\ received'[x] = 0 /\ emitted'[x] = 0 /\ ended'[x] = ""
      BY <1>1 DEF Delivery, Fresh
    <3>2. Registered(x)' /\ ~ Due(x)'
      BY <1>1, <2>1, <2>3 DEF Registered, Due
    <3>3. Len(queue'[x]) = 0
      BY <3>1, EmptySeq, Zenon
    <3>4. /\ 0 \in 0 .. 0 /\ 0 = 0 + 0 + 0
          /\ (\A i \in 1 .. 0 : FALSE) /\ (\A i \in 0 + 1 .. 0 : FALSE)
      OBVIOUS
    <3>5. Holds(x, 0)'
      BY <3>1, <3>2, <3>3, <3>4, Zenon DEF Holds
    <3>6. \E k \in 0 .. Len(queue'[x]) : Holds(x, k)'
      BY <3>3, <3>4, <3>5, Zenon
    <3> QED BY <2>3, <3>1, <3>2, <3>6 DEF Stream
  <2> QED BY <2>2, <2>3
<1> QED BY <1>4, <1>5, <1>6, <1>7, <1>8, <1>9 DEF Delivery

\* cancel(): the stream is over, its finished outputs stay what they were.
LEMMA CancelDelivers ==
  ASSUME Inv, Delivery, NEW x \in Requests, Cancel(x)
  PROVE  Delivery'
<1> USE DEF Inv
<1>1. /\ UNCHANGED <<emitted, queue, outputs, pending>>
      /\ UNCHANGED <<received, ended, jobs, busy>>
      /\ (Failed' <=> Failed) /\ (Ending' <=> Ending)
      /\ client[x] = "closing" /\ queues' = queues \ {x}
  BY DEF Cancel, Engine!Cancel, Failed, Ending
<1>2. /\ client'[x] \in {"sentinel", "closed"}
      /\ phase'[x] # "new"
      /\ phase[x] = "done" => phase'[x] = "done" /\ reason'[x] = reason[x]
      /\ \A r \in Requests \ {x} :
           client'[r] = client[r] /\ phase'[r] = phase[r] /\ reason'[r] = reason[r]
  <2>1. phase[x] # "new"
    BY <1>1 DEF Accepted, NotAccepted
  <2>2. /\ client \in [Requests -> ClientStates]
        /\ phase \in [Requests -> {"new", "live", "done"}]
        /\ reason \in [Requests -> {"none", "cancelled", "eot", "length", "stop"}]
    BY DEF Typed, TypeOK
  <2> QED BY <2>1, <2>2 DEF Cancel, Engine!Cancel, Goto
<1>3. OutputsTell'
  <2>1. \A i \in 1 .. Len(outputs) : outputs[i].req \in Requests
    BY ItemsTyped
  <2>2. \A i \in 1 .. Len(outputs) :
          /\ outputs'[i].kind = "output"
          /\ phase'[outputs'[i].req] # "new"
          /\ outputs'[i].n = emitted'[outputs'[i].req]
          /\ outputs'[i].finished =>
               phase'[outputs'[i].req] = "done" /\ reason'[outputs'[i].req] \in Endings
    BY <1>1, <1>2, <2>1 DEF Delivery, OutputsTell
  <2> QED BY <1>1, <2>2 DEF Delivery, OutputsTell
<1>4. JobsQueued'
  <2>1. \A i \in 1 .. Len(jobs) : jobs[i] \in Requests \ {x}
    <3>1. \A i \in 1 .. Len(jobs) : jobs[i] \in Requests
      BY ElementOfSeq DEF Typed, TypeOK
    <3> QED BY <1>1, <3>1 DEF Delivery, JobsQueued
  <2> QED BY <1>1, <1>2, <2>1 DEF Delivery, JobsQueued
<1>5. BusyGetting'
  BY <1>1, <1>2 DEF Delivery, BusyGetting, Gone, Typed, TypeOK
<1>6. Fresh'
  BY <1>1, <1>2 DEF Delivery, Fresh
<1>7. EndedHonestly'
  BY <1>1, <1>2 DEF Delivery, EndedHonestly, Gone
<1>8. ASSUME NEW r \in Requests PROVE Stream(r)'
  <2>1. CASE r # x
    <3>1. (Due(r)' <=> Due(r)) /\ (Registered(r)' <=> Registered(r))
      BY <1>1, <1>2, <2>1 DEF Due, Registered, InStep
    <3> QED BY <1>1, <1>2, <2>1, <3>1, StreamKept DEF Delivery
  <2>2. CASE r = x
    BY <1>2, <2>2 DEF Stream, Streaming
  <2> QED BY <2>1, <2>2
<1> QED BY <1>3, <1>4, <1>5, <1>6, <1>7, <1>8 DEF Delivery

\* CancelPuts: the stream it is put for is over.
LEMMA CancelPutsDelivers ==
  ASSUME Inv, Delivery, NEW x \in Requests, CancelPuts(x)
  PROVE  Delivery'
<1> USE DEF Inv
<1>1. /\ UNCHANGED <<phase, reason, emitted, queues, outputs, pending>>
      /\ UNCHANGED <<received, ended, jobs, busy>>
      /\ (Failed' <=> Failed) /\ (Ending' <=> Ending)
      /\ client[x] = "sentinel" /\ Put(x, SENTINEL(x))
  BY DEF CancelPuts, Failed, Ending
<1>2. client'[x] = "closed" /\ \A r \in Requests \ {x} : client'[r] = client[r]
  BY DEF CancelPuts, Goto, Typed, TypeOK
<1>3. \A r \in Requests \ {x} : queue'[r] = queue[r]
  BY <1>1, MarkIsItem, PutEffect DEF SENTINEL
<1>4. OutputsTell'
  BY <1>1 DEF Delivery, OutputsTell
<1>5. JobsQueued'
  <2>1. \A i \in 1 .. Len(jobs) : jobs[i] \in Requests \ {x}
    <3>1. \A i \in 1 .. Len(jobs) : jobs[i] \in Requests
      BY ElementOfSeq DEF Typed, TypeOK
    <3> QED BY <1>1, <3>1 DEF Delivery, JobsQueued
  <2> QED BY <1>1, <1>2, <2>1 DEF Delivery, JobsQueued
<1>6. BusyGetting' /\ Fresh' /\ EndedHonestly'
  <2>1. BusyGetting'
    BY <1>1, <1>2 DEF Delivery, BusyGetting, Gone, Typed, TypeOK
  <2>2. Fresh'
    BY <1>1, <1>2, <1>3 DEF Delivery, Fresh
  <2>3. EndedHonestly'
    BY <1>1, <1>2 DEF Delivery, EndedHonestly, Gone
  <2> QED BY <2>1, <2>2, <2>3
<1>7. ASSUME NEW r \in Requests PROVE Stream(r)'
  <2>1. CASE r # x
    <3>1. (Due(r)' <=> Due(r)) /\ (Registered(r)' <=> Registered(r))
      BY <1>1 DEF Due, Registered, InStep
    <3> QED BY <1>1, <1>2, <1>3, <2>1, <3>1, StreamKept DEF Delivery
  <2>2. CASE r = x
    BY <1>2, <2>2 DEF Stream, Streaming
  <2> QED BY <2>1, <2>2
<1> QED BY <1>4, <1>5, <1>6, <1>7 DEF Delivery

-----------------------------------------------------------------------------
(* The executor and q.get.                                                 *)

LEMMA JobsTyped ==
  ASSUME Typed
  PROVE  /\ jobs \in Seq(Requests) /\ Len(jobs) \in Nat
         /\ \A i \in 1 .. Len(jobs) : jobs[i] \in Requests
BY ElementOfSeq, LenProperties DEF Typed, TypeOK

\* The steps in front of q.get: the client awaits an item, a worker takes the
\* job, the client leaves.  None of them touches a queue or the thread.
LEMMA ClientMoveKeeps ==
  ASSUME Inv, Delivery, NEW x \in Requests, NEW state \in {"queued", "getting", "closing"},
         UNCHANGED <<phase, reason, emitted, queues, queue, outputs, pending>>,
         UNCHANGED <<received, ended, pc>>,
         client[x] \in Streaming, client' = [client EXCEPT ![x] = state],
         \/ busy' = busy /\ (state # "queued" \/ x \notin busy)
         \/ busy' = busy \cup {x} /\ state = "getting",
         JobsQueued'
  PROVE  Delivery'
<1> USE DEF Inv
<1>1. client'[x] = state /\ \A r \in Requests \ {x} : client'[r] = client[r]
  BY DEF Typed, TypeOK
<1>2. OutputsTell' /\ Fresh'
  BY <1>1 DEF Delivery, OutputsTell, Fresh, Ending, Streaming
<1>3. BusyGetting'
  <2>1. busy \subseteq Requests /\ \A r \in busy : client[r] \in Gone \cup {"getting"}
    BY DEF Delivery, BusyGetting, Typed, TypeOK
  <2>2. ASSUME x \in busy PROVE state # "queued"
    <3>1. client[x] = "getting"
      BY <2>1, <2>2 DEF Gone, Streaming
    <3>2. CASE busy' = busy
      BY <2>2, <3>2
    <3>3. CASE busy' # busy
      BY <3>3
    <3> QED BY <3>2, <3>3
  <2>3. state \in Gone \cup {"getting"} \/ (x \notin busy /\ busy' = busy)
    BY <2>2 DEF Gone
  <2>4. busy' \subseteq busy \cup {x}
    OBVIOUS
  <2> QED BY <1>1, <2>1, <2>3, <2>4 DEF BusyGetting
<1>4. EndedHonestly'
  BY <1>1 DEF Delivery, EndedHonestly, Gone, Streaming, Failed
<1>5. ASSUME NEW r \in Requests PROVE Stream(r)'
  <2>1. /\ (Due(r)' <=> Due(r)) /\ (Registered(r)' <=> Registered(r))
        /\ (Failed' <=> Failed)
        /\ client'[r] \in Streaming => client[r] \in Streaming
    BY <1>1 DEF Due, Registered, InStep, Ending, Failed
  <2> QED BY <2>1, StreamKept DEF Delivery
<1> QED BY <1>2, <1>3, <1>4, <1>5 DEF Delivery

LEMMA AwaitDelivers ==
  ASSUME Inv, Delivery, NEW x \in Requests, AwaitItem(x)
  PROVE  Delivery'
<1> USE DEF Inv
<1>1. /\ client[x] \in {"handed", "open"} /\ jobs' = Append(jobs, x)
      /\ client' = [client EXCEPT ![x] = "queued"] /\ busy' = busy
      /\ UNCHANGED <<phase, reason, emitted, queues, queue, outputs, pending>>
      /\ UNCHANGED <<received, ended, pc>>
  BY DEF AwaitItem, Goto
<1>2. /\ Len(jobs') = Len(jobs) + 1 /\ Len(jobs) \in Nat
      /\ \A i \in 1 .. Len(jobs) : jobs'[i] = jobs[i] /\ jobs[i] \in Requests
      /\ jobs'[Len(jobs) + 1] = x
  BY <1>1, JobsTyped, AppendProperties
<1>3. \A i \in 1 .. Len(jobs') : i \in 1 .. Len(jobs) \/ i = Len(jobs) + 1
  BY <1>2
<1>4. client'[x] = "queued" /\ \A r \in Requests \ {x} : client'[r] = client[r]
  BY <1>1 DEF Typed, TypeOK
<1>5. \A i \in 1 .. Len(jobs) : client[jobs[i]] = "queued" /\ jobs[i] # x
  BY <1>1 DEF Delivery, JobsQueued
<1>6. \A i \in 1 .. Len(jobs') : client'[jobs'[i]] = "queued"
  BY <1>2, <1>3, <1>4, <1>5, Zenon
<1>7. \A i, j \in 1 .. Len(jobs') : jobs'[i] = jobs'[j] => i = j
  <2>1. \A i, j \in 1 .. Len(jobs) : jobs'[i] = jobs'[j] => i = j
    BY <1>2 DEF Delivery, JobsQueued
  <2>2. \A i \in 1 .. Len(jobs) : jobs'[i] # x
    BY <1>2, <1>5
  <2> QED BY <1>2, <1>3, <2>1, <2>2, Zenon
<1>8. JobsQueued'
  BY <1>6, <1>7 DEF JobsQueued
<1>9. x \notin busy /\ client[x] \in Streaming
  BY <1>1 DEF Delivery, BusyGetting, Gone, Streaming
<1> QED BY <1>1, <1>8, <1>9, ClientMoveKeeps

LEMMA WorkerDelivers ==
  ASSUME Inv, Delivery, WorkerTakes
  PROVE  Delivery'
<1> USE DEF Inv
<1>1. /\ jobs # << >> /\ jobs' = Tail(jobs)
      /\ client' = [client EXCEPT ![Head(jobs)] = "getting"]
      /\ busy' = busy \cup {Head(jobs)}
      /\ UNCHANGED <<phase, reason, emitted, queues, queue, outputs, pending>>
      /\ UNCHANGED <<received, ended, pc>>
  BY DEF WorkerTakes, Goto
<1>2. /\ Len(jobs') = Len(jobs) - 1 /\ Len(jobs) \in Nat
      /\ \A i \in 1 .. Len(jobs') : jobs'[i] = jobs[i + 1]
      /\ Len(jobs) # 0 /\ Head(jobs) = jobs[1]
  BY <1>1, JobsTyped, HeadTailProperties, EmptySeq
<1>3. 1 \in 1 .. Len(jobs) /\ \A i \in 1 .. Len(jobs') : i + 1 \in 1 .. Len(jobs) /\ i + 1 # 1
  BY <1>2
<1> PICK x \in Requests : x = Head(jobs)
  BY <1>2, <1>3, JobsTyped
<1>4. client[x] = "queued"
  BY <1>2, <1>3 DEF Delivery, JobsQueued
<1>5. client'[x] = "getting" /\ \A r \in Requests \ {x} : client'[r] = client[r]
  BY <1>1 DEF Typed, TypeOK
<1>6. \A i, j \in 1 .. Len(jobs) : jobs[i] = jobs[j] => i = j
  BY DEF Delivery, JobsQueued
<1>7. \A i \in 1 .. Len(jobs') : jobs'[i] \in Requests \ {x} /\ client[jobs'[i]] = "queued"
  <2> SUFFICES ASSUME NEW i \in 1 .. Len(jobs')
               PROVE  jobs'[i] \in Requests \ {x} /\ client[jobs'[i]] = "queued"
    OBVIOUS
  <2>1. jobs'[i] = jobs[i + 1] /\ i + 1 \in 1 .. Len(jobs) /\ i + 1 # 1
    BY <1>2, <1>3
  <2>2. jobs[i + 1] # jobs[1]
    BY <1>3, <1>6, <2>1, Zenon
  <2>3. client[jobs[i + 1]] = "queued" /\ jobs[i + 1] \in Requests
    BY <2>1, JobsTyped DEF Delivery, JobsQueued
  <2> QED BY <1>2, <2>1, <2>2, <2>3
<1>8. \A i, j \in 1 .. Len(jobs') : jobs'[i] = jobs'[j] => i = j
  <2> SUFFICES ASSUME NEW i \in 1 .. Len(jobs'), NEW j \in 1 .. Len(jobs'), jobs'[i] = jobs'[j]
               PROVE  i = j
    OBVIOUS
  <2>1. /\ i + 1 \in 1 .. Len(jobs) /\ j + 1 \in 1 .. Len(jobs)
        /\ jobs[i + 1] = jobs[j + 1]
    BY <1>2, <1>3
  <2>2. i + 1 = j + 1
    BY <1>6, <2>1, Zenon
  <2> QED BY <2>2
<1>9. JobsQueued'
  BY <1>5, <1>7, <1>8 DEF JobsQueued
<1>10. x \notin busy /\ client[x] \in Streaming
  BY <1>4 DEF Delivery, BusyGetting, Gone, Streaming
<1> QED BY <1>1, <1>9, <1>10, ClientMoveKeeps

LEMMA DisconnectDelivers ==
  ASSUME Inv, Delivery, NEW x \in Requests, Disconnect(x)
  PROVE  Delivery'
<1> USE DEF Inv
<1>1. /\ client[x] \in {"open", "queued", "getting"} /\ jobs' = RemoveFirst(jobs, x)
      /\ client' = [client EXCEPT ![x] = "closing"] /\ busy' = busy
      /\ UNCHANGED <<phase, reason, emitted, queues, queue, outputs, pending>>
      /\ UNCHANGED <<received, ended, pc>>
  BY DEF Disconnect, Goto
<1>2. client'[x] = "closing" /\ \A r \in Requests \ {x} : client'[r] = client[r]
  BY <1>1 DEF Typed, TypeOK
<1>3. JobsQueued'
  <2>1. CASE \E i \in 1 .. Len(jobs) : jobs[i] = x
    <3>1. PICK k \in 1 .. Len(jobs) :
            /\ jobs[k] = x /\ Len(jobs') = Len(jobs) - 1
            /\ \A i \in 1 .. Len(jobs) - 1 :
                 jobs'[i] = IF i < k THEN jobs[i] ELSE jobs[i + 1]
      <4> DEFINE left == RemoveFirst(jobs, x)
      <4>1. jobs \in Seq(Requests)
        BY JobsTyped
      <4>2. /\ Len(left) = Len(jobs) - 1
            /\ \E k \in 1 .. Len(jobs) :
                 /\ jobs[k] = x
                 /\ \A i \in 1 .. Len(jobs) - 1 :
                      left[i] = IF i < k THEN jobs[i] ELSE jobs[i + 1]
        BY <2>1, <4>1, RemoveFirstEffect
      <4>3. jobs' = left
        BY <1>1
      <4> HIDE DEF left
      <4> QED BY <4>2, <4>3
    <3> DEFINE at(i) == IF i < k THEN i ELSE i + 1
    <3>2. /\ Len(jobs) \in Nat
          /\ \A i \in 1 .. Len(jobs') : at(i) \in 1 .. Len(jobs) /\ at(i) # k
          /\ \A i, j \in 1 .. Len(jobs') : at(i) = at(j) => i = j
      BY <3>1, JobsTyped
    <3>3. \A i \in 1 .. Len(jobs') : jobs'[i] = jobs[at(i)]
      BY <3>1
    <3> HIDE DEF at
    <3>4. \A i, j \in 1 .. Len(jobs) : jobs[i] = jobs[j] => i = j
      BY DEF Delivery, JobsQueued
    <3>5. \A i \in 1 .. Len(jobs') : jobs'[i] \in Requests \ {x} /\ client[jobs'[i]] = "queued"
      <4> SUFFICES ASSUME NEW i \in 1 .. Len(jobs')
                   PROVE  jobs'[i] \in Requests \ {x} /\ client[jobs'[i]] = "queued"
        OBVIOUS
      <4>1. jobs'[i] = jobs[at(i)] /\ at(i) \in 1 .. Len(jobs) /\ at(i) # k
        BY <3>2, <3>3
      <4>2. jobs[at(i)] # x
        BY <3>1, <3>4, <4>1, Zenon
      <4>3. client[jobs[at(i)]] = "queued" /\ jobs[at(i)] \in Requests
        BY <4>1, JobsTyped DEF Delivery, JobsQueued
      <4> QED BY <4>1, <4>2, <4>3
    <3>6. \A i, j \in 1 .. Len(jobs') : jobs'[i] = jobs'[j] => i = j
      BY <3>2, <3>3, <3>4, Zenon
    <3> QED BY <1>2, <3>5, <3>6 DEF JobsQueued
  <2>2. CASE ~ \E i \in 1 .. Len(jobs) : jobs[i] = x
    <3>1. jobs' = jobs
      BY <1>1, <2>2 DEF RemoveFirst
    <3>2. \A i \in 1 .. Len(jobs) : jobs[i] \in Requests \ {x}
      BY <2>2, JobsTyped
    <3> QED BY <1>2, <3>1, <3>2 DEF Delivery, JobsQueued
  <2> QED BY <2>1, <2>2
<1>4. client[x] \in Streaming
  BY <1>1 DEF Streaming
<1> QED BY <1>1, <1>3, <1>4, ClientMoveKeeps

\* GetReturns takes the head of a queue: an item of the client's stream.
LEMMA GetDelivers ==
  ASSUME Inv, Delivery, NEW x \in Requests, GetReturns(x)
  PROVE  Delivery'
<1> USE DEF Inv
<1>1. /\ UNCHANGED <<phase, reason, emitted, queues, outputs, pending, pc, jobs>>
      /\ x \in busy /\ queue[x] # << >> /\ busy' = busy \ {x}
      /\ queue' = [queue EXCEPT ![x] = Tail(@)]
  BY DEF GetReturns
<1>2. /\ Len(queue'[x]) = Len(queue[x]) - 1 /\ Len(queue[x]) \in Nat
      /\ \A i \in 1 .. Len(queue'[x]) : queue'[x][i] = queue[x][i + 1]
      /\ Head(queue[x]) = queue[x][1] /\ Len(queue[x]) # 0
      /\ Head(queue[x]) \in Items
  <2>1. queue[x] \in Seq(Items) /\ queue'[x] = Tail(queue[x])
    BY <1>1 DEF Typed, TypeOK
  <2>2. /\ Len(Tail(queue[x])) = Len(queue[x]) - 1
        /\ \A i \in 1 .. Len(Tail(queue[x])) : Tail(queue[x])[i] = queue[x][i + 1]
        /\ Head(queue[x]) \in Items
    BY <1>1, <2>1, HeadTailProperties
  <2>3. Len(queue[x]) \in Nat /\ Len(queue[x]) # 0
    BY <1>1, <2>1, LenProperties, EmptySeq
  <2>4. Head(queue[x]) = queue[x][1]
    BY <2>1
  <2> QED BY <2>1, <2>2, <2>3, <2>4
<1>3. \A r \in Requests \ {x} :
        /\ client'[r] = client[r] /\ received'[r] = received[r] /\ ended'[r] = ended[r]
        /\ queue'[r] = queue[r]
  <2>1. /\ client \in [Requests -> ClientStates] /\ received \in [Requests -> Nat]
        /\ ended \in [Requests -> {"", "end", "crashed"}] /\ queue \in [Requests -> Seq(Items)]
    BY DEF Typed, TypeOK
  <2> QED BY <1>1, <2>1 DEF GetReturns, Goto
<1> DEFINE item == Head(queue[x])
<1>4. \/ client[x] # "getting" /\ UNCHANGED <<client, received, ended>>
      \/ /\ client[x] = "getting" /\ item.kind = "output"
         /\ received'[x] = received[x] + 1 /\ client'[x] = "open" /\ ended' = ended
      \/ /\ client[x] = "getting" /\ item.kind # "output" /\ received' = received
         /\ client'[x] = "closing"
         /\ ended'[x] = IF item.kind = "sentinel" THEN "end" ELSE "crashed"
  BY DEF GetReturns, Goto, Typed, TypeOK
<1> HIDE DEF item
<1>5. client[x] \in Gone \cup {"getting"}
  BY <1>1 DEF Delivery, BusyGetting
<1>6. OutputsTell'
  BY <1>1 DEF Delivery, OutputsTell, Ending
<1>7. JobsQueued'
  <2>1. \A i \in 1 .. Len(jobs) : jobs[i] \in Requests \ {x}
    BY <1>5, JobsTyped DEF Delivery, JobsQueued, Gone
  <2> QED BY <1>1, <1>3, <2>1 DEF Delivery, JobsQueued
<1>8. BusyGetting'
  BY <1>1, <1>3 DEF Delivery, BusyGetting, Typed, TypeOK
<1>9. Fresh'
  BY <1>1, <1>3, <1>4, <1>5 DEF Delivery, Fresh, Gone
<1>10. (Failed' <=> Failed) /\ \A r \in Requests : (Due(r)' <=> Due(r)) /\ (Registered(r)' <=> Registered(r))
  BY <1>1 DEF Failed, Due, Registered, InStep, Ending
<1>11. ASSUME client[x] = "getting"
       PROVE  /\ item.kind = "output" => Stream(x)'
              /\ item.kind = "sentinel" =>
                   received[x] = emitted[x] /\ phase[x] = "done" /\ reason[x] \in Endings
              /\ item.kind = "crash" => Failed
  <2>1. Stream(x) /\ client[x] \in Streaming
    BY <1>11 DEF Delivery, Streaming
  <2> DEFINE len == Len(queue[x])
  <2>2. PICK k \in 0 .. len : Holds(x, k)
    BY <2>1 DEF Stream
  <2>3. len \in Nat /\ len # 0 /\ k \in Nat /\ item = queue[x][1]
        /\ received[x] \in Nat /\ emitted[x] \in Nat
    BY <1>2, ItemsTyped DEF item
  <2>4. ASSUME item.kind # "output" PROVE k = 0 /\ Marks(x, k, 1)
    <3>1. k = 0
      <4>1. ~ (1 \in 1 .. k)
        BY <2>2, <2>3, <2>4 DEF Holds
      <4> QED BY <2>3, <4>1
    <3>2. 1 \in k + 1 .. len
      BY <2>3, <3>1
    <3> QED BY <2>2, <3>1, <3>2 DEF Holds
  <2>5. ASSUME item.kind = "sentinel"
        PROVE  received[x] = emitted[x] /\ phase[x] = "done" /\ reason[x] \in Endings
    <3>1. AllInQueue(x, 0)
      BY <2>3, <2>4, <2>5 DEF Marks
    <3> QED BY <2>3, <3>1 DEF AllInQueue
  <2>6. item.kind = "crash" => Failed
    BY <2>3, <2>4 DEF Marks
  <2>7. ASSUME item.kind = "output" PROVE Stream(x)'
    <3>1. received'[x] = received[x] + 1 /\ ended'[x] = "" /\ emitted'[x] = emitted[x]
      BY <1>1, <1>4, <1>11, <2>1, <2>7 DEF Stream
    <3>2. k # 0
      <4>1. ASSUME k = 0 PROVE FALSE
        <5>1. 1 \in k + 1 .. len
          BY <2>3, <4>1
        <5>2. Marks(x, k, 1)
          BY <2>2, <5>1 DEF Holds
        <5> QED BY <2>3, <2>7, <5>2 DEF Marks
      <4> QED BY <4>1
    <3>3. PICK m \in Nat : k = m + 1
      <4>1. k - 1 \in Nat /\ k = (k - 1) + 1
        BY <2>3, <3>2
      <4> QED BY <4>1
    <3>4. received[x] + (m + 1) = (received[x] + 1) + m
      BY <2>3
    <3>5. Len(queue'[x]) = len - 1 /\ m \in 0 .. Len(queue'[x])
      BY <1>2, <2>3, <3>3
    <3>6. \A i \in 1 .. Len(queue'[x]) : queue'[x][i] = queue[x][i + 1] /\ i + 1 \in 1 .. len
      BY <1>2, <2>3, <3>5
    <3> HIDE DEF len
    <3>7. \A i \in 1 .. Len(queue'[x]) : queue'[x][i].req = x
      BY <2>2, <3>6 DEF Holds, len
    <3>8. \A i \in 1 .. m : queue'[x][i].kind = "output" /\ queue'[x][i].n = received'[x] + i
      <4> SUFFICES ASSUME NEW i \in 1 .. m
                   PROVE  queue'[x][i].kind = "output" /\ queue'[x][i].n = received'[x] + i
        OBVIOUS
      <4>1. i + 1 \in 1 .. k /\ i \in 1 .. Len(queue'[x])
        BY <2>3, <3>3, <3>5
      <4>2. queue[x][i + 1].kind = "output" /\ queue[x][i + 1].n = received[x] + (i + 1)
        BY <2>2, <4>1 DEF Holds
      <4>3. received[x] + (i + 1) = (received[x] + 1) + i
        BY <2>3
      <4> QED BY <3>1, <3>6, <4>1, <4>2, <4>3
    <3>9. \A i \in m + 1 .. Len(queue'[x]) : Marks(x, m, i)'
      <4> SUFFICES ASSUME NEW i \in m + 1 .. Len(queue'[x]) PROVE Marks(x, m, i)'
        OBVIOUS
      <4>1. i + 1 \in k + 1 .. len /\ i \in 1 .. Len(queue'[x])
        BY <2>3, <3>3, <3>5
      <4>2. Marks(x, k, i + 1)
        BY <2>2, <4>1 DEF Holds, len
      <4>3. AllInQueue(x, k) => AllInQueue(x, m)'
        <5>1. received[x] + k = received'[x] + m
          BY <3>1, <3>3, <3>4, Zenon
        <5> QED BY <1>1, <5>1 DEF AllInQueue
      <4>4. queue'[x][i] = queue[x][i + 1]
        BY <3>6, <4>1
      <4> QED BY <1>10, <4>2, <4>3, <4>4 DEF Marks
    <3>10. ~ Failed' => emitted'[x] = received'[x] + m + (IF Due(x)' THEN 1 ELSE 0)
      <4>1. ~ Failed' => emitted'[x] = received[x] + k + (IF Due(x)' THEN 1 ELSE 0)
        BY <1>10, <2>2, <3>1 DEF Holds
      <4>2. received[x] + k = received'[x] + m
        BY <3>1, <3>3, <3>4, Zenon
      <4> QED BY <4>1, <4>2
    <3>11. Holds(x, m)'
      BY <3>7, <3>8, <3>9, <3>10 DEF Holds
    <3>12. ~ Failed' => Registered(x)'
      BY <1>10, <2>1 DEF Stream
    <3> QED BY <3>1, <3>5, <3>11, <3>12 DEF Stream
  <2> QED BY <2>5, <2>6, <2>7
<1>12. EndedHonestly'
  <2> SUFFICES ASSUME NEW r \in Requests PROVE
        /\ ended'[r] # "" => client'[r] \in Gone
        /\ ended'[r] = "end" =>
             received'[r] = emitted'[r] /\ phase'[r] = "done" /\ reason'[r] \in Endings
        /\ ended'[r] = "crashed" => Failed'
    BY DEF EndedHonestly
  <2>1. CASE r # x
    BY <1>1, <1>3, <1>10, <2>1 DEF Delivery, EndedHonestly
  <2>2. CASE client[x] # "getting"
    BY <1>1, <1>4, <1>10, <2>2 DEF Delivery, EndedHonestly
  <2>3. CASE r = x /\ client[x] = "getting"
    <3>1. item.kind \in {"output", "sentinel", "crash"}
      BY <1>2 DEF Items, item
    <3>2. ended[x] = ""
      BY <2>3 DEF Delivery, EndedHonestly, Gone
    <3> QED BY <1>1, <1>4, <1>10, <1>11, <2>3, <3>1, <3>2 DEF Gone
  <2> QED BY <2>1, <2>2, <2>3
<1>13. ASSUME NEW r \in Requests PROVE Stream(r)'
  <2>1. CASE r # x
    BY <1>1, <1>3, <1>10, <2>1, StreamKept DEF Delivery
  <2>2. CASE client[x] # "getting" /\ r = x
    BY <1>4, <1>5, <2>2 DEF Stream, Streaming, Gone
  <2>3. CASE client[x] = "getting" /\ r = x
    BY <1>4, <1>11, <2>3 DEF Stream, Streaming
  <2> QED BY <2>1, <2>2, <2>3
<1> QED BY <1>6, <1>7, <1>8, <1>9, <1>12, <1>13 DEF Delivery

LEMMA NextDelivery == Inv /\ Delivery /\ [Next]_vars => Delivery'
<1> SUFFICES ASSUME Inv, Delivery, [Next]_vars PROVE Delivery'
  OBVIOUS
<1> USE DEF Inv
<1>1. CASE \/ LookForWork \/ WaitReturns \/ ClearEvent \/ StepCalled \/ StepReturns
           \/ Delivered \/ Shutdown \/ UNCHANGED vars
  <2>1. /\ UNCHANGED <<phase, reason, emitted, queues, queue, outputs, pending>>
        /\ UNCHANGED <<received, ended, jobs, busy, client>>
        /\ (Failed' <=> Failed) /\ (Ending' <=> Ending)
    BY <1>1 DEF LookForWork, WaitReturns, ClearEvent, StepCalled, StepReturns, Delivered,
                OnlyPc, Shutdown, vars, Failed, Ending
  <2> QED BY <2>1, StillKeeps
<1>2. ASSUME NEW x \in Requests, SetEvent(x) \/ Abandon(x) PROVE Delivery'
  <2>1. /\ UNCHANGED <<phase, reason, emitted, queues, queue, outputs, pending>>
        /\ UNCHANGED <<received, ended, jobs, busy>>
        /\ (Failed' <=> Failed) /\ (Ending' <=> Ending)
        /\ \E state \in {"handed", "abandoned"} :
             /\ client[x] \in {"signal", "handed"}
             /\ client' = [client EXCEPT ![x] = state]
    BY <1>2 DEF SetEvent, Abandon, Goto, Failed, Ending
  <2> QED BY <2>1, StillKeeps
<1>3. CASE StepRaises \/ TakePending
  BY <1>3, CrashKeeps
<1>4. ASSUME NEW x \in Requests, FailOne(x) PROVE Delivery'
  BY <1>4, FailOneKeeps
<1>5. CASE Lookup \/ PopFinished
  <2>1. CASE Lookup /\ Head(outputs).req \in queues
    <3>1. /\ UNCHANGED <<phase, reason, emitted, queues, queue, outputs, pending>>
          /\ UNCHANGED <<received, ended, jobs, busy, client>>
          /\ (Failed' <=> Failed) /\ (Ending' <=> Ending)
      BY <2>1 DEF Lookup, Failed, Ending
    <3> QED BY <3>1, StillKeeps
  <2>2. CASE Lookup /\ Head(outputs).req \notin queues
    <3>1. /\ outputs # << >> /\ outputs' = Tail(outputs) /\ queues' = queues
          /\ UNCHANGED <<phase, reason, emitted, queue, pending>>
          /\ UNCHANGED <<client, received, ended, jobs, busy>>
          /\ ~ Failed /\ ~ Failed' /\ ~ Ending'
      BY <2>2 DEF Lookup, Failed, Ending
    <3> QED BY <2>2, <3>1, DropKeeps
  <2>3. CASE PopFinished
    <3>1. /\ outputs # << >> /\ outputs' = Tail(outputs)
          /\ queues' = queues \ {Head(outputs).req}
          /\ UNCHANGED <<phase, reason, emitted, queue, pending>>
          /\ UNCHANGED <<client, received, ended, jobs, busy>>
          /\ ~ Failed /\ ~ Failed' /\ Ending /\ ~ Ending'
      BY <2>3 DEF PopFinished, Failed, Ending, Typed, HoldsOutput
    <3> QED BY <3>1, DropKeeps
  <2> QED BY <1>5, <2>1, <2>2, <2>3
<1>6. CASE PutOutput
  BY <1>6, PutOutputKeeps
<1>7. CASE PutSentinel
  BY <1>7, PutSentinelKeeps
<1>8. ASSUME NEW x \in Requests, StepYields(x) \/ Submit(x) \/ Disconnect(x) PROVE Delivery'
  BY <1>8, StepYieldsDelivers, SubmitDelivers, DisconnectDelivers
<1>9. ASSUME NEW x \in Requests, AwaitItem(x) \/ GetReturns(x) \/ Cancel(x) \/ CancelPuts(x)
      PROVE  Delivery'
  BY <1>9, AwaitDelivers, GetDelivers, CancelDelivers, CancelPutsDelivers
<1>10. CASE WorkerTakes
  BY <1>10, WorkerDelivers
<1> QED BY <1>1, <1>2, <1>3, <1>4, <1>5, <1>6, <1>7, <1>8, <1>9, <1>10 DEF Next, Thread, Task

THEOREM DeliveryHolds == Spec => [](Inv /\ Delivery)
<1>1. Init => Inv /\ Delivery
  BY InitInv, InitDelivery
<1>2. Inv /\ Delivery /\ [Next]_vars => Inv' /\ Delivery'
  BY NextInv, NextDelivery
<1> QED BY <1>1, <1>2, PTL DEF Spec

LEMMA ConcatItems ==
  ASSUME NEW S, NEW s \in Seq(S), NEW t \in Seq(S)
  PROVE  /\ Len(s \o t) = Len(s) + Len(t)
         /\ \A i \in 1 .. Len(s) : i \in 1 .. Len(s \o t) /\ (s \o t)[i] = s[i]
         /\ \A j \in 1 .. Len(t) :
              Len(s) + j \in 1 .. Len(s \o t) /\ (s \o t)[Len(s) + j] = t[j]
         /\ \A i \in 1 .. Len(s \o t) :
              i \in 1 .. Len(s) \/ \E j \in 1 .. Len(t) : i = Len(s) + j
<1>1. /\ Len(s \o t) = Len(s) + Len(t) /\ Len(s) \in Nat /\ Len(t) \in Nat
      /\ \A i \in 1 .. Len(s) + Len(t) :
           (s \o t)[i] = IF i <= Len(s) THEN s[i] ELSE t[i - Len(s)]
  BY ConcatProperties, LenProperties
<1>2. \A i \in 1 .. Len(s) : i \in 1 .. Len(s) + Len(t) /\ i <= Len(s)
  BY <1>1
<1>3. \A j \in 1 .. Len(t) :
        /\ Len(s) + j \in 1 .. Len(s) + Len(t) /\ ~ (Len(s) + j <= Len(s))
        /\ (Len(s) + j) - Len(s) = j
  BY <1>1
<1>4. \A i \in 1 .. Len(s) + Len(t) :
        i \in 1 .. Len(s) \/ (i - Len(s) \in 1 .. Len(t) /\ i = Len(s) + (i - Len(s)))
  BY <1>1
<1> QED BY <1>1, <1>2, <1>3, <1>4

\* What is undelivered are the outputs of the requests with one due.
LEMMA UndeliveredItems ==
  ASSUME Typed, OutputsTell, NEW r \in Requests
  PROVE  /\ Undelivered \in Seq(Items) /\ Len(Undelivered) \in Nat
         /\ \A j \in 1 .. Len(Undelivered) :
              /\ Undelivered[j].kind = "output"
              /\ Undelivered[j].req = r => Undelivered[j].n = emitted[r] /\ Due(r)
              /\ \A i \in 1 .. Len(Undelivered) :
                   Undelivered[i].req = r /\ Undelivered[j].req = r => i = j
         /\ Due(r) => \E j \in 1 .. Len(Undelivered) : Undelivered[j].req = r
<1>1. /\ outputs \in Seq(Items) /\ Len(outputs) \in Nat
      /\ \A i, j \in 1 .. Len(outputs) : outputs[i].req = outputs[j].req => i = j
      /\ \A i \in 1 .. Len(outputs) :
           outputs[i].kind = "output" /\ (outputs[i].req = r => outputs[i].n = emitted[r])
  BY LenProperties DEF OutputsTell, Typed, TypeOK
<1>2. CASE ~ Ending
  <2>1. Undelivered = outputs /\ (Due(r) <=> InStep(r))
    BY <1>2 DEF Undelivered, Ending, Due
  <2> QED BY <1>1, <2>1 DEF InStep
<1>3. CASE Ending
  <2>1. outputs # << >> /\ Undelivered = Tail(outputs)
    BY <1>3 DEF Undelivered, Ending, Typed, HoldsOutput
  <2> PICK h \in Requests : h = Head(outputs).req
    BY <2>1, OutputsSplit
  <2> DEFINE rest == Tail(outputs)
  <2>2. /\ 1 \in 1 .. Len(outputs) /\ outputs[1].req = h
        /\ Len(rest) = Len(outputs) - 1
        /\ \A i \in 1 .. Len(rest) : i + 1 \in 1 .. Len(outputs) /\ rest[i] = outputs[i + 1]
        /\ rest \in Seq(Items)
    BY <2>1, OutputsSplit, HeadOutput
  <2> HIDE DEF rest
  <2>3. Due(r) <=> InStep(r) /\ r # h
    BY <1>3 DEF Due
  <2>4. \A j \in 1 .. Len(rest) :
          /\ rest[j].kind = "output"
          /\ rest[j].req = r => rest[j].n = emitted[r] /\ Due(r)
    <3> SUFFICES ASSUME NEW j \in 1 .. Len(rest)
                 PROVE  /\ rest[j].kind = "output"
                        /\ rest[j].req = r => rest[j].n = emitted[r] /\ Due(r)
      OBVIOUS
    <3>1. j + 1 \in 1 .. Len(outputs) /\ rest[j] = outputs[j + 1] /\ j + 1 # 1
      BY <1>1, <2>2
    <3>2. rest[j].req # h
      BY <1>1, <2>2, <3>1, Zenon
    <3> QED BY <1>1, <2>3, <3>1, <3>2 DEF InStep
  <2>5. \A i, j \in 1 .. Len(rest) : rest[i].req = rest[j].req => i = j
    <3> SUFFICES ASSUME NEW i \in 1 .. Len(rest), NEW j \in 1 .. Len(rest),
                        rest[i].req = rest[j].req
                 PROVE  i = j
      OBVIOUS
    <3>1. /\ i + 1 \in 1 .. Len(outputs) /\ j + 1 \in 1 .. Len(outputs)
          /\ outputs[i + 1].req = outputs[j + 1].req
      BY <2>2
    <3>2. i + 1 = j + 1
      BY <1>1, <3>1, Zenon
    <3> QED BY <3>2
  <2>6. Due(r) => \E j \in 1 .. Len(rest) : rest[j].req = r
    <3> SUFFICES ASSUME InStep(r), r # h PROVE \E j \in 1 .. Len(rest) : rest[j].req = r
      BY <2>3
    <3>1. PICK i \in 1 .. Len(outputs) : outputs[i].req = r
      BY DEF InStep
    <3>2. i - 1 \in 1 .. Len(rest) /\ (i - 1) + 1 = i
      BY <1>1, <2>2, <3>1
    <3>3. rest[i - 1] = outputs[i]
      BY <2>2, <3>2
    <3> QED BY <3>1, <3>2, <3>3
  <2>7. Undelivered = rest /\ Len(rest) \in Nat
    BY <2>1, <2>2, LenProperties DEF rest
  <2> QED BY <2>2, <2>4, <2>5, <2>6, <2>7
<1> QED BY <1>2, <1>3

(***************************************************************************)
(* Between step() and the client no output is lost, doubled or put out of  *)
(* order, whatever is cancelled, submitted or disconnected meanwhile       *)
(* (_run's delivery outside the lock against submit, stream and cancel).   *)
(***************************************************************************)
THEOREM NothingLostInDeliveryHolds == Spec => []NothingLostInDelivery
<1>1. Inv /\ Delivery => NothingLostInDelivery
  <2> SUFFICES ASSUME Inv, Delivery, ~ Failed, NEW r \in Requests, client[r] \in Streaming
               PROVE  LET left == queue[r] \o Undelivered
                          mine == { i \in 1 .. Len(left) :
                                      left[i].kind = "output" /\ left[i].req = r }
                      IN  /\ { left[i].n : i \in mine } = received[r] + 1 .. emitted[r]
                          /\ \A i, j \in mine : i < j => left[i].n < left[j].n
    BY DEF NothingLostInDelivery
  <2> USE DEF Inv
  <2> DEFINE left == queue[r] \o Undelivered
             mine == { i \in 1 .. Len(left) : left[i].kind = "output" /\ left[i].req = r }
             len == Len(queue[r])
  <2>1. PICK k \in 0 .. len : Holds(r, k)
    BY DEF Delivery, Stream
  <2>2. /\ received[r] \in Nat /\ emitted[r] \in Nat /\ len \in Nat /\ k \in Nat
        /\ queue[r] \in Seq(Items)
    BY ItemsTyped
  <2>3. /\ Undelivered \in Seq(Items) /\ Len(Undelivered) \in Nat
        /\ \A j \in 1 .. Len(Undelivered) :
             /\ Undelivered[j].kind = "output"
             /\ Undelivered[j].req = r => Undelivered[j].n = emitted[r] /\ Due(r)
             /\ \A i \in 1 .. Len(Undelivered) :
                  Undelivered[i].req = r /\ Undelivered[j].req = r => i = j
        /\ Due(r) => \E j \in 1 .. Len(Undelivered) : Undelivered[j].req = r
    BY UndeliveredItems DEF Delivery
  <2>4. /\ Len(left) = len + Len(Undelivered)
        /\ \A i \in 1 .. len : i \in 1 .. Len(left) /\ left[i] = queue[r][i]
        /\ \A j \in 1 .. Len(Undelivered) :
             len + j \in 1 .. Len(left) /\ left[len + j] = Undelivered[j]
        /\ \A i \in 1 .. Len(left) :
             i \in 1 .. len \/ \E j \in 1 .. Len(Undelivered) : i = len + j
    BY <2>2, <2>3, ConcatItems
  <2> HIDE DEF left
  <2>5. \A i \in 1 .. len : i \in mine <=> i <= k
    <3> SUFFICES ASSUME NEW i \in 1 .. len PROVE i \in mine <=> i <= k
      OBVIOUS
    <3>1. left[i] = queue[r][i] /\ i \in 1 .. Len(left) /\ queue[r][i].req = r
      BY <2>1, <2>4 DEF Holds
    <3>2. i <= k => queue[r][i].kind = "output"
      BY <2>1, <2>2 DEF Holds
    <3>3. ~ (i <= k) => queue[r][i].kind # "output"
      <4>1. ~ (i <= k) => i \in k + 1 .. len
        BY <2>2
      <4> QED BY <2>1, <4>1 DEF Holds, Marks
    <3> QED BY <3>1, <3>2, <3>3
  <2>6. \A i \in 1 .. k : i \in 1 .. len /\ left[i].n = received[r] + i
    <3>1. \A i \in 1 .. k : i \in 1 .. len
      BY <2>2
    <3> QED BY <2>1, <2>4, <3>1 DEF Holds
  <2>7. \A j \in 1 .. Len(Undelivered) :
          len + j \in mine <=> Undelivered[j].req = r
    BY <2>3, <2>4
  <2> DEFINE due == IF Due(r) THEN 1 ELSE 0
  <2>8. emitted[r] = received[r] + k + due /\ due \in {0, 1}
    BY <2>1 DEF Holds
  \* An index of mine is in the queue, or is the one of the output that is due.
  <2>9. \A i \in mine :
          \/ i \in 1 .. k /\ left[i].n = received[r] + i
          \/ i > len /\ Due(r) /\ left[i].n = emitted[r]
    <3> SUFFICES ASSUME NEW i \in mine
                 PROVE  \/ i \in 1 .. k /\ left[i].n = received[r] + i
                        \/ i > len /\ Due(r) /\ left[i].n = emitted[r]
      OBVIOUS
    <3>1. CASE i \in 1 .. len
      <4>1. i \in 1 .. k
        BY <2>2, <2>5, <3>1
      <4> QED BY <2>6, <4>1
    <3>2. CASE \E j \in 1 .. Len(Undelivered) : i = len + j
      <4>1. PICK j \in 1 .. Len(Undelivered) : i = len + j
        BY <3>2
      <4>2. Undelivered[j].req = r
        BY <2>7, <4>1
      <4>3. i > len
        BY <2>2, <2>3, <4>1
      <4> QED BY <2>3, <2>4, <4>1, <4>2, <4>3
    <3> QED BY <2>4, <3>1, <3>2
  <2>10. \A i, j \in mine : i > len /\ j > len => i = j
    <3> SUFFICES ASSUME NEW i \in mine, NEW j \in mine, i > len, j > len PROVE i = j
      OBVIOUS
    <3>1. \A x \in mine : x > len => \E y \in 1 .. Len(Undelivered) : x = len + y
      <4>1. \A x \in 1 .. Len(left) : x > len => ~ (x \in 1 .. len)
        BY <2>2
      <4>2. \A x \in mine : x \in 1 .. Len(left)
        OBVIOUS
      <4> QED BY <2>4, <4>1, <4>2, Zenon
    <3>2. PICK y \in 1 .. Len(Undelivered), z \in 1 .. Len(Undelivered) :
            i = len + y /\ j = len + z
      BY <3>1
    <3>3. y = z
      BY <2>3, <2>7, <3>2, Zenon
    <3> QED BY <3>2, <3>3
  <2>11. \A i \in mine : left[i].n \in received[r] + 1 .. emitted[r]
    <3> SUFFICES ASSUME NEW i \in mine PROVE left[i].n \in received[r] + 1 .. emitted[r]
      OBVIOUS
    <3>1. CASE i \in 1 .. k /\ left[i].n = received[r] + i
      BY <2>2, <2>8, <3>1
    <3>2. CASE Due(r) /\ left[i].n = emitted[r]
      BY <2>2, <2>8, <3>2
    <3> QED BY <2>9, <3>1, <3>2
  <2>12. \A n \in received[r] + 1 .. emitted[r] : \E i \in mine : left[i].n = n
    <3> SUFFICES ASSUME NEW n \in received[r] + 1 .. emitted[r]
                 PROVE  \E i \in mine : left[i].n = n
      OBVIOUS
    <3>1. CASE n <= received[r] + k
      <4>1. PICK i \in 1 .. k : n = received[r] + i
        <5>1. n - received[r] \in 1 .. k /\ n = received[r] + (n - received[r])
          BY <2>2, <3>1
        <5> QED BY <5>1
      <4>2. i \in mine
        BY <2>2, <2>5, <2>6, <4>1
      <4> QED BY <2>6, <4>1, <4>2
    <3>2. CASE ~ (n <= received[r] + k)
      <4>1. Due(r) /\ n = emitted[r]
        BY <2>2, <2>8, <3>2
      <4>2. PICK j \in 1 .. Len(Undelivered) : Undelivered[j].req = r
        BY <2>3, <4>1
      <4>3. len + j \in mine /\ left[len + j].n = emitted[r]
        BY <2>3, <2>4, <2>7, <4>2
      <4> QED BY <4>1, <4>3
    <3> QED BY <3>1, <3>2
  <2>13. \A i, j \in mine : i < j => left[i].n < left[j].n
    <3> SUFFICES ASSUME NEW i \in mine, NEW j \in mine, i < j PROVE left[i].n < left[j].n
      OBVIOUS
    <3>1. i \in Int /\ j \in Int
      OBVIOUS
    <3>2. ~ (i > len)
      <4>1. ASSUME i > len PROVE FALSE
        <5>1. j > len
          BY <2>2, <3>1, <4>1
        <5>2. i = j
          BY <2>10, <4>1, <5>1
        <5> QED BY <3>1, <5>2
      <4> QED BY <4>1
    <3>3. i \in 1 .. k /\ left[i].n = received[r] + i
      BY <2>9, <3>2
    <3>4. CASE j \in 1 .. k /\ left[j].n = received[r] + j
      BY <2>2, <3>3, <3>4
    <3>5. CASE Due(r) /\ left[j].n = emitted[r]
      BY <2>2, <2>8, <3>3, <3>5
    <3> QED BY <2>9, <3>4, <3>5
  <2>14. { left[i].n : i \in mine } = received[r] + 1 .. emitted[r]
    BY <2>11, <2>12
  <2> QED BY <2>13, <2>14 DEF left
<1> QED BY <1>1, DeliveryHolds, PTL

(***************************************************************************)
(* A stream that ends well is whole: the sentinel comes behind the last    *)
(* output of its request, and nobody else puts one for a client that is    *)
(* still there; EngineCrashedError is raised only after a crash (stream).  *)
(***************************************************************************)
THEOREM EndsAreHonestHolds == Spec => []EndsAreHonest
<1>1. Delivery => EndsAreHonest
  BY DEF Delivery, EndedHonestly, EndsAreHonest
<1> QED BY <1>1, DeliveryHolds, PTL
=============================================================================
