----------------------------- MODULE Scheduler -----------------------------
(***************************************************************************)
(* engine/scheduler.py with the per-request state of engine/request.py:    *)
(* admission, preemption by recompute, finish and cancel.                  *)
(*                                                                         *)
(* schedule() and ensure_capacity_for_decode_step() are loops.  Each       *)
(* iteration is an action; `pc' is the loop the engine thread is in and    *)
(* `todo' is the Python list that loop walks or builds.  The engine lock   *)
(* is held from the first to the last of them, so nothing interleaves:     *)
(* requests are added and cancelled at pc = "idle" only.                   *)
(*                                                                         *)
(* num_preemptions, a statistic nothing reads back, is left out.           *)
(***************************************************************************)
EXTENDS BlockManager

CONSTANT MaxBatchSize

ASSUME SchedulerAssumption == MaxBatchSize \in Nat \ {0}

VARIABLES waiting,        \* deque of sequences, head first
          running,        \* list of sequences, oldest admission first
          status,         \* SequenceState.status; "NEW" before add_request
          prompt_len,     \* len(request.prompt_token_ids)
          max_tokens,     \* request.sampling_params.max_tokens
          output_len,     \* len(SequenceState.output_token_ids)
          num_computed,   \* SequenceState.num_computed_tokens
          finish_reason,  \* SequenceState.finish_reason
          pc, todo

seqVars == <<status, prompt_len, max_tokens, output_len, num_computed, finish_reason>>
schedVars == <<bmVars, waiting, running, seqVars, pc, todo>>

Statuses == {"NEW", "WAITING", "RUNNING", "FINISHED"}
Reasons == {"none", "eot", "length", "stop", "cancelled"}
PCs == {"idle", "admit", "prefill", "capacity", "forward", "sample", "raised"}

NumTokens(s) == prompt_len[s] + output_len[s]

SchedulerTypeOK ==
    /\ BMTypeOK
    /\ waiting \in Seq(Seqs)
    /\ running \in Seq(Seqs)
    /\ status \in [Seqs -> Statuses]
    /\ prompt_len \in [Seqs -> Nat]
    /\ max_tokens \in [Seqs -> Int]
    /\ output_len \in [Seqs -> Nat]
    /\ num_computed \in [Seqs -> Nat]
    /\ finish_reason \in [Seqs -> Reasons]
    /\ pc \in PCs
    /\ todo \in Seq(Seqs)

SchedulerInit ==
    /\ BMInit
    /\ waiting = << >>
    /\ running = << >>
    /\ status = [s \in Seqs |-> "NEW"]
    /\ prompt_len = [s \in Seqs |-> 0]
    /\ max_tokens = [s \in Seqs |-> 0]
    /\ output_len = [s \in Seqs |-> 0]
    /\ num_computed = [s \in Seqs |-> 0]
    /\ finish_reason = [s \in Seqs |-> "none"]
    /\ pc = "idle"
    /\ todo = << >>

-----------------------------------------------------------------------------
(* Requests: add_request, finish, cancel_by_id.                            *)

Enqueue(s, p, m) ==
    /\ status' = [status EXCEPT ![s] = "WAITING"]
    /\ prompt_len' = [prompt_len EXCEPT ![s] = p]
    /\ max_tokens' = [max_tokens EXCEPT ![s] = m]
    /\ waiting' = Append(waiting, s)

\* A bug to catch: the blocks of a finished sequence are kept until later.
FinishLate(s, reason) ==
    /\ status' = [status EXCEPT ![s] = "FINISHED"]
    /\ finish_reason' = [finish_reason EXCEPT ![s] = reason]
    /\ running' = RemoveFirst(running, s)
    /\ UNCHANGED bmVars

Finish(s, reason) ==
    /\ status' = [status EXCEPT ![s] = "FINISHED"]
    /\ finish_reason' = [finish_reason EXCEPT ![s] = reason]
    /\ Free(s)
    /\ running' = RemoveFirst(running, s)

\* A waiting sequence is only dropped from the queue: cancel_by_id frees
\* nothing for it.  An id that is in neither list changes nothing.
CancelById(s) ==
    \/ /\ Contains(running, s)
       /\ Finish(s, "cancelled")
       /\ UNCHANGED waiting
    \/ /\ ~ Contains(running, s) /\ Contains(waiting, s)
       /\ waiting' = RemoveFirst(waiting, s)
       /\ status' = [status EXCEPT ![s] = "FINISHED"]
       /\ finish_reason' = [finish_reason EXCEPT ![s] = "cancelled"]
       /\ UNCHANGED <<bmVars, running>>
    \/ /\ ~ Contains(running, s) /\ ~ Contains(waiting, s)
       /\ UNCHANGED <<bmVars, running, waiting, status, finish_reason>>

-----------------------------------------------------------------------------
(* schedule(): todo is `admitted'.                                         *)

ScheduleBegin ==
    /\ pc = "idle"
    /\ pc' = "admit"
    /\ todo' = << >>
    /\ UNCHANGED <<bmVars, waiting, running, seqVars>>

BatchHasRoom == Len(running) + Len(todo) < MaxBatchSize

HeadFits ==
    /\ waiting # << >>
    /\ BatchHasRoom
    /\ CanAllocate(NumTokens(Head(waiting)))

AdmitHead ==
    /\ pc = "admit" /\ HeadFits
    /\ LET s == Head(waiting)
       IN  IF AllocateAsserts(s, NumTokens(s))
           THEN /\ Allocate(s, NumTokens(s))
                /\ status' = [status EXCEPT ![s] = "RUNNING"]
                /\ todo' = Append(todo, s)
                /\ waiting' = Tail(waiting)
                /\ UNCHANGED pc
           ELSE /\ pc' = "raised"
                /\ UNCHANGED <<bmVars, status, todo, waiting>>
    /\ UNCHANGED <<running, prompt_len, max_tokens, output_len, num_computed, finish_reason>>

\* Something was admitted: this is a prefill step over `admitted'.
SchedulePrefill ==
    /\ pc = "admit" /\ ~ HeadFits /\ todo # << >>
    /\ running' = running \o todo
    /\ pc' = "prefill"
    /\ UNCHANGED <<bmVars, waiting, seqVars, todo>>

\* Nothing was: a decode step over a copy of `running', or nothing to do.
ScheduleDecode ==
    /\ pc = "admit" /\ ~ HeadFits /\ todo = << >>
    /\ pc' = IF running = << >> THEN "idle" ELSE "capacity"
    /\ todo' = running
    /\ UNCHANGED <<bmVars, waiting, running, seqVars>>

-----------------------------------------------------------------------------
(* ensure_capacity_for_decode_step(): todo is what is left of              *)
(* list(self.running), taken before the pass.                              *)

VictimIndices(s) ==
    { i \in 1 .. Len(running) : running[i] # s /\ status[running[i]] = "RUNNING" }

\* A bug to catch: the victim is not put back into the queue.
PreemptLost(v) ==
    /\ Free(v)
    /\ num_computed' = [num_computed EXCEPT ![v] = 0]
    /\ status' = [status EXCEPT ![v] = "WAITING"]
    /\ running' = RemoveFirst(running, v)
    /\ UNCHANGED waiting

\* A bug to catch: the victim goes to the back of the queue.
PreemptToBack(v) ==
    /\ Free(v)
    /\ num_computed' = [num_computed EXCEPT ![v] = 0]
    /\ status' = [status EXCEPT ![v] = "WAITING"]
    /\ running' = RemoveFirst(running, v)
    /\ waiting' = Append(waiting, v)

Preempt(v) ==
    /\ Free(v)
    /\ num_computed' = [num_computed EXCEPT ![v] = 0]
    /\ status' = [status EXCEPT ![v] = "WAITING"]
    /\ running' = RemoveFirst(running, v)
    /\ waiting' = <<v>> \o waiting

\* Evicted earlier in this same pass.
SkipPreempted ==
    /\ pc = "capacity" /\ todo # << >> /\ status[Head(todo)] # "RUNNING"
    /\ todo' = Tail(todo)
    /\ UNCHANGED <<bmVars, waiting, running, seqVars, pc>>

\* A bug to catch: a sequence evicted earlier in the pass claims a block anyway.
ClaimingStale == pc = "capacity" /\ todo # << >>

Claiming == pc = "capacity" /\ todo # << >> /\ status[Head(todo)] = "RUNNING"

SecureSlot ==
    /\ Claiming
    /\ CanAppendSlot(Head(todo), num_computed[Head(todo)])
    /\ AppendSlot(Head(todo), num_computed[Head(todo)])
    /\ todo' = Tail(todo)
    /\ UNCHANGED <<waiting, running, seqVars, pc>>

\* No block: evict the newest running sequence other than the claimant, retry.
PreemptVictim ==
    /\ Claiming
    /\ ~ CanAppendSlot(Head(todo), num_computed[Head(todo)])
    /\ VictimIndices(Head(todo)) # {}
    /\ Preempt(running[Max(VictimIndices(Head(todo)))])
    /\ UNCHANGED <<prompt_len, max_tokens, output_len, finish_reason, pc, todo>>

\* The claimant is alone and does not fit: it evicts itself.
PreemptSelf ==
    /\ Claiming
    /\ ~ CanAppendSlot(Head(todo), num_computed[Head(todo)])
    /\ VictimIndices(Head(todo)) = {}
    /\ Preempt(Head(todo))
    /\ todo' = Tail(todo)
    /\ UNCHANGED <<prompt_len, max_tokens, output_len, finish_reason, pc>>

\* step() re-reads `running' after the pass, which may have emptied it.
CapacityDone ==
    /\ pc = "capacity" /\ todo = << >>
    /\ pc' = IF running = << >> THEN "idle" ELSE "forward"
    /\ todo' = running
    /\ UNCHANGED <<bmVars, waiting, running, seqVars>>

-----------------------------------------------------------------------------
\* One iteration, or the end, of one of the two loops.
SchedulerStep ==
    \/ ScheduleBegin \/ AdmitHead \/ SchedulePrefill \/ ScheduleDecode
    \/ SkipPreempted \/ SecureSlot \/ PreemptVictim \/ PreemptSelf \/ CapacityDone
=============================================================================
