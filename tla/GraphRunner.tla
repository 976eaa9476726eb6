---------------------------- MODULE GraphRunner -----------------------------
(***************************************************************************)
(* graphs.py: a decode step captured as a CUDA graph and replayed over     *)
(* static buffers.                                                         *)
(*                                                                         *)
(* What a forward yields is named by the context it attended to: kv_length *)
(* columns of noise and the ids at the fixed position behind them.         *)
(* Capturing records a forward without running it; a replay reads and      *)
(* writes the buffers themselves.  A call is [op, ids], the ids being of   *)
(* interest to a replay only; capture() is called with warm-up runs (five  *)
(* by default).                                                            *)
(***************************************************************************)
EXTENDS Integers, SequencesExt

CONSTANT PositionTable    \* rows of the position embedding, cfg.block_size

ASSUME GraphAssumption == PositionTable \in Nat

Noise == "noise"      \* torch.randn
Unset == << >>        \* an output buffer nothing has computed yet

\* static_outputs: one buffer for each capture; the newest is the graph's.
FreshRunner(kv_length) ==
    [kv_length |-> kv_length, static_input_ids |-> "zeros", slot |-> Noise,
     static_outputs |-> << >>, raised |-> FALSE]

\* A bug to catch: the columns read end before the position just written.
ReadShort(kv_length, slot) == [i \in 1 .. kv_length |-> Noise]

\* read(): all columns up to and with the fixed position.
ReadCache(kv_length, slot) == [i \in 1 .. kv_length |-> Noise] \o <<slot>>

\* The warm-up runs are eager: they write the slot, their results are dropped.
\* Only in them does the model compare the position with its table.
Capture(g) ==
    IF g.kv_length >= PositionTable THEN [g EXCEPT !.raised = TRUE]
    ELSE [g EXCEPT !.slot = g.static_input_ids, !.static_outputs = Append(@, Unset)]

\* write() then attention, on the static buffers.
Replay(g, input_ids) ==
    IF g.static_outputs = << >> THEN [g EXCEPT !.raised = TRUE]
    ELSE [g EXCEPT !.static_input_ids = input_ids,
                   !.slot = input_ids,
                   !.static_outputs[Len(g.static_outputs)] = ReadCache(g.kv_length, input_ids)]

Called(g, call) ==
    IF g.raised THEN g ELSE IF call.op = "capture" THEN Capture(g) ELSE Replay(g, call.ids)

After(kv_length, calls) == FoldLeft(Called, FreshRunner(kv_length), calls)

\* Which buffer the i-th call handed out.
BufferOf(calls, i) == Cardinality({ j \in 1 .. i : calls[j].op = "capture" })

(***************************************************************************)
(* A replay yields what a forward of just these ids yields, whatever was   *)
(* captured or replayed before; without a capture it raises, and no        *)
(* capture makes a graph of a position outside the table, although it      *)
(* skips the model's own check.  A result kept by its caller later shows   *)
(* the latest replay of the same graph, and nothing else: replays after    *)
(* another capture leave it alone.                                         *)
(***************************************************************************)
ReplayIsForward(kv_length, calls) ==
    LET runner == After(kv_length, calls)
        replays == { i \in 1 .. Len(calls) : calls[i].op = "replay" }
        latest(i) == Max({ j \in replays : BufferOf(calls, j) = BufferOf(calls, i) })
        misused ==
            \/ \E i \in replays : BufferOf(calls, i) = 0
            \/ kv_length >= PositionTable /\ calls # << >>
    IN  /\ runner.raised = misused
        /\ ~ runner.raised =>
             \A i \in replays :
               runner.static_outputs[BufferOf(calls, i)]
                 = [c \in 1 .. kv_length |-> Noise] \o <<calls[latest(i)].ids>>
=============================================================================
