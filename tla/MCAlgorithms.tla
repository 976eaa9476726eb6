---------------------------- MODULE MCAlgorithms ----------------------------
(***************************************************************************)
(* The arithmetic parts on all inputs of a bounded kind: each input is an  *)
(* initial state of its own (of which only verify_and_accept takes steps). *)
(***************************************************************************)
EXTENDS VerifyAccept, TextStream, Int8, ModelSetup, GraphRunner

CONSTANTS MaxWeight, MaxDim, MaxCalls, MaxTextTokens

ASSUME BoundsAssumption == {MaxWeight, MaxDim, MaxCalls, MaxTextTokens} \subseteq Nat

VARIABLE input     \* what the module of this name is called with, or nothing

Idle == [t \in Tokens |-> 0]

\* Rows with at most one id masked and something left, k of all kinds, every top_p.
Sampled ==
    { i \in [row : Rows, mask : { m \in SUBSET Tokens : Cardinality(m) <= 1 },
             k : {0, 1, 2, V + 1}, top_p : 1 .. Shares] : Total(Masked(i.row, i.mask)) > 0 }

WeightRows == [1 .. 3 -> -MaxWeight .. MaxWeight]

Shapes == [n_out : 1 .. MaxDim, K : 1 .. MaxDim, BLOCK_O : {1, 2, 4}, BLOCK_K : {1, 2, 4}]

Checkpoints ==
    [wrappers : SeqOf(Wrappers, 2), n_layer : 1 .. 3, says : BOOLEAN]

Calls == {[op |-> "capture", ids |-> "none"]} \cup [op : {"replay"}, ids : {"a", "b"}]

Runners == [kv_length : 0 .. PositionTable, calls : SeqOf(Calls, MaxCalls)]

Vocabulary == { <<"a">>, <<"b">>, <<"a", "b">>, <<Lead>>, <<Cont, "b">>, EndOfText }

StopLists ==
    { << >>, <<(* "" *) << >> >>, << <<"a", "b">> >>, << <<"b">>, <<"b", "a">> >>,
      << <<Accented, "b">>, <<"a">> >>, << <<"b", "b">>, <<Replacement>> >> }

Texts ==
    { [req |-> [stop |-> stop, max_tokens |-> n, eot |-> eot], tokens |-> tokens] :
        stop \in StopLists, n \in {2, MaxTextTokens + 1}, eot \in BOOLEAN,
        tokens \in SeqOf(Vocabulary, MaxTextTokens) }

Inputs ==
    ({"text"} \X Texts) \cup ({"sampling"} \X Sampled) \cup ({"weights"} \X WeightRows) \cup ({"gemv"} \X Shapes)
      \cup ({"loader"} \X Checkpoints) \cup ({"graph"} \X Runners)

MCInit ==
    \/ Init /\ input = <<"verify", None>>
    \/ /\ p = Idle /\ q = Idle /\ x = None /\ out = None /\ pc = "idle"
       /\ input \in Inputs

MCNext == Next /\ UNCHANGED input

MCSpec == MCInit /\ [][MCNext]_<<vars, input>>

Given(kind, Holds(_)) == input[1] = kind => Holds(input[2])

-----------------------------------------------------------------------------
\* Filters leave a nucleus and drivers agree, on every such row.
FiltersLeaveNucleus ==
    Given("sampling", LAMBDA i : /\ IsNucleus(Masked(i.row, i.mask), i.k, i.top_p)
                                 /\ DriversAgree(i.row, i.mask, i.k))

\* What add_token, finalize and the stop strings let through, on every token sequence.
TextIsDecoded == Given("text", LAMBDA i : StreamsDecodedText(i.req, i.tokens))
NoStopStreamed == Given("text", LAMBDA i : StopsAreHidden(i.req, i.tokens))

\* The comment in add_token: only an incomplete character is held back.
HoldsBackIncomplete == Given("text", LAMBDA i : OnlyIncompleteHeldBack(i.req, i.tokens))

\* quantize_per_channel stays within half a step, on every row of weights.
QuantizationIsClose == Given("weights", WithinHalfStep)

\* The tiles of the fused kernel cover every shape, divisible or not.
TilesCoverProduct == Given("gemv", GemvIsLinear)

\* load_model takes the whole model under its own names or refuses; what it must take.
LoaderIsExact == Given("loader", LoadsWhatFits)

\* The comment in load_model: it loads regardless of how the model was trained.
LoadsHoweverTrained == Given("loader", LoadsRegardless)

\* CUDAGraphRunner.replay is a forward of its ids, after every history of calls.
GraphsAreFaithful == Given("graph", LAMBDA i : ReplayIsForward(i.kv_length, i.calls))
=============================================================================
