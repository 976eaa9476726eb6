----------------------------- MODULE ModelSetup -----------------------------
(***************************************************************************)
(* loader.py and quantize_model: from the keys of a training checkpoint to *)
(* the tensors of a model.                                                 *)
(*                                                                         *)
(* A key of a state_dict is the prefixes its training wrappers put before  *)
(* the name, and the name: a block number (0 for none) and a part.         *)
(* A checkpoint has the wrappers the model was trained in, outermost first *)
(* (torch.compile, DistributedDataParallel), its depth, and whether its    *)
(* config says how deep it is.                                             *)
(***************************************************************************)
EXTENDS Integers, Sequences, FiniteSets

CONSTANT DefaultLayers    \* GPTConfig.n_layer

ASSUME LayersAssumption == DefaultLayers \in Nat

Wrappers == {"module.", "_orig_mod."}

QuantizedParts == {"attn.qkv", "attn.proj", "mlp.fc", "mlp.proj"}

\* Of a GPT of n blocks; two names are of one tensor.
Names(n) ==
    ({0} \X {"tok_emb", "pos_emb", "ln_f", "lm_head"})
      \cup ((1 .. n) \X (QuantizedParts \cup {"ln1", "ln2"}))

Key(prefixes, name) == [prefixes |-> prefixes, name |-> name]

\* ckpt["model"]: the keys, whose values are the trained weight of that name.
StateDict(ckpt) == { Key(ckpt.wrappers, n) : n \in Names(ckpt.n_layer) }

StartsWith(key, prefix) == key.prefixes # << >> /\ Head(key.prefixes) = prefix

StripPrefix(keys, prefix) ==
    { IF StartsWith(k, prefix) THEN Key(Tail(k.prefixes), k.name) ELSE k : k \in keys }

\* A bug to catch: the two prefixes are stripped in the other order.
StrippedInward(keys) == StripPrefix(StripPrefix(keys, "_orig_mod."), "module.")

Stripped(keys) == StripPrefix(StripPrefix(keys, "module."), "_orig_mod.")

ReconstructConfig(ckpt) == IF ckpt.says THEN ckpt.n_layer ELSE DefaultLayers

\* load_state_dict(strict=False): what it could not place, and what it lacked.
Missing(ckpt) ==
    { n \in Names(ReconstructConfig(ckpt)) : Key(<< >>, n) \notin Stripped(StateDict(ckpt)) }
Unexpected(ckpt) ==
    { k \in Stripped(StateDict(ckpt)) :
        k.prefixes # << >> \/ k.name \notin Names(ReconstructConfig(ckpt)) }

Loads(ckpt) == Missing(ckpt) = {} /\ Unexpected(ckpt) = {}

\* lm_head.weight is tok_emb.weight, before the load and after it.
Storage(name) == IF name = <<0, "lm_head">> THEN <<0, "tok_emb">> ELSE name

\* In place, one block after the other.
QuantizeModel(n) ==
    [name \in Names(n) |-> IF name[2] \in QuantizedParts THEN "int8" ELSE "float"]

\* quantized_state_dict_bytes, for tensors of equal size: int8 is one byte an
\* element, float four; the tensors of one storage are counted once, and the
\* scales, one number for each row of a weight, are left out.
EmbeddingBytes(model) == IF model[<<0, "tok_emb">>] = "int8" THEN 1 ELSE 4
OtherBytes(model) ==
    LET others == { Storage(n) : n \in DOMAIN model } \ {<<0, "tok_emb">>}
    IN  Cardinality({ n \in others : model[n] = "int8" })
          + 4 * Cardinality({ n \in others : model[n] = "float" })

\* Trained in the depth that load_model reconstructs.
DepthKnown(ckpt) == ckpt.says \/ ckpt.n_layer = DefaultLayers

(***************************************************************************)
(* What is loaded is the whole model and nothing else, every weight under  *)
(* its own name, none half loaded: a checkpoint of another depth, or with  *)
(* a prefix left on its keys, is refused.  And a checkpoint of known depth *)
(* loads when it was trained bare, in DistributedDataParallel, in          *)
(* torch.compile, or in the first around the second.  Quantizing what was  *)
(* loaded leaves the tied embedding alone and the rest smaller by three    *)
(* bytes for each of four weights a block.                                 *)
(***************************************************************************)
LoadsWhatFits(ckpt) ==
    /\ Loads(ckpt) =>
         /\ DepthKnown(ckpt)
         /\ Stripped(StateDict(ckpt)) = { Key(<< >>, n) : n \in Names(ckpt.n_layer) }
    /\ /\ DepthKnown(ckpt)
       /\ ckpt.wrappers \in {<< >>, <<"module.">>, <<"_orig_mod.">>, <<"module.", "_orig_mod.">>}
       => Loads(ckpt)
    /\ LET model == QuantizeModel(ckpt.n_layer)
           plain == [n \in Names(ckpt.n_layer) |-> "float"]
       IN  Loads(ckpt) =>
             /\ EmbeddingBytes(model) = EmbeddingBytes(plain)
             /\ OtherBytes(model) = OtherBytes(plain) - 3 * 4 * ckpt.n_layer

(***************************************************************************)
(* What the comment before the two calls of _strip_prefix says: "strip     *)
(* either if present so this loads regardless of how it was trained", in   *)
(* one DistributedDataParallel and one torch.compile at most.              *)
(***************************************************************************)
LoadsRegardless(ckpt) ==
    /\ DepthKnown(ckpt)
    /\ \A i, j \in DOMAIN ckpt.wrappers : ckpt.wrappers[i] = ckpt.wrappers[j] => i = j
    => Loads(ckpt)
=============================================================================
