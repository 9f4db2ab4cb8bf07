---------------------------- MODULE DecoderStack ----------------------------
(***************************************************************************)
(* The values that flow through the decoder, as terms, and the decoder     *)
(* stack written without any cache: the yardstick for the cached forward   *)
(* pass of src/llm/qwen3_model.cpp.                                        *)
(*                                                                         *)
(* A row of a float matrix is the term of the computation that produced    *)
(* it, so two rows are equal exactly when the same kernels were applied to *)
(* the same rows at the same positions with the same layer's weights.      *)
(***************************************************************************)
EXTENDS GroupQueryAttention, Sequences

CONSTANTS
  Tokens,        (* the vocabulary                                        *)
  Layers,        (* Qwen3Config::kLayers                                  *)
  MaxPositions,  (* Qwen3Config::kMaxPositions, rows of the RoPE tables   *)
  Hidden(_, _)   (* Hidden(l, hist): the residual stream that enters      *)
                 (* layer l at the last position of hist, without a cache *)

ASSUME StackAssumption ==
  /\ Layers \in Nat \ {0}
  /\ MaxPositions \in Nat \ {0}

----------------------------------------------------------------------------
(* Rows as terms.  "of" is always a row of the residual stream: each       *)
(* projection normalises it first with the norm weights of its own layer.  *)

Embedding(token)       == <<"embedding", token>>
Sum(row, skip)         == <<"sum", row, skip>>
QueryRow(l, qh, p, of) == <<"query", l, qh, p, of>>
KeyRow(l, h, p, of)    == <<"key", l, h, p, of>>
ValueRow(l, h, of)     == <<"value", l, h, of>>
OutProj(l, heads)      == <<"o_proj", l, heads>>
Mlp(l, of)             == <<"mlp", l, of>>
Logits(of)             == <<"logits", of>>

----------------------------------------------------------------------------
(* The pre-norm decoder layer at position p, all earlier stream rows of    *)
(* the layer at hand: of[i] is the row at position i, for i in 0 .. p.     *)

SelfAttention(l, p, of) ==
  OutProj(l, [qh \in 0 .. QueryHeads - 1 |->
    [query |-> QueryRow(l, qh, p, of[p]),
     seen  |-> [i \in 0 .. p |-> <<KeyRow(l, qh \div GroupSize, i, of[i]),
                                   ValueRow(l, qh \div GroupSize, of[i])>>]]])

LayerOutput(l, p, of) ==
  LET attended == Sum(of[p], SelfAttention(l, p, of))
  IN  Sum(attended, Mlp(l, attended))

Histories == UNION {[1 .. n -> Tokens] : n \in 1 .. MaxPositions}

Prefix(hist, n) == SubSeq(hist, 1, n)

(* Hidden is the cache-free decoder: every row of every layer is computed  *)
(* anew from the whole token history.                                      *)
ASSUME HiddenAssumption ==
  \A hist \in Histories :
    /\ Hidden(0, hist) = Embedding(hist[Len(hist)])
    /\ \A l \in 0 .. Layers - 1 :
         Hidden(l + 1, hist) =
           LayerOutput(l, Len(hist) - 1,
             [i \in 0 .. Len(hist) - 1 |-> Hidden(l, Prefix(hist, i + 1))])

(* The logits rows of the last n tokens of hist. *)
LastLogits(hist, n) ==
  [i \in 0 .. n - 1 |->
    Logits(Hidden(Layers, Prefix(hist, Len(hist) - n + i + 1)))]
=============================================================================
