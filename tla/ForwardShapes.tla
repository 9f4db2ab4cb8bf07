---------------------------- MODULE ForwardShapes ----------------------------
(***************************************************************************)
(* Qwen3Model::forward statement by statement, with the dimensions of its  *)
(* matrices in place of the matrices, and every guard of every kernel it   *)
(* calls.  A guard that fires throws std::invalid_argument out of forward; *)
(* memory may run out at every statement that computes a matrix (the copy  *)
(* into a cache is left out as in Qwen3Model).  Qwen3Model takes the loop  *)
(* body as one step and only some of these guards as ways to fail; here is *)
(* why it may.                                                             *)
(***************************************************************************)
EXTENDS Integers, Sequences

CONSTANTS
  Layers, Hidden, QueryHeads, KvHeads, HeadDim, Intermediate, Vocab,
  MaxPositions,
  MaxPrompt \* bound: length of the longest prompt

ASSUME ConfigAssumption ==
  /\ {Layers, Hidden, QueryHeads, KvHeads, HeadDim, Intermediate, Vocab,
      MaxPositions} \subseteq Nat \ {0}
  /\ QueryHeads % KvHeads = 0
  /\ HeadDim % 2 = 0
  /\ MaxPrompt \in Nat

QueryDim == QueryHeads * HeadDim

KvDim == KvHeads * HeadDim

RopeDim == HeadDim \div 2

VARIABLES
  pc,             \* the statement that is next, "idle" between calls
  sequence,       \* locals of forward
  position_start,
  layer_index,
  local,          \* the dimensions of its matrices, by name
  caches,         \* members: those of the key and value cache of each layer
  past_length,
  outcome         \* how the last call ended: what it threw, or what it returned

vars == <<pc, sequence, position_start, layer_index, local, caches, past_length,
          outcome>>

call == <<sequence, position_start>>
model == <<caches, past_length>>

-----------------------------------------------------------------------------
(* Kernels: the dimensions they return, or the guard that rejects. *)
K == INSTANCE Kernels

Dims(rows, cols) == [rows |-> rows, cols |-> cols]

Rejects(guard) == [guard |-> guard]

Rejected(result) == "guard" \in DOMAIN result

Matmul(A, B) ==
  IF A.cols # B.rows THEN Rejects("shape") ELSE Dims(A.rows, B.cols)

Mul(A, B) == IF A # B THEN Rejects("shape") ELSE A

Sigmoid(A) == A

LayerNorm(A, scale_size) == IF A.cols # scale_size THEN Rejects("shape") ELSE A

SkipLayerNorm(A, skip, gamma_size) ==
  IF A # skip \/ A.cols # gamma_size THEN Rejects("shape") ELSE A

Reshape(A, new_rows, new_cols) ==
  LET dims == K!ReshapedDims(A.rows, A.cols, new_rows, new_cols)
  IN  IF dims = K!NoDims THEN Rejects("shape") ELSE dims

(* mutation: one position too many. *)
PastLastPositionLate(A, position_id, cos) == position_id + A.rows > cos.rows + 1

PastLastPosition(A, position_id, cos) == position_id + A.rows > cos.rows

Rotary(A, position_id, cos, sin, num_heads) ==
  LET head_dim == A.cols \div num_heads
  IN  IF \/ num_heads <= 0
         \/ A.cols % num_heads # 0
         \/ head_dim % 2 # 0
         \/ cos # sin
         \/ cos.cols # head_dim \div 2
         \/ position_id < 0
      THEN Rejects("shape")
      ELSE IF PastLastPosition(A, position_id, cos) THEN Rejects("position") ELSE A

(* The guards of group_query_attention on dimensions alone. *)
AttentionDims(query, key, value, past) ==
  LET head_dim == query.cols \div QueryHeads
  IN  /\ QueryHeads > 0 /\ KvHeads > 0 /\ QueryHeads % KvHeads = 0
      /\ query.cols % QueryHeads = 0 /\ head_dim > 0
      /\ query.rows = key.rows /\ query.rows = value.rows
      /\ key.cols = KvHeads * head_dim /\ value.cols = KvHeads * head_dim
      /\ past.key.cols = head_dim /\ past.value.cols = head_dim
      /\ past.key.rows = past.value.rows
      /\ past.key.rows % KvHeads = 0

Attention(query, key, value, past, total) ==
  IF ~ AttentionDims(query, key, value, past) THEN Rejects("shape")
  ELSE IF total # past.key.rows \div KvHeads + query.rows THEN Rejects("total")
  ELSE IF total - 1 < 0 THEN Rejects("seqlens_k")
  ELSE query

-----------------------------------------------------------------------------
(* An Eigen matrix that has been declared and not yet assigned. *)
Unset == Dims(0, 0)

NoLocals ==
  [n \in {"residual", "mlp_down", "attn_input", "mlp_input", "query", "key",
          "value", "attention", "attention_output", "gate", "up",
          "silu", "silu_up", "final_output"} |-> Unset]

EmptyCaches ==
  [l \in 0 .. Layers - 1 |-> [key |-> Dims(0, HeadDim), value |-> Dims(0, HeadDim)]]

total_sequence == position_start + sequence

Init ==
  /\ pc = "idle"
  /\ sequence = 0 /\ position_start = 0 /\ layer_index = 0
  /\ local = NoLocals
  /\ caches = EmptyCaches
  /\ past_length = 0
  /\ outcome = "none"

(* forward, up to its loop; embed gives a row for each token. *)
Enter(tokens, start) ==
  /\ sequence' = tokens /\ position_start' = start /\ layer_index' = 0
  /\ local' = [NoLocals EXCEPT !.residual = Dims(tokens, Hidden)]
  /\ pc' = "input_norm"
  /\ outcome' = "none"

Reset ==
  /\ pc = "idle"
  /\ caches' = EmptyCaches /\ past_length' = 0 /\ outcome' = "none"
  /\ UNCHANGED <<pc, call, layer_index, local>>

(* mutation: the caches keep what they hold. *)
PrefillKeepsCaches ==
  /\ pc = "idle"
  /\ past_length' = 0
  /\ \E tokens \in 0 .. MaxPrompt : Enter(tokens, 0)
  /\ UNCHANGED caches

Prefill ==
  /\ pc = "idle"
  /\ caches' = EmptyCaches /\ past_length' = 0
  /\ \E tokens \in 0 .. MaxPrompt : Enter(tokens, 0)

Decode ==
  /\ pc = "idle"
  /\ Enter(1, past_length)
  /\ UNCHANGED model

-----------------------------------------------------------------------------
Leave(how) ==
  /\ pc' = "idle" /\ outcome' = how /\ local' = NoLocals

(* A statement that gives the result of a kernel to some of the locals. *)
Assign(here, next, names, result) ==
  /\ pc = here
  /\ IF Rejected(result)
     THEN Leave(result.guard)
     ELSE /\ pc' = next
          /\ local' = [n \in DOMAIN local |-> IF n \in names THEN result ELSE local[n]]
          /\ UNCHANGED outcome
  /\ UNCHANGED <<call, layer_index, model>>

InputNorm ==
  IF layer_index = 0
  THEN Assign("input_norm", "q_proj", {"attn_input"}, LayerNorm(local.residual, Hidden))
  ELSE Assign("input_norm", "q_proj", {"attn_input", "residual"},
              SkipLayerNorm(local.residual, local.mlp_down, Hidden))

Project ==
  \/ Assign("q_proj", "k_proj", {"query"}, Matmul(local.attn_input, Dims(Hidden, QueryDim)))
  \/ Assign("k_proj", "v_proj", {"key"}, Matmul(local.attn_input, Dims(Hidden, KvDim)))
  \/ Assign("v_proj", "q_heads", {"value"}, Matmul(local.attn_input, Dims(Hidden, KvDim)))

(* mutation: the key is split into as many heads as the query. *)
HeadNormsQueryHeads ==
  \/ Assign("q_heads", "q_norm", {"query"}, Reshape(local.query, sequence * QueryHeads, HeadDim))
  \/ Assign("q_norm", "q_flat", {"query"}, LayerNorm(local.query, HeadDim))
  \/ Assign("q_flat", "k_heads", {"query"}, Reshape(local.query, sequence, QueryDim))
  \/ Assign("k_heads", "k_norm", {"key"}, Reshape(local.key, sequence * QueryHeads, HeadDim))
  \/ Assign("k_norm", "k_flat", {"key"}, LayerNorm(local.key, HeadDim))
  \/ Assign("k_flat", "q_rotary", {"key"}, Reshape(local.key, sequence, KvDim))

(* Normalisation of each head: one row per head and token, and back. *)
HeadNorms ==
  \/ Assign("q_heads", "q_norm", {"query"}, Reshape(local.query, sequence * QueryHeads, HeadDim))
  \/ Assign("q_norm", "q_flat", {"query"}, LayerNorm(local.query, HeadDim))
  \/ Assign("q_flat", "k_heads", {"query"}, Reshape(local.query, sequence, QueryDim))
  \/ Assign("k_heads", "k_norm", {"key"}, Reshape(local.key, sequence * KvHeads, HeadDim))
  \/ Assign("k_norm", "k_flat", {"key"}, LayerNorm(local.key, HeadDim))
  \/ Assign("k_flat", "q_rotary", {"key"}, Reshape(local.key, sequence, KvDim))

Rotate ==
  LET cos == Dims(MaxPositions, RopeDim)
      sin == Dims(MaxPositions, RopeDim)
  IN  \/ Assign("q_rotary", "k_rotary", {"query"},
                Rotary(local.query, position_start, cos, sin, QueryHeads))
      \/ Assign("k_rotary", "attention", {"key"},
                Rotary(local.key, position_start, cos, sin, KvHeads))

Attend ==
  Assign("attention", "caches", {"attention"},
         Attention(local.query, local.key, local.value, caches[layer_index], total_sequence))

(* mutation: room for the new tokens only. *)
PresentOfNewTokens == Dims(KvHeads * sequence, HeadDim)

Present == Dims(KvHeads * total_sequence, HeadDim)

(* The present keys and values become the caches of the layer. *)
StoreCaches ==
  /\ pc = "caches" /\ pc' = "o_proj"
  /\ caches' = [caches EXCEPT ![layer_index] = [key |-> Present, value |-> Present]]
  /\ UNCHANGED <<call, layer_index, local, past_length, outcome>>

AttentionOutput ==
  \/ Assign("o_proj", "post_norm", {"attention_output"},
            Matmul(local.attention, Dims(QueryDim, Hidden)))
  \/ Assign("post_norm", "gate_proj", {"mlp_input", "residual"},
            SkipLayerNorm(local.residual, local.attention_output, Hidden))

MlpStatements ==
  \/ Assign("gate_proj", "up_proj", {"gate"}, Matmul(local.mlp_input, Dims(Hidden, Intermediate)))
  \/ Assign("up_proj", "silu", {"up"}, Matmul(local.mlp_input, Dims(Hidden, Intermediate)))
  \/ Assign("silu", "silu_up", {"silu"}, Mul(local.gate, Sigmoid(local.gate)))
  \/ Assign("silu_up", "down_proj", {"silu_up"}, Mul(local.silu, local.up))
  \/ Assign("down_proj", "next_layer", {"mlp_down"},
            Matmul(local.silu_up, Dims(Intermediate, Hidden)))

NextLayer ==
  /\ pc = "next_layer"
  /\ layer_index' = layer_index + 1
  /\ pc' = IF layer_index + 1 < Layers THEN "input_norm" ELSE "final_norm"
  /\ UNCHANGED <<call, local, model, outcome>>

FinalNorm ==
  Assign("final_norm", "past_length", {"final_output"},
         SkipLayerNorm(local.residual, local.mlp_down, Hidden))

Commit ==
  /\ pc = "past_length" /\ pc' = "logits"
  /\ past_length' = total_sequence
  /\ UNCHANGED <<call, layer_index, local, caches, outcome>>

(* Eigen's product has no guard but an assertion on the same dimensions. *)
Return ==
  /\ pc = "logits"
  /\ LET logits == Matmul(local.final_output, Dims(Hidden, Vocab))
     IN  Leave(IF Rejected(logits) THEN logits.guard ELSE "logits")
  /\ UNCHANGED <<call, layer_index, model>>

OutOfMemory ==
  /\ pc \notin {"idle", "caches", "next_layer", "past_length"}
  /\ Leave("bad_alloc")
  /\ UNCHANGED <<call, layer_index, model>>

Statement ==
  \/ InputNorm \/ Project \/ HeadNorms \/ Rotate \/ Attend \/ StoreCaches
  \/ AttentionOutput \/ MlpStatements \/ NextLayer
  \/ FinalNorm \/ Commit \/ Return

Next == Prefill \/ Decode \/ Reset \/ Statement \/ OutOfMemory

Spec == Init /\ [][Next]_vars

-----------------------------------------------------------------------------
InLoop == {"input_norm", "q_proj", "k_proj", "v_proj", "q_heads", "q_norm", "q_flat",
           "k_heads", "k_norm", "k_flat", "q_rotary", "k_rotary", "attention", "caches",
           "o_proj", "post_norm", "gate_proj", "up_proj", "silu", "silu_up", "down_proj",
           "next_layer"}

AfterLoop == {"final_norm", "past_length", "logits"}

IsDims(d) == d = Dims(d.rows, d.cols) /\ d.rows \in Nat /\ d.cols \in Nat

TypeOK ==
  /\ pc \in {"idle"} \cup InLoop \cup AfterLoop
  /\ sequence \in Nat
  /\ position_start \in 0 .. MaxPositions
  /\ past_length \in 0 .. MaxPositions
  /\ layer_index \in 0 .. Layers
  /\ pc \in InLoop => layer_index < Layers
  /\ DOMAIN local = DOMAIN NoLocals /\ \A n \in DOMAIN local : IsDims(local[n])
  /\ DOMAIN caches = 0 .. Layers - 1
  /\ outcome \in {"none", "logits", "bad_alloc", "shape", "position", "total", "seqlens_k"}

(* The caches of a layer that hold n tokens. *)
CacheOfLength(n) == [key |-> Dims(KvHeads * n, HeadDim), value |-> Dims(KvHeads * n, HeadDim)]

(* Of all the guards in forward only three ever fire: the one against the  *)
(* end of the RoPE tables, the one against an empty prompt, and the one    *)
(* that compares the cache with past_length_, which a call that ran out of *)
(* memory has extended without counting.  All three fire in the first      *)
(* layer, before a cache is touched.                                       *)
OnlyLengthsAreRejected ==
  /\ outcome # "shape"
  /\ outcome = "position" => position_start + sequence > MaxPositions
  /\ outcome = "seqlens_k" => sequence = 0
  /\ outcome = "total" => caches[0].key.rows > KvHeads * past_length
  /\ outcome \in {"position", "total", "seqlens_k"} => layer_index = 0

(* Layers below k hold more tokens than past_length_ counts. *)
CachesAhead(k, more) ==
  \A l \in 0 .. Layers - 1 :
    caches[l] = CacheOfLength(IF l < k THEN past_length + more ELSE past_length)

(* Between calls the caches of all layers cover the context, or those of   *)
(* the first layers are ahead by the same number of tokens, within the     *)
(* positions; a call that returns logits leaves none ahead.                *)
CachesCoverTheContext ==
  /\ pc = "idle" =>
       \E k \in 0 .. Layers, more \in 0 .. MaxPositions - past_length : CachesAhead(k, more)
  /\ outcome = "logits" => CachesAhead(0, 0)

(* Statements of the loop after the assignment to the caches. *)
AfterStore == {"o_proj", "post_norm", "gate_proj", "up_proj", "silu", "silu_up",
               "down_proj", "next_layer"}

(* The call that is under way has extended the caches of layer 0. *)
Storing == pc # "idle" /\ (layer_index > 0 \/ pc \in AfterStore)

Health ==
  IF Storing \/ caches[0].key.rows = KvHeads * past_length THEN "sound" ELSE "stalled"

(* A call takes effect when it returns, one that has set past_length_ too. *)
Lengths == INSTANCE ContextLength WITH
             length  <- IF pc = "logits" THEN position_start ELSE past_length,
             health  <- Health,
             pending <- pc # "idle",
             asked   <- IF pc = "idle" THEN 0 ELSE sequence,
             status  <- IF outcome \in {"none", "logits", "bad_alloc"} THEN outcome
                        ELSE "invalid_argument"

(* Statement by statement as in one step, forward serves exactly the calls *)
(* of at least one token that fit behind a context whose caches were not   *)
(* left ahead of past_length_, and rejects all others without effect.      *)
ImplementsContextLength == Lengths!Spec
=============================================================================
