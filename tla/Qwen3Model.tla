----------------------------- MODULE Qwen3Model -----------------------------
(***************************************************************************)
(* Qwen3Model (src/llm/qwen3_model.cpp): one KV cache per decoder layer,   *)
(* prefill, decode and reset.  The layer loop of forward is one step per   *)
(* layer, because an exception thrown by a kernel of layer k leaves the    *)
(* caches of the layers before k extended and past_length_ unset.          *)
(*                                                                         *)
(* Every allocation may fail with std::bad_alloc, except that of the copy  *)
(* into a cache (lines 106-107): what an Eigen matrix holds after a failed *)
(* assignment is not decided by this repository.  Token ids come from the  *)
(* vocabulary; embed does not check them.                                  *)
(***************************************************************************)
EXTENDS DecoderStack

CONSTANT MaxPrompt    (* bound on the prompts the caller tries *)

ASSUME PromptAssumption == MaxPrompt \in Nat \ {0}

VARIABLES
  caches,          (* caches_: key and value matrix of every layer         *)
  past_length,     (* past_length_                                         *)
  pc,              (* "idle", or "layers" inside forward                   *)
  tokens,          (* the argument of forward                              *)
  position_start,  (* locals of forward ...                                *)
  layer_index,
  residual,
  mlp_down,
  history,         (* ghost: the tokens counted by past_length_            *)
  response         (* what the last call returned or threw                  *)

locals == <<tokens, position_start, layer_index, residual, mlp_down>>
vars   == <<caches, past_length, pc, locals, history, response>>

Prompts == UNION {[1 .. n -> Tokens] : n \in 0 .. MaxPrompt}

NoResponse      == [status |-> "none", logits |-> <<>>]
Answered(rows)  == [status |-> "logits", logits |-> rows]
InvalidArgument == [status |-> "invalid_argument", logits |-> <<>>]
BadAlloc        == [status |-> "bad_alloc", logits |-> <<>>]

NoRows == <<>>

EmptyCaches == [l \in 0 .. Layers - 1 |->
                  [key |-> EmptyMatrix, value |-> EmptyMatrix]]

Init ==
  /\ caches = EmptyCaches
  /\ past_length = 0
  /\ pc = "idle"
  /\ tokens = <<>>
  /\ position_start = 0
  /\ layer_index = 0
  /\ residual = NoRows
  /\ mlp_down = NoRows
  /\ history = <<>>
  /\ response = NoResponse

(* mutation: the loop of reset ends one layer early *)
ClearContextButLast ==
  /\ caches' = [EmptyCaches EXCEPT ![Layers - 1] = caches[Layers - 1]]
  /\ past_length' = 0
  /\ history' = <<>>

ClearContext ==
  /\ caches' = EmptyCaches
  /\ past_length' = 0
  /\ history' = <<>>

Reset ==
  /\ pc = "idle"
  /\ ClearContext
  /\ response' = NoResponse
  /\ UNCHANGED <<pc, locals>>

----------------------------------------------------------------------------
(* Calls.  embed gives the stream row of each token. *)

Embed(ts) == [i \in 0 .. Len(ts) - 1 |-> Embedding(ts[i + 1])]

EnterForward(ts, start) ==
  /\ pc = "idle"
  /\ pc' = "layers"
  /\ tokens' = ts
  /\ position_start' = start
  /\ layer_index' = 0
  /\ residual' = Embed(ts)
  /\ mlp_down' = NoRows
  /\ response' = NoResponse

Prefill(prompt) ==
  /\ EnterForward(prompt, 0)
  /\ ClearContext

Decode(token) ==
  /\ EnterForward(<<token>>, past_length)
  /\ UNCHANGED <<caches, past_length, history>>

(* The locals of forward are gone once it returns or throws. *)
LeaveForward(result) ==
  /\ pc' = "idle"
  /\ tokens' = <<>>
  /\ position_start' = 0
  /\ layer_index' = 0
  /\ residual' = NoRows
  /\ mlp_down' = NoRows
  /\ response' = result

----------------------------------------------------------------------------
(* One pass of the layer loop. *)

sequence       == Len(tokens)
total_sequence == position_start + sequence

(* Layer 0 normalises the embedding, later layers first add the MLP output *)
(* of the layer before.                                                    *)
StreamIn ==
  IF layer_index = 0
  THEN residual
  ELSE [i \in 0 .. sequence - 1 |-> Sum(residual[i], mlp_down[i])]

Query == [i \in 0 .. sequence - 1 |->
            [qh \in 0 .. QueryHeads - 1 |->
               QueryRow(layer_index, qh, position_start + i, StreamIn[i])]]
Key   == [i \in 0 .. sequence - 1 |->
            [h \in 0 .. KvHeads - 1 |->
               KeyRow(layer_index, h, position_start + i, StreamIn[i])]]
Value == [i \in 0 .. sequence - 1 |->
            [h \in 0 .. KvHeads - 1 |-> ValueRow(layer_index, h, StreamIn[i])]]

(* The RoPE tables end at MaxPositions. *)
RotaryRejects == position_start + sequence > MaxPositions

Cache        == caches[layer_index]
PresentKey   == Present(Cache.key, PastSequence(Cache.key), Key, total_sequence)
PresentValue == Present(Cache.value, PastSequence(Cache.key), Value, total_sequence)

LayerRejects ==
  \/ RotaryRejects
  \/ AttentionRejects(sequence, Cache.key, Cache.value,
                      total_sequence - 1, total_sequence)

StoreCache ==
  caches' = [caches EXCEPT ![layer_index] =
               [key |-> PresentKey, value |-> PresentValue]]

AttentionRows ==
  AttentionOutput(Query, PresentKey, PresentValue, sequence,
                  PastSequence(Cache.key), total_sequence - 1, total_sequence)

(* mutation: the sum that enters the layer is not kept as the residual *)
AttendedStale == [i \in 0 .. sequence - 1 |->
                    Sum(residual[i], OutProj(layer_index, AttentionRows[i]))]

(* The stream after self attention; the MLP reads its normalised rows. *)
Attended == [i \in 0 .. sequence - 1 |->
               Sum(StreamIn[i], OutProj(layer_index, AttentionRows[i]))]

Layer ==
  /\ pc = "layers"
  /\ layer_index < Layers
  /\ ~LayerRejects
  /\ StoreCache
  /\ residual' = Attended
  /\ mlp_down' = [i \in 0 .. sequence - 1 |-> Mlp(layer_index, Attended[i])]
  /\ layer_index' = layer_index + 1
  /\ UNCHANGED <<past_length, pc, tokens, position_start, history, response>>

RejectLayer ==
  /\ pc = "layers"
  /\ layer_index < Layers
  /\ LayerRejects
  /\ LeaveForward(InvalidArgument)
  /\ UNCHANGED <<caches, past_length, history>>

(* bad_alloc in the embedding or in a kernel up to and including attention *)
(* (the caches of this layer are as before) or in a kernel after it.       *)
LayerOutOfMemory ==
  /\ pc = "layers"
  /\ layer_index < Layers
  /\ LeaveForward(BadAlloc)
  /\ \/ UNCHANGED caches
     \/ ~LayerRejects /\ StoreCache
  /\ UNCHANGED <<past_length, history>>

----------------------------------------------------------------------------
(* After the loop: the final norm, past_length_, the logits product. *)

FinalRows == [i \in 0 .. sequence - 1 |-> Logits(Sum(residual[i], mlp_down[i]))]

CommitContext ==
  /\ past_length' = total_sequence
  /\ history' = history \o tokens

Finish ==
  /\ pc = "layers"
  /\ layer_index = Layers
  /\ CommitContext
  /\ LeaveForward(Answered(FinalRows))
  /\ UNCHANGED caches

FinalNormOutOfMemory ==
  /\ pc = "layers"
  /\ layer_index = Layers
  /\ LeaveForward(BadAlloc)
  /\ UNCHANGED <<caches, past_length, history>>

LogitsOutOfMemory ==
  /\ pc = "layers"
  /\ layer_index = Layers
  /\ CommitContext
  /\ LeaveForward(BadAlloc)
  /\ UNCHANGED caches

(* The steps of a forward pass that gets its memory. *)
Progress == Layer \/ RejectLayer \/ Finish

OutOfMemory == LayerOutOfMemory \/ FinalNormOutOfMemory \/ LogitsOutOfMemory

Call ==
  \/ Reset
  \/ \E prompt \in Prompts : Prefill(prompt)
  \/ \E token \in Tokens : Decode(token)

Next == Call \/ Progress \/ OutOfMemory

Spec == Init /\ [][Next]_vars

(* forward is a loop of terminating kernels on one thread: once called it  *)
(* keeps going.  Nothing is assumed of callers or of failures.             *)
FairSpec == Spec /\ WF_vars(Progress)
----------------------------------------------------------------------------
(* The caches that hold exactly a history: row h*T + s of layer l is the   *)
(* key (value) of head h at position s.                                    *)
CacheOf(l, hist) ==
  LET T    == Len(hist)
      of(s) == Hidden(l, Prefix(hist, s + 1))
  IN  [key   |-> [rows |-> KvHeads * T,
                  row  |-> [r \in 0 .. KvHeads * T - 1 |->
                              KeyRow(l, r \div T, r % T, of(r % T))]],
       value |-> [rows |-> KvHeads * T,
                  row  |-> [r \in 0 .. KvHeads * T - 1 |->
                              ValueRow(l, r \div T, of(r % T))]]]

(* Layers below k have taken in the tokens ext, the others have not. *)
CachesAt(k, ext) ==
  \A l \in 0 .. Layers - 1 :
    caches[l] = CacheOf(l, IF l < k THEN history \o ext ELSE history)

(* Layer 0 is the first to be extended: its row count tells whether some   *)
(* failed call left extended layers behind.                                *)
Health ==
  IF \/ pc = "layers" /\ layer_index > 0
     \/ caches[0].key.rows = KvHeads * past_length
  THEN "sound" ELSE "stalled"

(* The variables have the shape the code gives them. *)
IsMatrix(m) == m.rows \in Nat /\ DOMAIN m.row = 0 .. m.rows - 1

TypeOK ==
  /\ DOMAIN caches = 0 .. Layers - 1
  /\ \A l \in 0 .. Layers - 1 :
       DOMAIN caches[l] = {"key", "value"} /\ IsMatrix(caches[l].key)
                                           /\ IsMatrix(caches[l].value)
  /\ past_length \in 0 .. MaxPositions
  /\ pc \in {"idle", "layers"}
  /\ tokens \in Prompts
  /\ position_start \in 0 .. MaxPositions
  /\ layer_index \in 0 .. Layers
  /\ history \in Histories \cup {<<>>}
  /\ response.status \in {"none", "logits", "invalid_argument", "bad_alloc"}

(* Between calls past_length_ counts the history, and the caches of a      *)
(* sound model hold, layer by layer and head by head, exactly the keys and *)
(* values the cache-free decoder computes for that history (the flat       *)
(* layout of group_query_attention.h, the commit of past_length_).         *)
CacheMirrorsHistory ==
  /\ past_length = Len(history)
  /\ pc = "idle" /\ Health = "sound" => CachesAt(0, <<>>)

(* The logits prefill and decode return are those of the cache-free        *)
(* decoder for the last tokens of the history.                             *)
LogitsFollowHistory ==
  response.status = "logits" =>
    \E n \in 1 .. Len(history) : response.logits = LastLogits(history, n)

(* A call is rejected by the kernels of layer 0 or not at all: an          *)
(* invalid_argument never leaves a half extended context (the guards of    *)
(* rotary_embedding and group_query_attention).                            *)
OnlyFirstLayerRejects ==
  pc = "layers" /\ layer_index \in 1 .. Layers - 1 => ~LayerRejects

(* Every state of the model is a state of TokenHistory, and every step one *)
(* of its steps or a stutter: a call is answered exactly when the model is *)
(* sound and the positions suffice, and a failure leaves nothing, a        *)
(* stalled model or a committed context.                                   *)
History == INSTANCE TokenHistory WITH
             pending <- pc = "layers", health <- Health

ImplementsTokenHistory == History!Spec

(* What of that history can be told without looking at a token.            *)
Lengths == INSTANCE ContextLength WITH
             length  <- Len(history),
             health  <- Health,
             pending <- pc = "layers",
             asked   <- Len(tokens),
             status  <- response.status

(* Callers that know the length of the context alone know which calls are  *)
(* served: the model serves and rejects calls as ForwardShapes does, which *)
(* runs forward statement by statement and has no tokens.                  *)
ImplementsContextLength == Lengths!Spec

(* A call to a sound model whose tokens fit is served: unless memory runs  *)
(* out it returns logits, whatever calls failed before.                    *)
ServableCallsAreServed ==
  (pc = "layers" /\ History!Servable) ~>
    (pc = "idle" /\ response.status \in {"logits", "bad_alloc"})

(* The inductive invariant.  A failure may have left the layers below k    *)
(* extended by the tokens ext of the failed call; then no call gets past   *)
(* layer 0.                                                                *)
Extensions == Prompts \ {<<>>}

FitsAfterHistory(ext) == Len(history) + Len(ext) <= MaxPositions

(* At the next layer to run, the stream rows are those of the cache-free   *)
(* decoder.                                                                *)
StreamFollowsHistory ==
  \A i \in 0 .. sequence - 1 :
    StreamIn[i] = Hidden(layer_index, Prefix(history \o tokens, position_start + i + 1))

CachesConsistent ==
  IF pc = "layers" /\ layer_index > 0
  THEN CachesAt(layer_index, tokens)
  ELSE \/ CachesAt(0, <<>>)
       \/ \E k \in 1 .. Layers, ext \in Extensions :
            FitsAfterHistory(ext) /\ CachesAt(k, ext)

InForward ==
  pc = "layers" =>
    /\ position_start = past_length
    /\ tokens = <<>> => past_length = 0
    /\ layer_index > 0 => tokens # <<>> /\ FitsAfterHistory(tokens)
    /\ tokens # <<>> /\ FitsAfterHistory(tokens) => StreamFollowsHistory

IInv ==
  /\ TypeOK
  /\ past_length = Len(history)
  /\ CachesConsistent
  /\ InForward
  /\ LogitsFollowHistory
=============================================================================
