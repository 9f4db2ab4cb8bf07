------------------------ MODULE ForwardShapes_proofs ------------------------
(***************************************************************************)
(* Proofs about ForwardShapes, for every configuration: whatever the       *)
(* number of layers and heads and the dimensions, no guard of a kernel but *)
(* the three on lengths ever fires.                                        *)
(*                                                                         *)
(* LocalsKnown gives the dimensions of the locals that each statement      *)
(* reads; CachesKnown what the caches hold while a call extends them.      *)
(***************************************************************************)
EXTENDS ForwardShapes, TLAPS

Stream == Dims(sequence, Hidden)
QueryDims == Dims(sequence, QueryDim)
KvDims == Dims(sequence, KvDim)
MlpDims == Dims(sequence, Intermediate)

LocalsKnown ==
  /\ pc # "idle" => local.residual = Stream
  /\ pc # "idle" /\ (layer_index > 0 \/ pc = "next_layer") => local.mlp_down = Stream
  /\ pc \in {"q_proj", "k_proj", "v_proj"} => local.attn_input = Stream
  /\ pc \in {"k_proj", "v_proj", "q_heads", "k_heads", "k_norm", "k_flat", "q_rotary",
             "k_rotary", "attention"} => local.query = QueryDims
  /\ pc \in {"q_norm", "q_flat"} => local.query = Dims(sequence * QueryHeads, HeadDim)
  /\ pc \in {"v_proj", "q_heads", "q_norm", "q_flat", "k_heads", "q_rotary", "k_rotary",
             "attention"} => local.key = KvDims
  /\ pc \in {"k_norm", "k_flat"} => local.key = Dims(sequence * KvHeads, HeadDim)
  /\ pc \in {"q_heads", "q_norm", "q_flat", "k_heads", "k_norm", "k_flat", "q_rotary",
             "k_rotary", "attention"} => local.value = KvDims
  /\ pc \in {"caches", "o_proj"} => local.attention = QueryDims
  /\ pc = "post_norm" => local.attention_output = Stream
  /\ pc \in {"gate_proj", "up_proj"} => local.mlp_input = Stream
  /\ pc \in {"up_proj", "silu"} => local.gate = MlpDims
  /\ pc \in {"silu", "silu_up"} => local.up = MlpDims
  /\ pc = "silu_up" => local.silu = MlpDims
  /\ pc = "down_proj" => local.silu_up = MlpDims
  /\ pc \in {"past_length", "logits"} => local.final_output = Stream

(* Every guard on lengths has let the call pass. *)
Accepted == layer_index > 0 \/ pc \in {"caches"} \cup AfterStore

CallKnown ==
  pc # "idle" =>
    /\ outcome = "none"
    /\ pc # "logits" => position_start = past_length
    /\ pc = "logits" => past_length = total_sequence
    /\ sequence = 0 => position_start = 0
    /\ pc \in {"k_rotary", "attention"} => total_sequence <= MaxPositions
    /\ Accepted => sequence > 0 /\ total_sequence <= MaxPositions
    /\ pc \in InLoop \/ layer_index = Layers

(* The layers whose caches the call has extended. *)
Extended == IF pc \in AfterStore THEN layer_index + 1 ELSE layer_index

SomeAhead ==
  \E k \in 0 .. Layers, more \in 0 .. MaxPositions - past_length : CachesAhead(k, more)

CachesKnown ==
  IF pc = "logits" THEN CachesAhead(0, 0)
  ELSE IF pc # "idle" /\ (Extended > 0 \/ pc = "caches") THEN CachesAhead(Extended, sequence)
  ELSE SomeAhead

IInv ==
  /\ TypeOK
  /\ OnlyLengthsAreRejected
  /\ outcome = "logits" => CachesAhead(0, 0)
  /\ LocalsKnown
  /\ CallKnown
  /\ CachesKnown

-----------------------------------------------------------------------------
(* The configuration. *)

LEMMA ConfigFacts ==
  /\ Layers \in Nat \ {0} /\ Hidden \in Nat \ {0} /\ QueryHeads \in Nat \ {0}
  /\ KvHeads \in Nat \ {0} /\ HeadDim \in Nat \ {0} /\ Intermediate \in Nat \ {0}
  /\ Vocab \in Nat \ {0} /\ MaxPositions \in Nat \ {0} /\ MaxPrompt \in Nat
  /\ QueryHeads % KvHeads = 0 /\ HeadDim % 2 = 0
  BY ConfigAssumption

LEMMA ProductPositive ==
  ASSUME NEW a \in Nat \ {0}, NEW b \in Nat \ {0} PROVE a * b \in Nat \ {0}
  BY SMT

LEMMA DivideProduct ==
  ASSUME NEW a \in Nat \ {0}, NEW q \in Nat PROVE (a * q) % a = 0 /\ (a * q) \div a = q
  BY SMT

LEMMA DimFacts ==
  QueryDim \in Nat \ {0} /\ KvDim \in Nat \ {0}
  BY ConfigFacts, ProductPositive DEF QueryDim, KvDim

-----------------------------------------------------------------------------
(* Dimensions and what the kernels return for those that forward passes. *)

LEMMA DimsFacts ==
  ASSUME NEW r \in Nat, NEW c \in Nat
  PROVE  /\ Dims(r, c).rows = r /\ Dims(r, c).cols = c
         /\ ~Rejected(Dims(r, c)) /\ IsDims(Dims(r, c))
  BY DEF Dims, Rejected, IsDims

LEMMA GuardFacts ==
  ASSUME NEW guard PROVE Rejected(Rejects(guard)) /\ Rejects(guard).guard = guard
  BY DEF Rejected, Rejects

LEMMA MatmulAccepts ==
  ASSUME NEW n \in Nat, NEW a \in Nat, NEW b \in Nat
  PROVE  Matmul(Dims(n, a), Dims(a, b)) = Dims(n, b)
  BY DEF Matmul, Dims

LEMMA NormAccepts ==
  ASSUME NEW n \in Nat, NEW a \in Nat
  PROVE  /\ LayerNorm(Dims(n, a), a) = Dims(n, a)
         /\ SkipLayerNorm(Dims(n, a), Dims(n, a), a) = Dims(n, a)
  BY DEF LayerNorm, SkipLayerNorm, Dims

(* reshape to the same number of elements.  A new number of rows of 0      *)
(* copies that of the input, which is 0 as well.                           *)
LEMMA ReshapeAccepts ==
  ASSUME NEW rows \in Nat, NEW cols \in Nat \ {0},
         NEW new_rows \in Nat, NEW new_cols \in Nat \ {0},
         rows * cols = new_rows * new_cols, new_rows = 0 <=> rows = 0
  PROVE  Reshape(Dims(rows, cols), new_rows, new_cols) = Dims(new_rows, new_cols)
<1>1. K!CopiedDim(new_rows, rows) = new_rows /\ K!CopiedDim(new_cols, cols) = new_cols
  BY DEF K!CopiedDim
<1>2. K!ReshapedDims(rows, cols, new_rows, new_cols) = Dims(new_rows, new_cols)
  BY <1>1 DEF K!ReshapedDims, K!CannotInfer, K!Inferred, Dims
<1>3. Dims(new_rows, new_cols) # K!NoDims
  BY DEF Dims, K!NoDims
<1>. QED
  BY <1>2, <1>3, DimsFacts DEF Reshape

(* Queries and keys are reshaped to one row per head and token, and back.  *)
LEMMA HeadsAccept ==
  ASSUME NEW n \in Nat
  PROVE  /\ Reshape(Dims(n, QueryDim), n * QueryHeads, HeadDim) = Dims(n * QueryHeads, HeadDim)
         /\ Reshape(Dims(n * QueryHeads, HeadDim), n, QueryDim) = Dims(n, QueryDim)
         /\ Reshape(Dims(n, KvDim), n * KvHeads, HeadDim) = Dims(n * KvHeads, HeadDim)
         /\ Reshape(Dims(n * KvHeads, HeadDim), n, KvDim) = Dims(n, KvDim)
<1>1. /\ Reshape(Dims(n, QueryDim), n * QueryHeads, HeadDim) = Dims(n * QueryHeads, HeadDim)
      /\ Reshape(Dims(n * QueryHeads, HeadDim), n, QueryDim) = Dims(n, QueryDim)
  <2> DEFINE split == n * QueryHeads
  <2>1. split \in Nat /\ (split = 0 <=> n = 0)
    BY ConfigFacts
  <2>2. split * HeadDim = n * QueryDim /\ n * QueryDim = split * HeadDim
    BY ConfigFacts DEF QueryDim
  <2> HIDE DEF split
  <2>3. /\ Reshape(Dims(n, QueryDim), split, HeadDim) = Dims(split, HeadDim)
        /\ Reshape(Dims(split, HeadDim), n, QueryDim) = Dims(n, QueryDim)
    BY <2>1, <2>2, ConfigFacts, DimFacts, ReshapeAccepts
  <2>. QED
    BY <2>3 DEF split
<1>2. /\ Reshape(Dims(n, KvDim), n * KvHeads, HeadDim) = Dims(n * KvHeads, HeadDim)
      /\ Reshape(Dims(n * KvHeads, HeadDim), n, KvDim) = Dims(n, KvDim)
  <2> DEFINE split == n * KvHeads
  <2>1. split \in Nat /\ (split = 0 <=> n = 0)
    BY ConfigFacts
  <2>2. split * HeadDim = n * KvDim /\ n * KvDim = split * HeadDim
    BY ConfigFacts DEF KvDim
  <2> HIDE DEF split
  <2>3. /\ Reshape(Dims(n, KvDim), split, HeadDim) = Dims(split, HeadDim)
        /\ Reshape(Dims(split, HeadDim), n, KvDim) = Dims(n, KvDim)
    BY <2>1, <2>2, ConfigFacts, DimFacts, ReshapeAccepts
  <2>. QED
    BY <2>3 DEF split
<1>. QED
  BY <1>1, <1>2

LEMMA RotaryAccepts ==
  ASSUME NEW n \in Nat, NEW heads \in Nat \ {0}, NEW position \in Nat
  PROVE  LET table == Dims(MaxPositions, RopeDim)
         IN  Rotary(Dims(n, heads * HeadDim), position, table, table, heads)
               = IF position + n > MaxPositions THEN Rejects("position")
                 ELSE Dims(n, heads * HeadDim)
<1> DEFINE flat  == heads * HeadDim
           table == Dims(MaxPositions, RopeDim)
<1>1. flat % heads = 0 /\ flat \div heads = HeadDim
  BY ConfigFacts, DivideProduct
<1>2. flat \in Nat
  BY ConfigFacts, ProductPositive
<1>3. RopeDim \in Nat
  BY ConfigFacts, SMT DEF RopeDim
<1> HIDE DEF flat
<1>4. /\ Dims(n, flat).rows = n /\ Dims(n, flat).cols = flat
      /\ table.rows = MaxPositions /\ table.cols = RopeDim
  BY <1>2, <1>3, ConfigFacts, DimsFacts
<1> HIDE DEF table
<1>5. Rotary(Dims(n, flat), position, table, table, heads)
        = IF position + n > MaxPositions THEN Rejects("position") ELSE Dims(n, flat)
  BY <1>1, <1>4, ConfigFacts DEF Rotary, PastLastPosition, RopeDim
<1>. QED
  BY <1>5 DEF flat, table

LEMMA AttentionAccepts ==
  ASSUME NEW n \in Nat, NEW past \in Nat, NEW total \in Nat
  PROVE  Attention(Dims(n, QueryDim), Dims(n, KvDim), Dims(n, KvDim), CacheOfLength(past), total)
           = IF total # past + n THEN Rejects("total")
             ELSE IF total = 0 THEN Rejects("seqlens_k")
             ELSE Dims(n, QueryDim)
<1> DEFINE rows  == KvHeads * past
           query == Dims(n, QueryDim)
           key   == Dims(n, KvDim)
           cache == CacheOfLength(past)
<1>1. rows \in Nat /\ rows % KvHeads = 0 /\ rows \div KvHeads = past
  BY ConfigFacts, DivideProduct, SMT
<1>2. QueryDim % QueryHeads = 0 /\ QueryDim \div QueryHeads = HeadDim
  BY ConfigFacts, DivideProduct DEF QueryDim
<1>3. /\ query.rows = n /\ query.cols = QueryDim /\ key.rows = n /\ key.cols = KvDim
      /\ Dims(rows, HeadDim).rows = rows /\ Dims(rows, HeadDim).cols = HeadDim
  BY <1>1, ConfigFacts, DimFacts, DimsFacts
<1>4. cache.key = Dims(rows, HeadDim) /\ cache.value = Dims(rows, HeadDim)
  BY DEF CacheOfLength
<1> HIDE DEF rows, query, key, cache
<1>5. AttentionDims(query, key, key, cache)
  BY <1>1, <1>2, <1>3, <1>4, ConfigFacts DEF AttentionDims, KvDim
<1>6. total - 1 < 0 <=> total = 0
  OBVIOUS
<1>7. Attention(query, key, key, cache, total)
        = IF total # past + n THEN Rejects("total")
          ELSE IF total = 0 THEN Rejects("seqlens_k")
          ELSE query
  BY <1>1, <1>3, <1>4, <1>5, <1>6 DEF Attention
<1>. QED
  BY <1>7 DEF query, key, cache

-----------------------------------------------------------------------------
(* Steps of the specification, by what they do to the invariant. *)

(* Whatever the statement, some layers' caches may be ahead. *)
LEMMA SomeAreAhead ==
  ASSUME IInv PROVE SomeAhead
<1>1. Layers \in Nat /\ MaxPositions \in Nat /\ past_length \in 0 .. MaxPositions
      /\ layer_index \in 0 .. Layers /\ sequence \in Nat /\ position_start \in Nat
      /\ 0 \in 0 .. Layers /\ 0 \in 0 .. MaxPositions - past_length
  BY ConfigFacts DEF IInv, TypeOK
<1>2. CASE pc = "logits"
  BY <1>1, <1>2 DEF IInv, CachesKnown, SomeAhead
<1>3. CASE pc # "logits" /\ pc # "idle" /\ Extended > 0
  <2>1. CachesAhead(Extended, sequence)
    BY <1>3 DEF IInv, CachesKnown
  <2>2. Extended \in 0 .. Layers
    BY <1>1, <1>3 DEF IInv, TypeOK, Extended, AfterStore, InLoop
  <2>3. Accepted
    BY <1>1, <1>3 DEF Extended, Accepted
  <2>4. sequence \in 0 .. MaxPositions - past_length
    BY <1>1, <1>3, <2>3 DEF IInv, CallKnown, total_sequence
  <2>. QED
    BY <2>1, <2>2, <2>4 DEF SomeAhead
<1>4. CASE pc = "caches" /\ ~(Extended > 0)
  <2>1. CachesAhead(Extended, sequence) /\ Extended = 0
    BY <1>1, <1>4 DEF IInv, CachesKnown, Extended, AfterStore
  <2>2. CachesAhead(0, 0)
    BY <2>1, <1>1 DEF CachesAhead
  <2>. QED
    BY <1>1, <2>2 DEF SomeAhead
<1>5. CASE pc # "logits" /\ pc # "caches" /\ (pc = "idle" \/ ~(Extended > 0))
  BY <1>5 DEF IInv, CachesKnown
<1>. QED
  BY <1>2, <1>3, <1>4, <1>5

(* A call that ends keeps the invariant when it ends for a reason that     *)
(* OnlyLengthsAreRejected allows.                                          *)
LEMMA LeaveKeeps ==
  ASSUME IInv, pc # "idle", NEW how, Leave(how), UNCHANGED <<call, layer_index, model>>,
         how \in {"logits", "bad_alloc", "position", "total", "seqlens_k"},
         how = "logits" => CachesAhead(0, 0),
         how = "position" => total_sequence > MaxPositions,
         how = "seqlens_k" => sequence = 0,
         how = "total" => caches[0].key.rows > KvHeads * past_length,
         how \in {"position", "total", "seqlens_k"} => layer_index = 0
  PROVE  IInv'
<1>1. SomeAhead' /\ (how = "logits" => CachesAhead(0, 0)')
  BY SomeAreAhead DEF SomeAhead, CachesAhead, model
<1>2. TypeOK'
  <2>1. DOMAIN local' = DOMAIN NoLocals /\ \A n \in DOMAIN local' : IsDims(local'[n])
    BY DimsFacts DEF Leave, NoLocals, Unset
  <2>. QED
    BY <2>1 DEF IInv, TypeOK, Leave, call, model, InLoop
<1>3. OnlyLengthsAreRejected'
  BY DEF OnlyLengthsAreRejected, Leave, call, model, total_sequence
<1>4. LocalsKnown' /\ CallKnown'
  BY DEF LocalsKnown, CallKnown, Leave
<1>5. CachesKnown'
  BY <1>1 DEF CachesKnown, Leave
<1>. QED
  BY <1>1, <1>2, <1>3, <1>4, <1>5 DEF IInv, Leave

(* What an assignment to some locals changes. *)
LEMMA AssignChanges ==
  ASSUME IInv, NEW here, NEW next, NEW names, NEW result, Assign(here, next, names, result),
         ~Rejected(result), IsDims(result)
  PROVE  /\ pc = here /\ pc' = next
         /\ UNCHANGED <<sequence, position_start, layer_index, caches, past_length, outcome>>
         /\ DOMAIN local' = DOMAIN NoLocals
         /\ \A n \in DOMAIN NoLocals : local'[n] = IF n \in names THEN result ELSE local[n]
         /\ \A n \in DOMAIN NoLocals : IsDims(local'[n])
<1>1. DOMAIN local = DOMAIN NoLocals /\ \A n \in DOMAIN NoLocals : IsDims(local[n])
  BY DEF IInv, TypeOK
<1>2. local' = [n \in DOMAIN local |-> IF n \in names THEN result ELSE local[n]]
  BY DEF Assign
<1>. QED
  BY <1>1, <1>2 DEF Assign, call, model

(* An assignment and the statement after it, in the same part of forward.  *)
Straight(here, next) ==
  \/ /\ here \in InLoop \ {"caches", "next_layer"} /\ next \in InLoop
     /\ (here \in AfterStore) <=> (next \in AfterStore)
  \/ here = "final_norm" /\ next = "past_length"

(* An assignment keeps the invariant when the locals have the dimensions   *)
(* that the next statement expects, if it is in the same part of forward.  *)
LEMMA AssignKeeps ==
  ASSUME IInv, NEW here, NEW next, NEW names, NEW result, Assign(here, next, names, result),
         ~Rejected(result), IsDims(result),
         Straight(here, next),
         next \in {"k_rotary", "attention"} => total_sequence <= MaxPositions,
         next = "caches" =>
           sequence > 0 /\ total_sequence <= MaxPositions /\ CachesAhead(layer_index, sequence),
         LocalsKnown'
  PROVE  IInv'
<1>1. /\ pc = here /\ pc' = next
      /\ UNCHANGED <<sequence, position_start, layer_index, caches, past_length, outcome>>
      /\ DOMAIN local' = DOMAIN NoLocals
      /\ \A n \in DOMAIN NoLocals : IsDims(local'[n])
  BY AssignChanges
<1>0. /\ (here \in InLoop /\ next \in InLoop) \/ (here = "final_norm" /\ next = "past_length")
      /\ here # "caches" /\ here # "next_layer"
      /\ (here \in AfterStore) <=> (next \in AfterStore)
  BY DEF Straight, InLoop, AfterStore
<1>2. pc # "idle" /\ pc # "logits" /\ next # "idle" /\ next # "logits"
  BY <1>0, <1>1 DEF InLoop
<1>3. outcome = "none" /\ outcome' = "none"
  BY <1>1, <1>2 DEF IInv, CallKnown
<1>4. TypeOK'
  BY <1>0, <1>1, <1>3 DEF IInv, TypeOK, InLoop, AfterLoop
<1>5. CallKnown'
  <2>1. pc' \in InLoop \/ layer_index' = Layers
    BY <1>0, <1>1, <1>2 DEF IInv, CallKnown, InLoop
  <2>2. Accepted' => sequence' > 0 /\ total_sequence' <= MaxPositions
    BY <1>0, <1>1, <1>2 DEF IInv, CallKnown, Accepted, total_sequence
  <2>. QED
    BY <1>1, <1>2, <1>3, <2>1, <2>2 DEF IInv, CallKnown, total_sequence
<1>6. CachesKnown'
  <2>1. Extended' = Extended
    BY <1>0, <1>1 DEF Extended
  <2>2. \A k, more : CachesAhead(k, more)' <=> CachesAhead(k, more)
    BY <1>1 DEF CachesAhead
  <2>3. SomeAhead' <=> SomeAhead
    BY <1>1, <2>2 DEF SomeAhead
  <2>4. CASE next = "caches"
    BY <1>0, <1>1, <2>1, <2>2, <2>4 DEF CachesKnown, Extended, AfterStore
  <2>5. CASE next # "caches"
    BY <1>0, <1>1, <1>2, <2>1, <2>2, <2>3, <2>5 DEF IInv, CachesKnown
  <2>. QED
    BY <2>4, <2>5
<1>7. OnlyLengthsAreRejected' /\ (outcome' = "logits" => CachesAhead(0, 0)')
  BY <1>3 DEF OnlyLengthsAreRejected
<1>. QED
  BY <1>4, <1>5, <1>6, <1>7 DEF IInv

-----------------------------------------------------------------------------
(* The statements whose guards never fire. *)

(* The three projections of the normalised stream. *)
LEMMA ProjectKeeps ==
  ASSUME IInv, Project PROVE IInv'
<1>1. sequence \in Nat /\ sequence * QueryHeads \in Nat /\ sequence * KvHeads \in Nat
  BY ConfigFacts, SMT DEF IInv, TypeOK
<1>2. CASE Assign("q_proj", "k_proj", {"query"},
                Matmul(local.attn_input, Dims(Hidden, QueryDim)))
  <2>1. pc = "q_proj"
    BY <1>2 DEF Assign
  <2>2. local.attn_input = Stream
    BY <2>1, ConfigFacts DEF IInv, LocalsKnown
  <2>3. Matmul(local.attn_input, Dims(Hidden, QueryDim)) = QueryDims
    BY <1>1, <2>2, MatmulAccepts, ConfigFacts, DimFacts
    DEF Stream, QueryDims
  <2>4. ~Rejected(QueryDims) /\ IsDims(QueryDims)
    BY <1>1, ConfigFacts, DimFacts, DimsFacts DEF QueryDims
  <2>5. Assign("q_proj", "k_proj", {"query"}, QueryDims)
    BY <1>2, <2>3
  <2>6. LocalsKnown'
    BY <2>1, <2>4, <2>5, AssignChanges
    DEF IInv, LocalsKnown, NoLocals, Stream, QueryDims, KvDims, MlpDims
  <2>7. Straight("q_proj", "k_proj") /\ "k_proj" \notin {"k_rotary", "attention", "caches"}
    BY DEF Straight, InLoop, AfterStore
  <2>. QED
    BY <2>4, <2>5, <2>6, <2>7, AssignKeeps
<1>3. CASE Assign("k_proj", "v_proj", {"key"},
                Matmul(local.attn_input, Dims(Hidden, KvDim)))
  <2>1. pc = "k_proj"
    BY <1>3 DEF Assign
  <2>2. local.attn_input = Stream
    BY <2>1, ConfigFacts DEF IInv, LocalsKnown
  <2>3. Matmul(local.attn_input, Dims(Hidden, KvDim)) = KvDims
    BY <1>1, <2>2, MatmulAccepts, ConfigFacts, DimFacts
    DEF Stream, KvDims
  <2>4. ~Rejected(KvDims) /\ IsDims(KvDims)
    BY <1>1, ConfigFacts, DimFacts, DimsFacts DEF KvDims
  <2>5. Assign("k_proj", "v_proj", {"key"}, KvDims)
    BY <1>3, <2>3
  <2>6. LocalsKnown'
    BY <2>1, <2>4, <2>5, AssignChanges
    DEF IInv, LocalsKnown, NoLocals, Stream, QueryDims, KvDims, MlpDims
  <2>7. Straight("k_proj", "v_proj") /\ "v_proj" \notin {"k_rotary", "attention", "caches"}
    BY DEF Straight, InLoop, AfterStore
  <2>. QED
    BY <2>4, <2>5, <2>6, <2>7, AssignKeeps
<1>4. CASE Assign("v_proj", "q_heads", {"value"},
                Matmul(local.attn_input, Dims(Hidden, KvDim)))
  <2>1. pc = "v_proj"
    BY <1>4 DEF Assign
  <2>2. local.attn_input = Stream
    BY <2>1, ConfigFacts DEF IInv, LocalsKnown
  <2>3. Matmul(local.attn_input, Dims(Hidden, KvDim)) = KvDims
    BY <1>1, <2>2, MatmulAccepts, ConfigFacts, DimFacts
    DEF Stream, KvDims
  <2>4. ~Rejected(KvDims) /\ IsDims(KvDims)
    BY <1>1, ConfigFacts, DimFacts, DimsFacts DEF KvDims
  <2>5. Assign("v_proj", "q_heads", {"value"}, KvDims)
    BY <1>4, <2>3
  <2>6. LocalsKnown'
    BY <2>1, <2>4, <2>5, AssignChanges
    DEF IInv, LocalsKnown, NoLocals, Stream, QueryDims, KvDims, MlpDims
  <2>7. Straight("v_proj", "q_heads") /\ "q_heads" \notin {"k_rotary", "attention", "caches"}
    BY DEF Straight, InLoop, AfterStore
  <2>. QED
    BY <2>4, <2>5, <2>6, <2>7, AssignKeeps
<1>. QED
  BY <1>2, <1>3, <1>4 DEF Project

(* The norms of the heads, between two reshapes. *)
LEMMA HeadNormsKeeps ==
  ASSUME IInv, HeadNorms PROVE IInv'
<1>1. sequence \in Nat /\ sequence * QueryHeads \in Nat /\ sequence * KvHeads \in Nat
  BY ConfigFacts, SMT DEF IInv, TypeOK
<1>2. CASE Assign("q_heads", "q_norm", {"query"},
                Reshape(local.query, sequence * QueryHeads, HeadDim))
  <2>1. pc = "q_heads"
    BY <1>2 DEF Assign
  <2>2. local.query = QueryDims
    BY <2>1, ConfigFacts DEF IInv, LocalsKnown
  <2>3. Reshape(Dims(sequence, QueryDim), sequence * QueryHeads, HeadDim)
          = Dims(sequence * QueryHeads, HeadDim)
    BY <1>1, HeadsAccept
  <2>4. Reshape(local.query, sequence * QueryHeads, HeadDim) = Dims(sequence * QueryHeads, HeadDim)
    BY <2>2, <2>3 DEF QueryDims, KvDims
  <2>5. ~Rejected(Dims(sequence * QueryHeads, HeadDim)) /\ IsDims(Dims(sequence * QueryHeads, HeadDim))
    BY <1>1, ConfigFacts, DimFacts, DimsFacts
  <2>6. Assign("q_heads", "q_norm", {"query"}, Dims(sequence * QueryHeads, HeadDim))
    BY <1>2, <2>4
  <2>7. LocalsKnown'
    BY <2>1, <2>5, <2>6, AssignChanges
    DEF IInv, LocalsKnown, NoLocals, Stream, QueryDims, KvDims, MlpDims
  <2>8. Straight("q_heads", "q_norm") /\ "q_norm" \notin {"k_rotary", "attention", "caches"}
    BY DEF Straight, InLoop, AfterStore
  <2>. QED
    BY <2>5, <2>6, <2>7, <2>8, AssignKeeps
<1>3. CASE Assign("q_norm", "q_flat", {"query"},
                LayerNorm(local.query, HeadDim))
  <2>1. pc = "q_norm"
    BY <1>3 DEF Assign
  <2>2. local.query = Dims(sequence * QueryHeads, HeadDim)
    BY <2>1, ConfigFacts DEF IInv, LocalsKnown
  <2>3. LayerNorm(local.query, HeadDim) = Dims(sequence * QueryHeads, HeadDim)
    BY <1>1, <2>2, NormAccepts, ConfigFacts, DimFacts
  <2>4. ~Rejected(Dims(sequence * QueryHeads, HeadDim)) /\ IsDims(Dims(sequence * QueryHeads, HeadDim))
    BY <1>1, ConfigFacts, DimFacts, DimsFacts
  <2>5. Assign("q_norm", "q_flat", {"query"}, Dims(sequence * QueryHeads, HeadDim))
    BY <1>3, <2>3
  <2>6. LocalsKnown'
    BY <2>1, <2>4, <2>5, AssignChanges
    DEF IInv, LocalsKnown, NoLocals, Stream, QueryDims, KvDims, MlpDims
  <2>7. Straight("q_norm", "q_flat") /\ "q_flat" \notin {"k_rotary", "attention", "caches"}
    BY DEF Straight, InLoop, AfterStore
  <2>. QED
    BY <2>4, <2>5, <2>6, <2>7, AssignKeeps
<1>4. CASE Assign("q_flat", "k_heads", {"query"},
                Reshape(local.query, sequence, QueryDim))
  <2>1. pc = "q_flat"
    BY <1>4 DEF Assign
  <2>2. local.query = Dims(sequence * QueryHeads, HeadDim)
    BY <2>1, ConfigFacts DEF IInv, LocalsKnown
  <2>3. Reshape(Dims(sequence * QueryHeads, HeadDim), sequence, QueryDim)
          = Dims(sequence, QueryDim)
    BY <1>1, HeadsAccept
  <2>4. Reshape(local.query, sequence, QueryDim) = QueryDims
    BY <2>2, <2>3 DEF QueryDims, KvDims
  <2>5. ~Rejected(QueryDims) /\ IsDims(QueryDims)
    BY <1>1, ConfigFacts, DimFacts, DimsFacts DEF QueryDims
  <2>6. Assign("q_flat", "k_heads", {"query"}, QueryDims)
    BY <1>4, <2>4
  <2>7. LocalsKnown'
    BY <2>1, <2>5, <2>6, AssignChanges
    DEF IInv, LocalsKnown, NoLocals, Stream, QueryDims, KvDims, MlpDims
  <2>8. Straight("q_flat", "k_heads") /\ "k_heads" \notin {"k_rotary", "attention", "caches"}
    BY DEF Straight, InLoop, AfterStore
  <2>. QED
    BY <2>5, <2>6, <2>7, <2>8, AssignKeeps
<1>5. CASE Assign("k_heads", "k_norm", {"key"},
                Reshape(local.key, sequence * KvHeads, HeadDim))
  <2>1. pc = "k_heads"
    BY <1>5 DEF Assign
  <2>2. local.key = KvDims
    BY <2>1, ConfigFacts DEF IInv, LocalsKnown
  <2>3. Reshape(Dims(sequence, KvDim), sequence * KvHeads, HeadDim)
          = Dims(sequence * KvHeads, HeadDim)
    BY <1>1, HeadsAccept
  <2>4. Reshape(local.key, sequence * KvHeads, HeadDim) = Dims(sequence * KvHeads, HeadDim)
    BY <2>2, <2>3 DEF QueryDims, KvDims
  <2>5. ~Rejected(Dims(sequence * KvHeads, HeadDim)) /\ IsDims(Dims(sequence * KvHeads, HeadDim))
    BY <1>1, ConfigFacts, DimFacts, DimsFacts
  <2>6. Assign("k_heads", "k_norm", {"key"}, Dims(sequence * KvHeads, HeadDim))
    BY <1>5, <2>4
  <2>7. LocalsKnown'
    BY <2>1, <2>5, <2>6, AssignChanges
    DEF IInv, LocalsKnown, NoLocals, Stream, QueryDims, KvDims, MlpDims
  <2>8. Straight("k_heads", "k_norm") /\ "k_norm" \notin {"k_rotary", "attention", "caches"}
    BY DEF Straight, InLoop, AfterStore
  <2>. QED
    BY <2>5, <2>6, <2>7, <2>8, AssignKeeps
<1>6. CASE Assign("k_norm", "k_flat", {"key"},
                LayerNorm(local.key, HeadDim))
  <2>1. pc = "k_norm"
    BY <1>6 DEF Assign
  <2>2. local.key = Dims(sequence * KvHeads, HeadDim)
    BY <2>1, ConfigFacts DEF IInv, LocalsKnown
  <2>3. LayerNorm(local.key, HeadDim) = Dims(sequence * KvHeads, HeadDim)
    BY <1>1, <2>2, NormAccepts, ConfigFacts, DimFacts
  <2>4. ~Rejected(Dims(sequence * KvHeads, HeadDim)) /\ IsDims(Dims(sequence * KvHeads, HeadDim))
    BY <1>1, ConfigFacts, DimFacts, DimsFacts
  <2>5. Assign("k_norm", "k_flat", {"key"}, Dims(sequence * KvHeads, HeadDim))
    BY <1>6, <2>3
  <2>6. LocalsKnown'
    BY <2>1, <2>4, <2>5, AssignChanges
    DEF IInv, LocalsKnown, NoLocals, Stream, QueryDims, KvDims, MlpDims
  <2>7. Straight("k_norm", "k_flat") /\ "k_flat" \notin {"k_rotary", "attention", "caches"}
    BY DEF Straight, InLoop, AfterStore
  <2>. QED
    BY <2>4, <2>5, <2>6, <2>7, AssignKeeps
<1>7. CASE Assign("k_flat", "q_rotary", {"key"},
                Reshape(local.key, sequence, KvDim))
  <2>1. pc = "k_flat"
    BY <1>7 DEF Assign
  <2>2. local.key = Dims(sequence * KvHeads, HeadDim)
    BY <2>1, ConfigFacts DEF IInv, LocalsKnown
  <2>3. Reshape(Dims(sequence * KvHeads, HeadDim), sequence, KvDim)
          = Dims(sequence, KvDim)
    BY <1>1, HeadsAccept
  <2>4. Reshape(local.key, sequence, KvDim) = KvDims
    BY <2>2, <2>3 DEF QueryDims, KvDims
  <2>5. ~Rejected(KvDims) /\ IsDims(KvDims)
    BY <1>1, ConfigFacts, DimFacts, DimsFacts DEF KvDims
  <2>6. Assign("k_flat", "q_rotary", {"key"}, KvDims)
    BY <1>7, <2>4
  <2>7. LocalsKnown'
    BY <2>1, <2>5, <2>6, AssignChanges
    DEF IInv, LocalsKnown, NoLocals, Stream, QueryDims, KvDims, MlpDims
  <2>8. Straight("k_flat", "q_rotary") /\ "q_rotary" \notin {"k_rotary", "attention", "caches"}
    BY DEF Straight, InLoop, AfterStore
  <2>. QED
    BY <2>5, <2>6, <2>7, <2>8, AssignKeeps
<1>. QED
  BY <1>2, <1>3, <1>4, <1>5, <1>6, <1>7 DEF HeadNorms

(* The output projection and the residual after it. *)
LEMMA AttentionOutputKeeps ==
  ASSUME IInv, AttentionOutput PROVE IInv'
<1>1. sequence \in Nat /\ sequence * QueryHeads \in Nat /\ sequence * KvHeads \in Nat
  BY ConfigFacts, SMT DEF IInv, TypeOK
<1>2. CASE Assign("o_proj", "post_norm", {"attention_output"},
                Matmul(local.attention, Dims(QueryDim, Hidden)))
  <2>1. pc = "o_proj"
    BY <1>2 DEF Assign
  <2>2. local.attention = QueryDims
    BY <2>1, ConfigFacts DEF IInv, LocalsKnown
  <2>3. Matmul(local.attention, Dims(QueryDim, Hidden)) = Stream
    BY <1>1, <2>2, MatmulAccepts, ConfigFacts, DimFacts
    DEF Stream, QueryDims
  <2>4. ~Rejected(Stream) /\ IsDims(Stream)
    BY <1>1, ConfigFacts, DimFacts, DimsFacts DEF Stream
  <2>5. Assign("o_proj", "post_norm", {"attention_output"}, Stream)
    BY <1>2, <2>3
  <2>6. LocalsKnown'
    BY <2>1, <2>4, <2>5, AssignChanges
    DEF IInv, LocalsKnown, NoLocals, Stream, QueryDims, KvDims, MlpDims
  <2>7. Straight("o_proj", "post_norm") /\ "post_norm" \notin {"k_rotary", "attention", "caches"}
    BY DEF Straight, InLoop, AfterStore
  <2>. QED
    BY <2>4, <2>5, <2>6, <2>7, AssignKeeps
<1>3. CASE Assign("post_norm", "gate_proj", {"mlp_input", "residual"},
                SkipLayerNorm(local.residual, local.attention_output, Hidden))
  <2>1. pc = "post_norm"
    BY <1>3 DEF Assign
  <2>2. local.residual = Stream /\ local.attention_output = Stream
    BY <2>1, ConfigFacts DEF IInv, LocalsKnown
  <2>3. SkipLayerNorm(local.residual, local.attention_output, Hidden) = Stream
    BY <1>1, <2>2, NormAccepts, ConfigFacts, DimFacts
    DEF Stream
  <2>4. ~Rejected(Stream) /\ IsDims(Stream)
    BY <1>1, ConfigFacts, DimFacts, DimsFacts DEF Stream
  <2>5. Assign("post_norm", "gate_proj", {"mlp_input", "residual"}, Stream)
    BY <1>3, <2>3
  <2>6. LocalsKnown'
    BY <2>1, <2>4, <2>5, AssignChanges
    DEF IInv, LocalsKnown, NoLocals, Stream, QueryDims, KvDims, MlpDims
  <2>7. Straight("post_norm", "gate_proj") /\ "gate_proj" \notin {"k_rotary", "attention", "caches"}
    BY DEF Straight, InLoop, AfterStore
  <2>. QED
    BY <2>4, <2>5, <2>6, <2>7, AssignKeeps
<1>. QED
  BY <1>2, <1>3 DEF AttentionOutput

(* The gated feed-forward network. *)
LEMMA MlpKeeps ==
  ASSUME IInv, MlpStatements PROVE IInv'
<1>1. sequence \in Nat /\ sequence * QueryHeads \in Nat /\ sequence * KvHeads \in Nat
  BY ConfigFacts, SMT DEF IInv, TypeOK
<1>2. CASE Assign("gate_proj", "up_proj", {"gate"},
                Matmul(local.mlp_input, Dims(Hidden, Intermediate)))
  <2>1. pc = "gate_proj"
    BY <1>2 DEF Assign
  <2>2. local.mlp_input = Stream
    BY <2>1, ConfigFacts DEF IInv, LocalsKnown
  <2>3. Matmul(local.mlp_input, Dims(Hidden, Intermediate)) = MlpDims
    BY <1>1, <2>2, MatmulAccepts, ConfigFacts, DimFacts
    DEF Stream, MlpDims
  <2>4. ~Rejected(MlpDims) /\ IsDims(MlpDims)
    BY <1>1, ConfigFacts, DimFacts, DimsFacts DEF MlpDims
  <2>5. Assign("gate_proj", "up_proj", {"gate"}, MlpDims)
    BY <1>2, <2>3
  <2>6. LocalsKnown'
    BY <2>1, <2>4, <2>5, AssignChanges
    DEF IInv, LocalsKnown, NoLocals, Stream, QueryDims, KvDims, MlpDims
  <2>7. Straight("gate_proj", "up_proj") /\ "up_proj" \notin {"k_rotary", "attention", "caches"}
    BY DEF Straight, InLoop, AfterStore
  <2>. QED
    BY <2>4, <2>5, <2>6, <2>7, AssignKeeps
<1>3. CASE Assign("up_proj", "silu", {"up"},
                Matmul(local.mlp_input, Dims(Hidden, Intermediate)))
  <2>1. pc = "up_proj"
    BY <1>3 DEF Assign
  <2>2. local.mlp_input = Stream
    BY <2>1, ConfigFacts DEF IInv, LocalsKnown
  <2>3. Matmul(local.mlp_input, Dims(Hidden, Intermediate)) = MlpDims
    BY <1>1, <2>2, MatmulAccepts, ConfigFacts, DimFacts
    DEF Stream, MlpDims
  <2>4. ~Rejected(MlpDims) /\ IsDims(MlpDims)
    BY <1>1, ConfigFacts, DimFacts, DimsFacts DEF MlpDims
  <2>5. Assign("up_proj", "silu", {"up"}, MlpDims)
    BY <1>3, <2>3
  <2>6. LocalsKnown'
    BY <2>1, <2>4, <2>5, AssignChanges
    DEF IInv, LocalsKnown, NoLocals, Stream, QueryDims, KvDims, MlpDims
  <2>7. Straight("up_proj", "silu") /\ "silu" \notin {"k_rotary", "attention", "caches"}
    BY DEF Straight, InLoop, AfterStore
  <2>. QED
    BY <2>4, <2>5, <2>6, <2>7, AssignKeeps
<1>4. CASE Assign("silu", "silu_up", {"silu"},
                Mul(local.gate, Sigmoid(local.gate)))
  <2>1. pc = "silu"
    BY <1>4 DEF Assign
  <2>2. Mul(local.gate, Sigmoid(local.gate)) = MlpDims
    BY <2>1 DEF IInv, LocalsKnown, Mul, Sigmoid
  <2>3. ~Rejected(MlpDims) /\ IsDims(MlpDims)
    BY <1>1, ConfigFacts, DimFacts, DimsFacts DEF MlpDims
  <2>4. Assign("silu", "silu_up", {"silu"}, MlpDims)
    BY <1>4, <2>2
  <2>5. LocalsKnown'
    BY <2>1, <2>3, <2>4, AssignChanges
    DEF IInv, LocalsKnown, NoLocals, Stream, QueryDims, KvDims, MlpDims
  <2>6. Straight("silu", "silu_up") /\ "silu_up" \notin {"k_rotary", "attention", "caches"}
    BY DEF Straight, InLoop, AfterStore
  <2>. QED
    BY <2>3, <2>4, <2>5, <2>6, AssignKeeps
<1>5. CASE Assign("silu_up", "down_proj", {"silu_up"},
                Mul(local.silu, local.up))
  <2>1. pc = "silu_up"
    BY <1>5 DEF Assign
  <2>2. Mul(local.silu, local.up) = MlpDims
    BY <2>1 DEF IInv, LocalsKnown, Mul, Sigmoid
  <2>3. ~Rejected(MlpDims) /\ IsDims(MlpDims)
    BY <1>1, ConfigFacts, DimFacts, DimsFacts DEF MlpDims
  <2>4. Assign("silu_up", "down_proj", {"silu_up"}, MlpDims)
    BY <1>5, <2>2
  <2>5. LocalsKnown'
    BY <2>1, <2>3, <2>4, AssignChanges
    DEF IInv, LocalsKnown, NoLocals, Stream, QueryDims, KvDims, MlpDims
  <2>6. Straight("silu_up", "down_proj") /\ "down_proj" \notin {"k_rotary", "attention", "caches"}
    BY DEF Straight, InLoop, AfterStore
  <2>. QED
    BY <2>3, <2>4, <2>5, <2>6, AssignKeeps
<1>6. CASE Assign("down_proj", "next_layer", {"mlp_down"},
                Matmul(local.silu_up, Dims(Intermediate, Hidden)))
  <2>1. pc = "down_proj"
    BY <1>6 DEF Assign
  <2>2. local.silu_up = MlpDims
    BY <2>1, ConfigFacts DEF IInv, LocalsKnown
  <2>3. Matmul(local.silu_up, Dims(Intermediate, Hidden)) = Stream
    BY <1>1, <2>2, MatmulAccepts, ConfigFacts, DimFacts
    DEF Stream, MlpDims
  <2>4. ~Rejected(Stream) /\ IsDims(Stream)
    BY <1>1, ConfigFacts, DimFacts, DimsFacts DEF Stream
  <2>5. Assign("down_proj", "next_layer", {"mlp_down"}, Stream)
    BY <1>6, <2>3
  <2>6. LocalsKnown'
    BY <2>1, <2>4, <2>5, AssignChanges
    DEF IInv, LocalsKnown, NoLocals, Stream, QueryDims, KvDims, MlpDims
  <2>7. Straight("down_proj", "next_layer") /\ "next_layer" \notin {"k_rotary", "attention", "caches"}
    BY DEF Straight, InLoop, AfterStore
  <2>. QED
    BY <2>4, <2>5, <2>6, <2>7, AssignKeeps
<1>. QED
  BY <1>2, <1>3, <1>4, <1>5, <1>6 DEF MlpStatements

(* The last norm, after the loop. *)
LEMMA FinalNormKeeps ==
  ASSUME IInv, FinalNorm PROVE IInv'
<1>1. sequence \in Nat /\ sequence * QueryHeads \in Nat /\ sequence * KvHeads \in Nat
  BY ConfigFacts, SMT DEF IInv, TypeOK
<1>2. CASE Assign("final_norm", "past_length", {"final_output"},
                SkipLayerNorm(local.residual, local.mlp_down, Hidden))
  <2>1. pc = "final_norm"
    BY <1>2 DEF Assign
  <2>2. local.residual = Stream /\ local.mlp_down = Stream
    BY <2>1, ConfigFacts DEF IInv, LocalsKnown, CallKnown, InLoop
  <2>3. SkipLayerNorm(local.residual, local.mlp_down, Hidden) = Stream
    BY <1>1, <2>2, NormAccepts, ConfigFacts, DimFacts
    DEF Stream
  <2>4. ~Rejected(Stream) /\ IsDims(Stream)
    BY <1>1, ConfigFacts, DimFacts, DimsFacts DEF Stream
  <2>5. Assign("final_norm", "past_length", {"final_output"}, Stream)
    BY <1>2, <2>3
  <2>6. LocalsKnown'
    BY <2>1, <2>4, <2>5, AssignChanges
    DEF IInv, LocalsKnown, NoLocals, Stream, QueryDims, KvDims, MlpDims
  <2>7. Straight("final_norm", "past_length") /\ "past_length" \notin {"k_rotary", "attention", "caches"}
    BY DEF Straight, InLoop, AfterStore
  <2>. QED
    BY <2>4, <2>5, <2>6, <2>7, AssignKeeps
<1>. QED
  BY <1>2 DEF FinalNorm

(* The norm of the stream, with the residual of the layer before it. *)
LEMMA InputNormKeeps ==
  ASSUME IInv, InputNorm PROVE IInv'
<1>1. sequence \in Nat /\ sequence * QueryHeads \in Nat /\ sequence * KvHeads \in Nat
  BY ConfigFacts, SMT DEF IInv, TypeOK
<1>2. CASE layer_index = 0
  <2>1. Assign("input_norm", "q_proj", {"attn_input"},
               LayerNorm(local.residual, Hidden))
    BY <1>2 DEF InputNorm
  <2>2. pc = "input_norm"
    BY <2>1 DEF Assign
  <2>3. local.residual = Stream
    BY <1>2, <2>2, ConfigFacts DEF IInv, TypeOK, LocalsKnown
  <2>4. LayerNorm(local.residual, Hidden) = Stream
    BY <1>1, <2>3, NormAccepts, ConfigFacts, DimFacts
    DEF Stream
  <2>5. ~Rejected(Stream) /\ IsDims(Stream)
    BY <1>1, ConfigFacts, DimFacts, DimsFacts DEF Stream
  <2>6. Assign("input_norm", "q_proj", {"attn_input"}, Stream)
    BY <2>1, <2>4
  <2>7. LocalsKnown'
    BY <2>2, <2>5, <2>6, AssignChanges
    DEF IInv, LocalsKnown, NoLocals, Stream, QueryDims, KvDims, MlpDims
  <2>8. Straight("input_norm", "q_proj") /\ "q_proj" \notin {"k_rotary", "attention", "caches"}
    BY DEF Straight, InLoop, AfterStore
  <2>. QED
    BY <2>5, <2>6, <2>7, <2>8, AssignKeeps
<1>3. CASE layer_index # 0
  <2>1. Assign("input_norm", "q_proj", {"attn_input", "residual"},
               SkipLayerNorm(local.residual, local.mlp_down, Hidden))
    BY <1>3 DEF InputNorm
  <2>2. pc = "input_norm"
    BY <2>1 DEF Assign
  <2>3. local.residual = Stream /\ local.mlp_down = Stream
    BY <1>3, <2>2, ConfigFacts DEF IInv, TypeOK, LocalsKnown
  <2>4. SkipLayerNorm(local.residual, local.mlp_down, Hidden) = Stream
    BY <1>1, <2>3, NormAccepts, ConfigFacts, DimFacts
    DEF Stream
  <2>5. ~Rejected(Stream) /\ IsDims(Stream)
    BY <1>1, ConfigFacts, DimFacts, DimsFacts DEF Stream
  <2>6. Assign("input_norm", "q_proj", {"attn_input", "residual"}, Stream)
    BY <2>1, <2>4
  <2>7. LocalsKnown'
    BY <2>2, <2>5, <2>6, AssignChanges
    DEF IInv, LocalsKnown, NoLocals, Stream, QueryDims, KvDims, MlpDims
  <2>8. Straight("input_norm", "q_proj") /\ "q_proj" \notin {"k_rotary", "attention", "caches"}
    BY DEF Straight, InLoop, AfterStore
  <2>. QED
    BY <2>5, <2>6, <2>7, <2>8, AssignKeeps
<1>. QED
  BY <1>2, <1>3

-----------------------------------------------------------------------------
(* The statements whose guards may fire. *)

(* The tables of rotary_embedding end at the last position; a call that    *)
(* reaches a second layer has passed this guard in the first.              *)
LEMMA RotateKeeps ==
  ASSUME IInv, Rotate PROVE IInv'
<1> DEFINE table == Dims(MaxPositions, RopeDim)
<1>1. sequence \in Nat /\ position_start \in Nat /\ layer_index \in Nat
      /\ MaxPositions \in Nat
  BY ConfigFacts DEF IInv, TypeOK
<1>2. CASE Assign("q_rotary", "k_rotary", {"query"},
                  Rotary(local.query, position_start, table, table, QueryHeads))
  <2>1. pc = "q_rotary"
    BY <1>2 DEF Assign
  <2>2. local.query = QueryDims
    BY <2>1 DEF IInv, LocalsKnown
  <2>3. Rotary(local.query, position_start, table, table, QueryHeads)
          = IF total_sequence > MaxPositions THEN Rejects("position") ELSE QueryDims
    BY <1>1, <2>2, RotaryAccepts, ConfigFacts DEF QueryDims, QueryDim, total_sequence
  <2>4. CASE total_sequence > MaxPositions
    <3>1. Leave("position") /\ UNCHANGED <<call, layer_index, model>>
      BY <1>2, <2>3, <2>4, GuardFacts DEF Assign
    <3>2. layer_index = 0
      BY <1>1, <2>1, <2>4 DEF IInv, CallKnown, Accepted, total_sequence
    <3>. QED
      BY <2>1, <2>4, <3>1, <3>2, LeaveKeeps
  <2>5. CASE ~(total_sequence > MaxPositions)
    <3>1. Assign("q_rotary", "k_rotary", {"query"}, QueryDims)
      BY <1>2, <2>3, <2>5
    <3>2. ~Rejected(QueryDims) /\ IsDims(QueryDims)
      BY <1>1, DimFacts, DimsFacts DEF QueryDims
    <3>3. LocalsKnown'
      BY <2>1, <3>1, <3>2, AssignChanges
      DEF IInv, LocalsKnown, NoLocals, Stream, QueryDims, KvDims, MlpDims
    <3>4. Straight("q_rotary", "k_rotary") /\ "k_rotary" # "caches"
      BY DEF Straight, InLoop, AfterStore
    <3>5. total_sequence <= MaxPositions
      BY <1>1, <2>5 DEF total_sequence
    <3>. QED
      BY <3>1, <3>2, <3>3, <3>4, <3>5, AssignKeeps
  <2>. QED
    BY <2>4, <2>5
<1>3. CASE Assign("k_rotary", "attention", {"key"},
                  Rotary(local.key, position_start, table, table, KvHeads))
  <2>1. pc = "k_rotary"
    BY <1>3 DEF Assign
  <2>2. local.key = KvDims /\ total_sequence <= MaxPositions
    BY <2>1 DEF IInv, LocalsKnown, CallKnown
  <2>3. Rotary(local.key, position_start, table, table, KvHeads) = KvDims
    BY <1>1, <2>2, RotaryAccepts, ConfigFacts DEF KvDims, KvDim, total_sequence
  <2>4. Assign("k_rotary", "attention", {"key"}, KvDims)
    BY <1>3, <2>3
  <2>5. ~Rejected(KvDims) /\ IsDims(KvDims)
    BY <1>1, DimFacts, DimsFacts DEF KvDims
  <2>6. LocalsKnown'
    BY <2>1, <2>4, <2>5, AssignChanges
    DEF IInv, LocalsKnown, NoLocals, Stream, QueryDims, KvDims, MlpDims
  <2>7. Straight("k_rotary", "attention") /\ "attention" # "caches"
    BY DEF Straight, InLoop, AfterStore
  <2>. QED
    BY <2>2, <2>4, <2>5, <2>6, <2>7, AssignKeeps
<1>. QED
  BY <1>2, <1>3 DEF Rotate

(* When attention is next, the cache of the layer holds some number of     *)
(* tokens that past_length_ may not count; in a later layer, all it counts.*)
LEMMA LayerCache ==
  ASSUME IInv, pc = "attention"
  PROVE  \E past \in Nat :
           /\ past >= past_length
           /\ caches[layer_index] = CacheOfLength(past)
           /\ layer_index > 0 => past = past_length
           /\ past = past_length => CachesAhead(layer_index, sequence)
<1>1. /\ layer_index \in 0 .. Layers - 1 /\ past_length \in 0 .. MaxPositions
      /\ sequence \in Nat /\ Layers \in Nat /\ MaxPositions \in Nat
  BY ConfigFacts DEF IInv, TypeOK, InLoop
<1>2. CASE layer_index > 0
  <2>1. Extended = layer_index
    BY DEF Extended, AfterStore
  <2>2. CachesAhead(layer_index, sequence)
    BY <1>2, <2>1 DEF IInv, CachesKnown
  <2>3. caches[layer_index] = CacheOfLength(past_length)
    BY <1>1, <2>2 DEF CachesAhead
  <2>. QED
    BY <1>1, <2>2, <2>3
<1>3. CASE layer_index = 0
  <2>1. PICK k \in 0 .. Layers, more \in 0 .. MaxPositions - past_length : CachesAhead(k, more)
    BY SomeAreAhead DEF SomeAhead
  <2> DEFINE past == IF 0 < k THEN past_length + more ELSE past_length
  <2>2. past \in Nat /\ past >= past_length
    BY <1>1
  <2>3. caches[0] = CacheOfLength(past)
    BY <1>1, <1>3, <2>1 DEF CachesAhead
  <2>4. ASSUME past = past_length PROVE CachesAhead(0, sequence)
    <3>1. \A l \in 0 .. Layers - 1 :
            (IF l < k THEN past_length + more ELSE past_length) = past_length
      BY <1>1, <2>4
    <3>2. \A l \in 0 .. Layers - 1 : caches[l] = CacheOfLength(past_length)
      BY <2>1, <3>1 DEF CachesAhead
    <3>. QED
      BY <3>2 DEF CachesAhead
  <2>. QED
    BY <1>3, <2>2, <2>3, <2>4
<1>. QED
  BY <1>1, <1>2, <1>3

(* attention refuses a cache that is ahead of past_length_, and an empty   *)
(* prompt, both in the first layer.                                        *)
LEMMA AttendKeeps ==
  ASSUME IInv, Attend PROVE IInv'
<1>1. pc = "attention"
  BY DEF Attend, Assign
<1>2. /\ sequence \in Nat /\ position_start \in Nat /\ past_length \in Nat
      /\ layer_index \in Nat /\ MaxPositions \in Nat
      /\ position_start = past_length /\ total_sequence <= MaxPositions
      /\ sequence = 0 => position_start = 0
      /\ layer_index > 0 => sequence > 0
  BY <1>1, ConfigFacts DEF IInv, TypeOK, CallKnown, Accepted
<1>3. PICK past \in Nat :
        /\ past >= past_length
        /\ caches[layer_index] = CacheOfLength(past)
        /\ layer_index > 0 => past = past_length
        /\ past = past_length => CachesAhead(layer_index, sequence)
  BY <1>1, LayerCache
<1> DEFINE result == Attention(local.query, local.key, local.value, caches[layer_index],
                               total_sequence)
<1>4. local.query = QueryDims /\ local.key = KvDims /\ local.value = KvDims
  BY <1>1 DEF IInv, LocalsKnown
<1>5. result = IF total_sequence # past + sequence THEN Rejects("total")
               ELSE IF total_sequence = 0 THEN Rejects("seqlens_k")
               ELSE QueryDims
  <2>1. total_sequence \in Nat
    BY <1>2 DEF total_sequence
  <2>. QED
    BY <1>2, <1>3, <1>4, <2>1, AttentionAccepts DEF QueryDims, KvDims
<1> HIDE DEF result
<1>6. Assign("attention", "caches", {"attention"}, result)
  BY DEF Attend, result
<1>7. CASE total_sequence # past + sequence
  <2>1. Leave("total") /\ UNCHANGED <<call, layer_index, model>>
    BY <1>5, <1>6, <1>7, GuardFacts DEF Assign
  <2>2. past > past_length /\ layer_index = 0
    BY <1>2, <1>3, <1>7 DEF total_sequence
  <2>3. KvHeads * past > KvHeads * past_length
    BY <1>2, <2>2, ConfigFacts
  <2>4. caches[0].key.rows = KvHeads * past
    BY <1>3, <2>2 DEF CacheOfLength, Dims
  <2>5. caches[0].key.rows > KvHeads * past_length
    BY <2>3, <2>4
  <2>. QED
    BY <1>1, <2>1, <2>2, <2>5, LeaveKeeps
<1>8. CASE total_sequence = past + sequence /\ total_sequence = 0
  <2>1. Leave("seqlens_k") /\ UNCHANGED <<call, layer_index, model>>
    BY <1>5, <1>6, <1>8, GuardFacts DEF Assign
  <2>2. sequence = 0 /\ layer_index = 0
    BY <1>2, <1>8 DEF total_sequence
  <2>. QED
    BY <1>1, <2>1, <2>2, LeaveKeeps
<1>9. CASE total_sequence = past + sequence /\ total_sequence # 0
  <2>1. Assign("attention", "caches", {"attention"}, QueryDims)
    BY <1>5, <1>6, <1>9
  <2>2. ~Rejected(QueryDims) /\ IsDims(QueryDims)
    BY <1>2, DimFacts, DimsFacts DEF QueryDims
  <2>3. sequence > 0 /\ CachesAhead(layer_index, sequence)
    BY <1>2, <1>3, <1>9 DEF total_sequence
  <2>4. LocalsKnown'
    BY <1>1, <2>1, <2>2, AssignChanges
    DEF IInv, LocalsKnown, NoLocals, Stream, QueryDims, KvDims, MlpDims
  <2>5. Straight("attention", "caches")
    BY DEF Straight, InLoop, AfterStore
  <2>. QED
    BY <1>2, <2>1, <2>2, <2>3, <2>4, <2>5, AssignKeeps
<1>. QED
  BY <1>7, <1>8, <1>9

-----------------------------------------------------------------------------
(* The statements that change more than locals. *)

LEMMA StoreCachesKeeps ==
  ASSUME IInv, StoreCaches PROVE IInv'
<1>1. /\ pc = "caches" /\ pc' = "o_proj"
      /\ UNCHANGED <<sequence, position_start, layer_index, local, past_length, outcome>>
      /\ caches' = [caches EXCEPT ![layer_index] = [key |-> Present, value |-> Present]]
  BY DEF StoreCaches, call
<1>2. /\ layer_index \in 0 .. Layers - 1 /\ Layers \in Nat /\ sequence \in Nat
      /\ past_length \in Nat /\ DOMAIN caches = 0 .. Layers - 1
  BY <1>1, ConfigFacts DEF IInv, TypeOK, InLoop
<1>3. position_start = past_length /\ outcome = "none" /\ CachesAhead(layer_index, sequence)
  BY <1>1 DEF IInv, CallKnown, CachesKnown, Extended, AfterStore
<1>4. TypeOK'
  BY <1>1, <1>2 DEF IInv, TypeOK, InLoop
<1>5. OnlyLengthsAreRejected' /\ (outcome' = "logits" => CachesAhead(0, 0)')
  BY <1>1, <1>3 DEF OnlyLengthsAreRejected
<1>6. LocalsKnown'
  BY <1>1 DEF IInv, LocalsKnown, Stream, QueryDims, KvDims, MlpDims
<1>7. CallKnown'
  BY <1>1, <1>3 DEF IInv, CallKnown, Accepted, total_sequence, InLoop
<1>8. CachesKnown'
  <2>1. [key |-> Present, value |-> Present] = CacheOfLength(past_length + sequence)
    BY <1>3 DEF Present, CacheOfLength, total_sequence
  <2>2. \A l \in 0 .. Layers - 1 :
          caches'[l] = IF l = layer_index THEN CacheOfLength(past_length + sequence) ELSE caches[l]
    BY <1>1, <1>2, <2>1
  <2>3. \A l \in 0 .. Layers - 1 :
          caches'[l] = CacheOfLength(IF l < layer_index + 1 THEN past_length + sequence
                                     ELSE past_length)
    <3> SUFFICES ASSUME NEW l \in 0 .. Layers - 1
                 PROVE  caches'[l] = CacheOfLength(IF l < layer_index + 1
                                                   THEN past_length + sequence ELSE past_length)
      OBVIOUS
    <3>1. CASE l = layer_index
      BY <1>2, <2>2, <3>1
    <3>2. CASE l # layer_index
      <4>1. l < layer_index + 1 <=> l < layer_index
        BY <1>2, <3>2
      <4>. QED
        BY <1>3, <2>2, <3>2, <4>1 DEF CachesAhead
    <3>. QED
      BY <3>1, <3>2
  <2>4. CachesAhead(layer_index + 1, sequence)'
    BY <1>1, <2>3 DEF CachesAhead
  <2>5. Extended' = layer_index + 1 /\ Extended' > 0
    BY <1>1, <1>2 DEF Extended, AfterStore
  <2>. QED
    BY <1>1, <2>4, <2>5 DEF CachesKnown, CachesAhead
<1>. QED
  BY <1>4, <1>5, <1>6, <1>7, <1>8 DEF IInv

LEMMA NextLayerKeeps ==
  ASSUME IInv, NextLayer PROVE IInv'
<1>1. /\ pc = "next_layer" /\ layer_index' = layer_index + 1
      /\ pc' = IF layer_index + 1 < Layers THEN "input_norm" ELSE "final_norm"
      /\ UNCHANGED <<sequence, position_start, local, caches, past_length, outcome>>
  BY DEF NextLayer, call, model
<1>2. layer_index \in 0 .. Layers - 1 /\ Layers \in Nat
  BY <1>1, ConfigFacts DEF IInv, TypeOK, InLoop
<1>3. outcome = "none" /\ CachesAhead(layer_index + 1, sequence)
  BY <1>1, <1>2 DEF IInv, CallKnown, CachesKnown, Extended, AfterStore
<1>4. TypeOK'
  BY <1>1, <1>2 DEF IInv, TypeOK, InLoop, AfterLoop
<1>5. OnlyLengthsAreRejected' /\ (outcome' = "logits" => CachesAhead(0, 0)')
  BY <1>1, <1>3 DEF OnlyLengthsAreRejected
<1>6. LocalsKnown'
  <2>1. local.residual = Stream /\ local.mlp_down = Stream
    BY <1>1 DEF IInv, LocalsKnown
  <2>2. pc' \in {"input_norm", "final_norm"}
    BY <1>1
  <2>. QED
    BY <1>1, <2>1, <2>2 DEF LocalsKnown, Stream
<1>7. CallKnown'
  <2>1. sequence > 0 /\ total_sequence <= MaxPositions
    BY <1>1 DEF IInv, CallKnown, Accepted, AfterStore
  <2>2. pc' \in InLoop \/ layer_index' = Layers
    BY <1>1, <1>2 DEF InLoop
  <2>. QED
    BY <1>1, <2>1, <2>2 DEF IInv, CallKnown, total_sequence
<1>8. CachesKnown'
  <2>1. Extended' = layer_index + 1 /\ Extended' > 0
    BY <1>1, <1>2 DEF Extended, AfterStore
  <2>2. pc' # "idle" /\ pc' # "logits"
    BY <1>1
  <2>. QED
    BY <1>1, <1>3, <2>1, <2>2 DEF CachesKnown, CachesAhead
<1>. QED
  BY <1>4, <1>5, <1>6, <1>7, <1>8 DEF IInv

LEMMA CommitKeeps ==
  ASSUME IInv, Commit PROVE IInv'
<1>1. /\ pc = "past_length" /\ pc' = "logits" /\ past_length' = total_sequence
      /\ UNCHANGED <<sequence, position_start, layer_index, local, caches, outcome>>
  BY DEF Commit, call
<1>2. layer_index = Layers /\ Layers \in Nat \ {0} /\ Accepted
  BY <1>1, ConfigFacts DEF IInv, CallKnown, InLoop, Accepted
<1>3. /\ outcome = "none" /\ position_start = past_length /\ total_sequence <= MaxPositions
      /\ sequence \in Nat /\ past_length \in Nat /\ MaxPositions \in Nat
  BY <1>1, <1>2, ConfigFacts DEF IInv, TypeOK, CallKnown
<1>4. CachesAhead(Layers, sequence)
  BY <1>1, <1>2 DEF IInv, CachesKnown, Extended, AfterStore
<1>5. total_sequence \in 0 .. MaxPositions /\ total_sequence = past_length + sequence
  BY <1>3 DEF total_sequence
<1>6. TypeOK'
  BY <1>1, <1>5 DEF IInv, TypeOK, InLoop, AfterLoop
<1>7. OnlyLengthsAreRejected'
  BY <1>1, <1>3 DEF OnlyLengthsAreRejected
<1>8. LocalsKnown'
  BY <1>1, <1>2 DEF IInv, LocalsKnown, Stream, QueryDims, KvDims, MlpDims
<1>9. CallKnown'
  BY <1>1, <1>2, <1>3 DEF IInv, CallKnown, Accepted, total_sequence
<1>10. CachesAhead(0, 0)'
  <2>1. \A l \in 0 .. Layers - 1 : caches'[l] = CacheOfLength(past_length + sequence)
    BY <1>1, <1>2, <1>4 DEF CachesAhead
  <2>2. \A l \in 0 .. Layers - 1 :
          (IF l < 0 THEN past_length' + 0 ELSE past_length') = past_length + sequence
    BY <1>1, <1>2, <1>5
  <2>. QED
    BY <2>1, <2>2 DEF CachesAhead
<1>11. CachesKnown'
  BY <1>1, <1>10 DEF CachesKnown
<1>. QED
  BY <1>6, <1>7, <1>8, <1>9, <1>10, <1>11 DEF IInv

LEMMA ReturnKeeps ==
  ASSUME IInv, Return PROVE IInv'
<1>1. pc = "logits" /\ UNCHANGED <<call, layer_index, model>>
  BY DEF Return
<1>2. local.final_output = Stream /\ sequence \in Nat /\ CachesAhead(0, 0)
  BY <1>1 DEF IInv, TypeOK, LocalsKnown, CachesKnown
<1>3. Matmul(local.final_output, Dims(Hidden, Vocab)) = Dims(sequence, Vocab)
  BY <1>2, MatmulAccepts, ConfigFacts DEF Stream
<1>4. ~Rejected(Dims(sequence, Vocab))
  BY <1>2, DimsFacts, ConfigFacts
<1>5. Leave("logits")
  BY <1>3, <1>4 DEF Return
<1>. QED
  BY <1>1, <1>2, <1>5, LeaveKeeps

LEMMA OutOfMemoryKeeps ==
  ASSUME IInv, OutOfMemory PROVE IInv'
  BY LeaveKeeps DEF OutOfMemory

-----------------------------------------------------------------------------
(* Calls. *)

(* Empty caches hold no tokens. *)
LEMMA EmptyCachesFacts ==
  /\ DOMAIN EmptyCaches = 0 .. Layers - 1
  /\ \A l \in 0 .. Layers - 1 : EmptyCaches[l] = CacheOfLength(0)
  BY ConfigFacts DEF EmptyCaches, CacheOfLength

(* Caches that are ahead by nothing may count as those of some layers.     *)
LEMMA NoneAhead ==
  /\ 0 \in 0 .. Layers
  /\ \A n \in 0 .. MaxPositions : 0 \in 0 .. MaxPositions - n
  BY ConfigFacts

(* A call starts with the caches in any state a call may leave. *)
LEMMA EnterKeeps ==
  ASSUME IInv, NEW tokens \in Nat, NEW start, Enter(tokens, start), start = past_length',
         start \in 0 .. MaxPositions, tokens = 0 => start = 0,
         (DOMAIN caches = 0 .. Layers - 1)', SomeAhead'
  PROVE  IInv'
<1>1. /\ sequence' = tokens /\ position_start' = start /\ layer_index' = 0
      /\ pc' = "input_norm" /\ outcome' = "none"
      /\ local' = [NoLocals EXCEPT !.residual = Dims(tokens, Hidden)]
  BY DEF Enter
<1>2. TypeOK'
  <2>0. IsDims(Unset) /\ IsDims(Dims(tokens, Hidden))
    BY ConfigFacts, DimsFacts DEF Unset
  <2>1. \A n \in DOMAIN NoLocals : IsDims(local'[n])
    BY <1>1, <2>0 DEF NoLocals
  <2>2. DOMAIN local' = DOMAIN NoLocals
    BY <1>1 DEF NoLocals
  <2>. QED
    BY <1>1, <2>1, <2>2, ConfigFacts DEF TypeOK, InLoop
<1>3. OnlyLengthsAreRejected' /\ (outcome' = "logits" => CachesAhead(0, 0)')
  BY <1>1 DEF OnlyLengthsAreRejected
<1>4. LocalsKnown'
  <2>1. local'.residual = Stream'
    BY <1>1 DEF NoLocals, Stream
  <2>. QED
    BY <1>1, <2>1 DEF LocalsKnown
<1>5. CallKnown'
  BY <1>1 DEF CallKnown, Accepted, AfterStore, InLoop
<1>6. CachesKnown'
  BY <1>1 DEF CachesKnown, Extended, AfterStore
<1>. QED
  BY <1>2, <1>3, <1>4, <1>5, <1>6 DEF IInv

LEMMA CallsKeep ==
  ASSUME IInv, Prefill \/ Decode \/ Reset PROVE IInv'
<1>1. CASE Prefill
  <2>1. PICK tokens \in 0 .. MaxPrompt : Enter(tokens, 0)
    BY <1>1 DEF Prefill
  <2>2. (DOMAIN caches = 0 .. Layers - 1)' /\ CachesAhead(0, 0)' /\ past_length' = 0
    BY <1>1, EmptyCachesFacts, ConfigFacts DEF Prefill, CachesAhead
  <2>3. 0 \in 0 .. MaxPositions /\ tokens \in Nat
    BY ConfigFacts
  <2>4. SomeAhead'
    BY <2>2, <2>3, NoneAhead DEF SomeAhead
  <2>. QED
    BY <2>1, <2>2, <2>3, <2>4, EnterKeeps
<1>2. CASE Decode
  <2>1. SomeAhead' /\ (DOMAIN caches = 0 .. Layers - 1)' /\ past_length' = past_length
    BY <1>2, SomeAreAhead DEF Decode, model, IInv, TypeOK, SomeAhead, CachesAhead
  <2>2. past_length \in 0 .. MaxPositions /\ 1 \in Nat /\ Enter(1, past_length)
    BY <1>2 DEF Decode, IInv, TypeOK
  <2>. QED
    BY <2>1, <2>2, EnterKeeps
<1>3. CASE Reset
  <2>0. (DOMAIN caches = 0 .. Layers - 1)' /\ CachesAhead(0, 0)' /\ past_length' = 0
    BY <1>3, EmptyCachesFacts, ConfigFacts DEF Reset, CachesAhead
  <2>1. (DOMAIN caches = 0 .. Layers - 1)' /\ CachesAhead(0, 0)' /\ SomeAhead'
    BY <2>0, NoneAhead, ConfigFacts DEF SomeAhead
  <2>2. TypeOK'
    BY <1>3, <2>1, ConfigFacts DEF Reset, IInv, TypeOK, InLoop, call
  <2>3. OnlyLengthsAreRejected'
    BY <1>3 DEF Reset, OnlyLengthsAreRejected
  <2>4. LocalsKnown' /\ CallKnown' /\ CachesKnown'
    BY <1>3, <2>1 DEF Reset, LocalsKnown, CallKnown, CachesKnown
  <2>. QED
    BY <2>1, <2>2, <2>3, <2>4 DEF IInv
<1>. QED
  BY <1>1, <1>2, <1>3

-----------------------------------------------------------------------------
(* The theorems. *)

LEMMA InitKnown ==
  ASSUME Init PROVE IInv
<1>1. DOMAIN caches = 0 .. Layers - 1 /\ CachesAhead(0, 0) /\ SomeAhead
  <2>1. DOMAIN caches = 0 .. Layers - 1 /\ CachesAhead(0, 0) /\ past_length = 0
    BY EmptyCachesFacts, ConfigFacts DEF Init, CachesAhead
  <2>. QED
    BY <2>1, NoneAhead, ConfigFacts DEF SomeAhead
<1>2. TypeOK
  <2>1. DOMAIN local = DOMAIN NoLocals /\ \A n \in DOMAIN local : IsDims(local[n])
    BY DimsFacts DEF Init, NoLocals, Unset
  <2>. QED
    BY <1>1, <2>1, ConfigFacts DEF Init, TypeOK, InLoop
<1>. QED
  BY <1>1, <1>2
  DEF Init, IInv, OnlyLengthsAreRejected, LocalsKnown, CallKnown, CachesKnown

LEMMA NextKeeps ==
  ASSUME IInv, [Next]_vars PROVE IInv'
<1>1. CASE UNCHANGED vars
  <2>1. UNCHANGED <<pc, sequence, position_start, layer_index, local, caches, past_length,
                    outcome>>
    BY <1>1 DEF vars
  <2>2. TypeOK' /\ OnlyLengthsAreRejected' /\ LocalsKnown' /\ CallKnown'
    BY <2>1 DEF IInv, TypeOK, OnlyLengthsAreRejected, LocalsKnown, CallKnown, Accepted,
                total_sequence, Stream, QueryDims, KvDims, MlpDims
  <2>3. CachesKnown' /\ (outcome' = "logits" => CachesAhead(0, 0)')
    BY <2>1 DEF IInv, CachesKnown, Extended, SomeAhead, CachesAhead
  <2>. QED
    BY <2>2, <2>3 DEF IInv
<1>2. CASE Prefill \/ Decode \/ Reset
  BY <1>2, CallsKeep
<1>3. CASE OutOfMemory
  BY <1>3, OutOfMemoryKeeps
<1>4. CASE Statement
  BY <1>4, InputNormKeeps, ProjectKeeps, HeadNormsKeeps, RotateKeeps, AttendKeeps,
     StoreCachesKeeps, AttentionOutputKeeps, MlpKeeps, NextLayerKeeps, FinalNormKeeps,
     CommitKeeps, ReturnKeeps DEF Statement
<1>. QED
  BY <1>1, <1>2, <1>3, <1>4 DEF Next

(* The invariant that the theorems below are conjuncts of, or follow from. *)
THEOREM Invariance == Spec => []IInv
  BY InitKnown, NextKeeps, PTL DEF Spec

(* Type correctness. *)
THEOREM TypeCorrect == Spec => []TypeOK
<1>1. IInv => TypeOK
  BY DEF IInv
<1>. QED
  BY <1>1, Invariance, PTL

(* Whatever the configuration, of all the guards of the kernels that       *)
(* forward calls only those on lengths ever fire, and only in the first    *)
(* layer.                                                                  *)
THEOREM ShapesAgree == Spec => []OnlyLengthsAreRejected
<1>1. IInv => OnlyLengthsAreRejected
  BY DEF IInv
<1>. QED
  BY <1>1, Invariance, PTL

(* The caches of the layers cover the context, or those of the first       *)
(* layers are ahead by the tokens of a call that ran out of memory.        *)
THEOREM CachesAgree == Spec => []CachesCoverTheContext
<1>1. IInv => CachesCoverTheContext
  BY DEF IInv, CachesKnown, SomeAhead, CachesCoverTheContext
<1>. QED
  BY <1>1, Invariance, PTL

-----------------------------------------------------------------------------
(* Refinement of ContextLength. *)

(* A step between two statements of a call that extends no cache of layer  *)
(* 0 and sets no length is invisible.                                      *)
LEMMA Invisible ==
  ASSUME pc \notin {"idle", "logits"}, pc' \notin {"idle", "logits"},
         UNCHANGED <<sequence, position_start, past_length, outcome>>,
         Health' = Health
  PROVE  UNCHANGED Lengths!vars
  BY DEF Lengths!vars

LEMMA SameHealth ==
  ASSUME UNCHANGED <<caches, past_length>>, Storing' <=> Storing
  PROVE  Health' = Health
  BY DEF Health

(* The guards of these kernels are all on shapes. *)
LEMMA ShapeGuards ==
  ASSUME NEW A, IsDims(A), NEW B, NEW n, NEW m
  PROVE  /\ Rejected(Matmul(A, B)) => Matmul(A, B).guard = "shape"
         /\ Rejected(Mul(A, B)) => Mul(A, B).guard = "shape"
         /\ Rejected(LayerNorm(A, n)) => LayerNorm(A, n).guard = "shape"
         /\ Rejected(SkipLayerNorm(A, B, n)) => SkipLayerNorm(A, B, n).guard = "shape"
         /\ Rejected(Reshape(A, n, m)) => Reshape(A, n, m).guard = "shape"
<1>1. Rejects("shape").guard = "shape" /\ ~Rejected(A) /\ \A a, b : ~Rejected(Dims(a, b))
  BY DEF Rejects, Rejected, IsDims, Dims
<1>2. Rejected(Reshape(A, n, m)) => Reshape(A, n, m).guard = "shape"
  <2> DEFINE dims == K!ReshapedDims(A.rows, A.cols, n, m)
  <2>1. dims = K!NoDims \/ \E a, b : dims = Dims(a, b)
    BY DEF K!ReshapedDims, Dims
  <2>. HIDE DEF dims
  <2>2. Reshape(A, n, m) = IF dims = K!NoDims THEN Rejects("shape") ELSE dims
    BY DEF Reshape, dims
  <2>. QED
    BY <1>1, <2>1, <2>2
<1>. QED
  BY <1>1, <1>2 DEF Matmul, Mul, LayerNorm, SkipLayerNorm

(* An assignment whose kernel has none but guards on shapes.               *)
LEMMA AssignInvisible ==
  ASSUME IInv, IInv', NEW here, NEW next, NEW names, NEW result,
         Assign(here, next, names, result), Straight(here, next),
         Rejected(result) => result.guard = "shape"
  PROVE  UNCHANGED Lengths!vars
<1>1. ~Rejected(result)
  <2>1. ASSUME Rejected(result) PROVE FALSE
    <3>1. outcome' = "shape"
      BY <2>1 DEF Assign, Leave
    <3>. QED
      BY <3>1 DEF IInv, OnlyLengthsAreRejected
  <2>. QED
    BY <2>1
<1>2. /\ pc = here /\ pc' = next
      /\ UNCHANGED <<sequence, position_start, layer_index, caches, past_length, outcome>>
  BY <1>1 DEF Assign, call, model
<1>3. /\ here \notin {"idle", "logits"} /\ next \notin {"idle", "logits"}
      /\ (here \in AfterStore) <=> (next \in AfterStore)
  BY DEF Straight, InLoop, AfterStore
<1>4. Storing' <=> Storing
  BY <1>2, <1>3 DEF Storing
<1>. QED
  BY <1>2, <1>3, <1>4, SameHealth, Invisible

LEMMA LocalDims ==
  ASSUME IInv
  PROVE  \A n \in {"residual", "mlp_down", "attn_input", "mlp_input", "query", "key",
                   "value", "attention", "attention_output", "gate", "up",
                   "silu", "silu_up", "final_output"} : IsDims(local[n])
  BY DEF IInv, TypeOK, NoLocals

LEMMA ComputingInvisible ==
  ASSUME IInv, IInv', InputNorm \/ Project \/ HeadNorms \/ AttentionOutput \/ MlpStatements \/ FinalNorm
  PROVE  UNCHANGED Lengths!vars
<1> DEFINE Part(here, next) == Straight(here, next)
<1>1. /\ IsDims(local.residual) /\ IsDims(local.attn_input) /\ IsDims(local.mlp_input)
      /\ IsDims(local.query) /\ IsDims(local.key) /\ IsDims(local.attention)
      /\ IsDims(local.gate) /\ IsDims(local.silu) /\ IsDims(local.silu_up)
  BY LocalDims
<1>2. CASE InputNorm
  <2>1. Straight("input_norm", "q_proj")
    BY DEF Straight, InLoop, AfterStore
  <2>2. CASE layer_index = 0
    BY <1>1, <1>2, <2>1, <2>2, ShapeGuards, AssignInvisible DEF InputNorm
  <2>3. CASE layer_index # 0
    BY <1>1, <1>2, <2>1, <2>3, ShapeGuards, AssignInvisible DEF InputNorm
  <2>. QED
    BY <2>2, <2>3
<1>3. CASE Project
  <2>1. Straight("q_proj", "k_proj") /\ Straight("k_proj", "v_proj") /\ Straight("v_proj", "q_heads")
    BY DEF Straight, InLoop, AfterStore
  <2>. QED
    BY <1>1, <1>3, <2>1, ShapeGuards, AssignInvisible DEF Project
<1>4. CASE HeadNorms
  <2>1. /\ Straight("q_heads", "q_norm") /\ Straight("q_norm", "q_flat")
        /\ Straight("q_flat", "k_heads") /\ Straight("k_heads", "k_norm")
        /\ Straight("k_norm", "k_flat") /\ Straight("k_flat", "q_rotary")
    BY DEF Straight, InLoop, AfterStore
  <2>. QED
    BY <1>1, <1>4, <2>1, ShapeGuards, AssignInvisible DEF HeadNorms
<1>5. CASE AttentionOutput
  <2>1. Straight("o_proj", "post_norm") /\ Straight("post_norm", "gate_proj")
    BY DEF Straight, InLoop, AfterStore
  <2>. QED
    BY <1>1, <1>5, <2>1, ShapeGuards, AssignInvisible DEF AttentionOutput
<1>6. CASE MlpStatements
  <2>1. /\ Straight("gate_proj", "up_proj") /\ Straight("up_proj", "silu")
        /\ Straight("silu", "silu_up") /\ Straight("silu_up", "down_proj")
        /\ Straight("down_proj", "next_layer")
    BY DEF Straight, InLoop, AfterStore
  <2>. QED
    BY <1>1, <1>6, <2>1, ShapeGuards, AssignInvisible DEF MlpStatements
<1>7. CASE FinalNorm
  <2>1. Straight("final_norm", "past_length")
    BY DEF Straight
  <2>. QED
    BY <1>1, <1>7, <2>1, ShapeGuards, AssignInvisible DEF FinalNorm
<1>. QED
  BY <1>2, <1>3, <1>4, <1>5, <1>6, <1>7

(* A rejection happens before layer 0 is stored, and to calls that are not *)
(* servable only.                                                          *)
LEMMA RejectRefines ==
  ASSUME IInv, IInv', pc \notin {"idle", "logits"} \cup AfterStore,
         NEW how \in {"position", "total", "seqlens_k"}, Leave(how),
         UNCHANGED <<call, layer_index, model>>
  PROVE  Lengths!Reject
<1>1. /\ outcome' = how /\ pc' = "idle"
      /\ UNCHANGED <<sequence, position_start, layer_index, caches, past_length>>
  BY DEF Leave, call, model
<1>2. layer_index = 0 /\ ~Storing /\ ~Storing'
  BY <1>1 DEF IInv, OnlyLengthsAreRejected, Storing
<1>3. Health' = Health
  BY <1>1, <1>2, SameHealth
<1>4. position_start = past_length
  BY DEF IInv, CallKnown
<1>5. ASSUME Lengths!Servable PROVE FALSE
  <2>1. Health = "sound" /\ sequence # 0 /\ past_length + sequence <= MaxPositions
    BY <1>5 DEF Lengths!Servable
  <2>2. caches[0].key.rows = KvHeads * past_length
    BY <1>2, <2>1 DEF Health
  <2>3. how # "position"
    <3>1. how = "position" => position_start + sequence > MaxPositions
      BY <1>1 DEF IInv, OnlyLengthsAreRejected
    <3>2. past_length \in Nat /\ sequence \in Nat /\ MaxPositions \in Nat
      BY ConfigFacts DEF IInv, TypeOK
    <3>. QED
      BY <1>4, <2>1, <3>1, <3>2
  <2>4. how # "seqlens_k"
    BY <1>1, <2>1 DEF IInv, OnlyLengthsAreRejected
  <2>5. how # "total"
    <3>1. how = "total" => caches[0].key.rows > KvHeads * past_length
      BY <1>1 DEF IInv, OnlyLengthsAreRejected
    <3>2. KvHeads * past_length \in Nat
      BY ConfigFacts DEF IInv, TypeOK
    <3>. QED
      BY <2>2, <3>1, <3>2
  <2>. QED
    BY <2>3, <2>4, <2>5
<1>. QED
  BY <1>1, <1>3, <1>4, <1>5 DEF Lengths!Reject, Lengths!Returns

LEMMA RotaryGuards ==
  ASSUME NEW A, IsDims(A), NEW position, NEW cos, NEW sin, NEW heads
  PROVE  LET result == Rotary(A, position, cos, sin, heads)
         IN  Rejected(result) => result.guard \in {"shape", "position"}
  BY DEF Rotary, Rejected, Rejects, IsDims, Dims

LEMMA AttentionGuards ==
  ASSUME NEW A, IsDims(A), NEW key, NEW value, NEW past, NEW total
  PROVE  LET result == Attention(A, key, value, past, total)
         IN  Rejected(result) => result.guard \in {"shape", "total", "seqlens_k"}
  BY DEF Attention, Rejected, Rejects, IsDims, Dims

(* The statements that may reject a call. *)
LEMMA GuardedRefines ==
  ASSUME IInv, IInv', NEW here, NEW next, NEW names, NEW result,
         Assign(here, next, names, result), Straight(here, next), here \notin AfterStore,
         Rejected(result) => result.guard \in {"shape", "position", "total", "seqlens_k"}
  PROVE  Lengths!Reject \/ UNCHANGED Lengths!vars
<1>1. CASE Rejected(result)
  <2>1. pc = here /\ Leave(result.guard) /\ UNCHANGED <<call, layer_index, model>>
    BY <1>1 DEF Assign
  <2>2. result.guard # "shape"
    BY <2>1 DEF Leave, IInv, OnlyLengthsAreRejected
  <2>3. pc \notin {"idle", "logits"} \cup AfterStore
    BY <2>1 DEF Straight, InLoop
  <2>. QED
    BY <1>1, <2>1, <2>2, <2>3, RejectRefines
<1>2. CASE ~Rejected(result)
  BY <1>2, AssignInvisible
<1>. QED
  BY <1>1, <1>2

LEMMA RotateRefines ==
  ASSUME IInv, IInv', Rotate PROVE Lengths!Reject \/ UNCHANGED Lengths!vars
<1> DEFINE table == Dims(MaxPositions, RopeDim)
<1>1. IsDims(local.query) /\ IsDims(local.key)
  BY LocalDims
<1>2. /\ Straight("q_rotary", "k_rotary") /\ Straight("k_rotary", "attention")
      /\ "q_rotary" \notin AfterStore /\ "k_rotary" \notin AfterStore
  BY DEF Straight, InLoop, AfterStore
<1>3. CASE Assign("q_rotary", "k_rotary", {"query"},
                  Rotary(local.query, position_start, table, table, QueryHeads))
  BY <1>1, <1>2, <1>3, RotaryGuards, GuardedRefines
<1>4. CASE Assign("k_rotary", "attention", {"key"},
                  Rotary(local.key, position_start, table, table, KvHeads))
  BY <1>1, <1>2, <1>4, RotaryGuards, GuardedRefines
<1>. QED
  BY <1>3, <1>4 DEF Rotate

LEMMA AttendRefines ==
  ASSUME IInv, IInv', Attend PROVE Lengths!Reject \/ UNCHANGED Lengths!vars
<1>1. IsDims(local.query)
  BY LocalDims
<1>2. Straight("attention", "caches") /\ "attention" \notin AfterStore
  BY DEF Straight, InLoop, AfterStore
<1>. QED
  BY <1>1, <1>2, AttentionGuards, GuardedRefines DEF Attend

(* What layer 0 holds tells the health. *)
LEMMA RowsOfCache ==
  ASSUME NEW n \in Nat, NEW k \in Nat, NEW more \in Nat, CachesAhead(k, more), past_length = n
  PROVE  /\ k = 0 => caches[0].key.rows = KvHeads * past_length
         /\ more = 0 => caches[0].key.rows = KvHeads * past_length
         /\ k > 0 /\ more > 0 => caches[0].key.rows # KvHeads * past_length
<1>1. 0 \in 0 .. Layers - 1
  BY ConfigFacts
<1>2. caches[0] = CacheOfLength(IF 0 < k THEN n + more ELSE n)
  BY <1>1 DEF CachesAhead
<1>3. caches[0].key.rows = KvHeads * (IF 0 < k THEN n + more ELSE n)
  BY <1>2 DEF CacheOfLength, Dims
<1>4. CASE k = 0 \/ more = 0
  <2>1. (IF 0 < k THEN n + more ELSE n) = n
    BY <1>4
  <2>. QED
    BY <1>3, <1>4, <2>1
<1>5. CASE k > 0 /\ more > 0
  <2>1. KvHeads * (n + more) # KvHeads * n
    BY <1>5, ConfigFacts
  <2>2. (IF 0 < k THEN n + more ELSE n) = n + more
    BY <1>5
  <2>3. caches[0].key.rows = KvHeads * (n + more)
    BY <1>3, <2>2
  <2>. QED
    BY <1>5, <2>1, <2>3
<1>. QED
  BY <1>4, <1>5

LEMMA StoreRefines ==
  ASSUME IInv, StoreCaches PROVE UNCHANGED Lengths!vars
<1>1. /\ pc = "caches" /\ pc' = "o_proj"
      /\ UNCHANGED <<sequence, position_start, layer_index, past_length, outcome>>
  BY DEF StoreCaches, call
<1>2. /\ past_length \in Nat /\ sequence \in Nat /\ layer_index \in Nat
      /\ CachesAhead(layer_index, sequence)
  BY <1>1, ConfigFacts DEF IInv, TypeOK, CachesKnown, Extended, AfterStore
<1>3. Health = "sound"
  BY <1>1, <1>2, RowsOfCache DEF Health, Storing
<1>4. Health' = "sound"
  BY <1>1 DEF Health, Storing, AfterStore
<1>. QED
  BY <1>1, <1>3, <1>4, Invisible

LEMMA NextLayerRefines ==
  ASSUME IInv, NextLayer PROVE UNCHANGED Lengths!vars
<1>1. /\ pc = "next_layer" /\ layer_index' = layer_index + 1 /\ pc' \in {"input_norm", "final_norm"}
      /\ UNCHANGED <<sequence, position_start, caches, past_length, outcome>>
  BY DEF NextLayer, call, model
<1>2. layer_index \in Nat
  BY ConfigFacts DEF IInv, TypeOK
<1>3. Storing /\ Storing'
  BY <1>1, <1>2 DEF Storing, AfterStore
<1>. QED
  BY <1>1, <1>3, SameHealth, Invisible

(* The assignment to past_length_ takes effect with the return.            *)
LEMMA CommitRefines ==
  ASSUME IInv, Commit PROVE UNCHANGED Lengths!vars
<1>1. /\ pc = "past_length" /\ pc' = "logits"
      /\ UNCHANGED <<sequence, position_start, layer_index, outcome>>
  BY DEF Commit, call
<1>2. layer_index > 0 /\ position_start = past_length
  BY <1>1, ConfigFacts DEF IInv, CallKnown, InLoop
<1>3. Health = "sound" /\ Health' = "sound"
  BY <1>1, <1>2 DEF Health, Storing
<1>. QED
  BY <1>1, <1>2, <1>3 DEF Lengths!vars

(* A call that has stored the keys of layer 0 is servable. *)
LEMMA StoringServable ==
  ASSUME IInv, Storing PROVE Lengths!Servable
<1>1. pc # "idle" /\ Accepted
  BY DEF Storing, Accepted
<1>2. /\ sequence > 0 /\ total_sequence <= MaxPositions /\ sequence \in Nat
      /\ pc # "logits" => position_start = past_length
  BY <1>1 DEF IInv, TypeOK, CallKnown
<1>3. Health = "sound"
  BY DEF Health
<1>. QED
  BY <1>1, <1>2, <1>3 DEF Lengths!Servable, total_sequence

(* After past_length_ has been set. *)
LEMMA CommittedExtends ==
  ASSUME IInv, pc = "logits", pc' = "idle", UNCHANGED <<call, layer_index, model>>
  PROVE  Lengths!Extend
<1>1. /\ past_length = total_sequence /\ layer_index > 0 /\ past_length \in Nat
      /\ CachesAhead(0, 0)
  BY ConfigFacts DEF IInv, TypeOK, CallKnown, CachesKnown, InLoop
<1>2. Lengths!Servable
  BY <1>1, StoringServable DEF Storing
<1>3. caches[0].key.rows = KvHeads * past_length
  BY <1>1, RowsOfCache
<1>4. Health = "sound" /\ Health' = "sound"
  BY <1>1, <1>3 DEF Health, Storing, model
<1>. QED
  BY <1>1, <1>2, <1>4 DEF Lengths!Extend, total_sequence, call, model

LEMMA ReturnRefines ==
  ASSUME IInv, IInv', Return PROVE Lengths!Answer
<1>1. /\ pc = "logits" /\ pc' = "idle" /\ UNCHANGED <<call, layer_index, model>>
      /\ outcome' \in {"shape", "logits"}
  <2> DEFINE logits == Matmul(local.final_output, Dims(Hidden, Vocab))
  <2>1. Rejected(logits) => logits.guard = "shape"
    BY LocalDims, ShapeGuards
  <2>2. pc = "logits" /\ UNCHANGED <<call, layer_index, model>>
        /\ Leave(IF Rejected(logits) THEN logits.guard ELSE "logits")
    BY DEF Return
  <2>. HIDE DEF logits
  <2>. QED
    BY <2>1, <2>2 DEF Leave
<1>2. outcome' = "logits"
  BY <1>1 DEF IInv, OnlyLengthsAreRejected
<1>. QED
  BY <1>1, <1>2, CommittedExtends DEF Lengths!Answer, Lengths!Returns

LEMMA OutOfMemoryRefines ==
  ASSUME IInv, OutOfMemory PROVE Lengths!OutOfMemory
<1>1. /\ pc \notin {"idle", "caches", "next_layer", "past_length"} /\ pc' = "idle"
      /\ outcome' = "bad_alloc" /\ UNCHANGED <<call, layer_index, model>>
  BY DEF OutOfMemory, Leave
<1>2. Lengths!Returns("bad_alloc")
  BY <1>1 DEF Lengths!Returns
<1>3. CASE pc = "logits"
  BY <1>1, <1>2, <1>3, CommittedExtends DEF Lengths!OutOfMemory
<1>4. CASE pc # "logits" /\ ~Storing
  <2>1. Health' = Health
    BY <1>1, <1>4, SameHealth DEF Storing, model
  <2>. QED
    BY <1>1, <1>2, <1>4, <2>1 DEF Lengths!OutOfMemory, model
<1>5. CASE pc # "logits" /\ Storing
  <2>1. Lengths!Servable
    BY <1>5, StoringServable
  <2>2. /\ Extended \in Nat /\ Extended > 0 /\ past_length \in Nat
        /\ sequence \in Nat /\ sequence > 0
    <3>1. Accepted /\ layer_index \in Nat
      BY <1>5, ConfigFacts DEF Storing, Accepted, IInv, TypeOK
    <3>2. sequence \in Nat /\ sequence > 0 /\ past_length \in Nat
      BY <1>1, <3>1, ConfigFacts DEF IInv, TypeOK, CallKnown
    <3>. QED
      BY <1>5, <3>1, <3>2 DEF Extended, Storing
  <2>3. CachesAhead(Extended, sequence)
    BY <1>1, <1>5, <2>2 DEF IInv, CachesKnown
  <2>4. caches[0].key.rows # KvHeads * past_length
    BY <2>2, <2>3, RowsOfCache
  <2>5. Health' = "stalled"
    BY <1>1, <2>4 DEF Health, Storing, model
  <2>. QED
    BY <1>1, <1>2, <1>5, <2>1, <2>5 DEF Lengths!OutOfMemory, model
<1>. QED
  BY <1>3, <1>4, <1>5

LEMMA EmptySound ==
  ASSUME caches' = EmptyCaches, past_length' = 0
  PROVE  Health' = "sound"
<1>1. EmptyCaches[0].key.rows = 0 /\ KvHeads * 0 = 0
  BY ConfigFacts DEF EmptyCaches, Dims
<1>. QED
  BY <1>1 DEF Health

LEMMA CallsRefine ==
  ASSUME IInv, Prefill \/ Decode \/ Reset PROVE Lengths!Next
<1>1. CASE Prefill
  <2>1. PICK tokens \in 0 .. MaxPrompt : Enter(tokens, 0)
    BY <1>1 DEF Prefill
  <2>2. Health' = "sound"
    BY <1>1, EmptySound DEF Prefill
  <2>3. Lengths!Prefill(tokens)
    BY <1>1, <2>1, <2>2 DEF Prefill, Enter, Lengths!Prefill, Lengths!Enter, Lengths!Empty
  <2>. QED
    BY <2>3 DEF Lengths!Next
<1>2. CASE Decode
  <2>1. /\ pc = "idle" /\ pc' = "input_norm" /\ layer_index' = 0 /\ sequence' = 1
        /\ outcome' = "none" /\ UNCHANGED <<caches, past_length>>
    BY <1>2 DEF Decode, Enter, model
  <2>2. Health' = Health
    BY <2>1, SameHealth DEF Storing, AfterStore
  <2>3. Lengths!Decode
    BY <2>1, <2>2 DEF Lengths!Decode, Lengths!Enter
  <2>. QED
    BY <2>3 DEF Lengths!Next
<1>3. CASE Reset
  <2>1. Health' = "sound"
    BY <1>3, EmptySound DEF Reset
  <2>2. Lengths!Reset
    BY <1>3, <2>1 DEF Reset, Lengths!Reset, Lengths!Empty, call
  <2>. QED
    BY <2>2 DEF Lengths!Next
<1>. QED
  BY <1>1, <1>2, <1>3

LEMMA InitRefines ==
  ASSUME Init PROVE Lengths!Init
<1>1. EmptyCaches[0].key.rows = 0 /\ KvHeads * 0 = 0
  BY ConfigFacts DEF EmptyCaches, Dims
<1>. QED
  BY <1>1 DEF Init, Lengths!Init, Health

LEMMA StepRefines ==
  ASSUME IInv, IInv', [Next]_vars PROVE [Lengths!Next]_Lengths!vars
<1>1. CASE UNCHANGED vars
  BY <1>1 DEF vars, call, model, Lengths!vars, Health, Storing
<1>2. CASE Prefill \/ Decode \/ Reset
  BY <1>2, CallsRefine
<1>3. CASE OutOfMemory
  BY <1>3, OutOfMemoryRefines DEF Lengths!Next
<1>4. CASE InputNorm \/ Project \/ HeadNorms \/ AttentionOutput \/ MlpStatements \/ FinalNorm
  BY <1>4, ComputingInvisible
<1>5. CASE Rotate \/ Attend
  BY <1>5, RotateRefines, AttendRefines DEF Lengths!Next
<1>6. CASE StoreCaches \/ NextLayer \/ Commit
  BY <1>6, StoreRefines, NextLayerRefines, CommitRefines
<1>7. CASE Return
  BY <1>7, ReturnRefines DEF Lengths!Next
<1>. QED
  BY <1>1, <1>2, <1>3, <1>4, <1>5, <1>6, <1>7 DEF Next, Statement

(* forward, statement by statement, serves and rejects calls as            *)
(* ContextLength does, in one step, whatever the configuration.            *)
THEOREM Implements == Spec => ImplementsContextLength
<1>1. Init => Lengths!Init
  BY InitRefines
<1>2. IInv /\ IInv' /\ [Next]_vars => [Lengths!Next]_Lengths!vars
  BY StepRefines
<1>. QED
  BY <1>1, <1>2, Invariance, PTL DEF Spec, ImplementsContextLength, Lengths!Spec
=============================================================================
