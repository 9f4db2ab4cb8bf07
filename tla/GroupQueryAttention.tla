------------------------ MODULE GroupQueryAttention ------------------------
(***************************************************************************)
(* The group_query_attention kernel (src/core/group_query_attention.h):    *)
(* what it rejects, how it lays out the present key/value matrices, which  *)
(* cached rows a query row may see and which key/value head serves a query *)
(* head.  Scores, softmax and the weighted sum are not computed: a head's  *)
(* output is the pair of its query block and the cached rows it weighs.    *)
(*                                                                         *)
(* A matrix of whole rows is a record [rows, row], rows numbered from 0 as *)
(* Eigen numbers them.  The caches are flat: with T cached positions, row  *)
(* h*T + s belongs to position s of key/value head h.  A matrix whose      *)
(* columns are cut into heads (query, key, value) maps a row number to     *)
(* the blocks of its heads.                                                *)
(***************************************************************************)
EXTENDS Integers

CONSTANTS
  QueryHeads, (* num_heads, the number of query heads         *)
  KvHeads     (* kv_num_heads, the number of key/value heads  *)

(* The configuration checks of the kernel (positive head counts, query     *)
(* heads divisible among key/value heads) depend on constants only.        *)
ASSUME HeadsAssumption ==
  /\ QueryHeads \in Nat \ {0}
  /\ KvHeads \in Nat \ {0}
  /\ QueryHeads % KvHeads = 0

EmptyMatrix == [rows |-> 0, row |-> [r \in {} |-> {}]]

PastSequence(past_key) == past_key.rows \div KvHeads

(* mutation: the total is not checked against the cache *)
AttentionRejectsUnchecked(sequence, past_key, past_value, seqlens_k, total) ==
  seqlens_k < 0 \/ seqlens_k >= total

(* The arguments that make the kernel throw std::invalid_argument. *)
AttentionRejects(sequence, past_key, past_value, seqlens_k, total) ==
  \/ past_key.rows # past_value.rows
  \/ past_key.rows % KvHeads # 0
  \/ total # PastSequence(past_key) + sequence
  \/ seqlens_k < 0
  \/ seqlens_k >= total

(* mutation: the new rows follow all past rows, position by position *)
PresentAppended(past, past_sequence, new, total) ==
  [rows |-> KvHeads * total,
   row  |-> [r \in 0 .. KvHeads * total - 1 |->
               IF r < KvHeads * past_sequence
               THEN past.row[r]
               ELSE new[r \div KvHeads - past_sequence][r % KvHeads]]]

(* Head by head, the past rows followed by the new ones.  The block of a   *)
(* head starts at h * past_sequence in the past matrix and at h * total in *)
(* the present one, so every head but the first moves.                     *)
Present(past, past_sequence, new, total) ==
  [rows |-> KvHeads * total,
   row  |-> [r \in 0 .. KvHeads * total - 1 |->
               LET h == r \div total
                   s == r % total
               IN  IF s < past_sequence
                   THEN past.row[h * past_sequence + s]
                   ELSE new[s - past_sequence][h]]]

(* mutation: no causal mask *)
ValidMaskFuture(qs, past_sequence, seqlens_k, total) ==
  {ks \in 0 .. total - 1 : ks <= seqlens_k}

(* The key positions that query row qs may weigh: the causal mask and the  *)
(* seqlens mask.                                                           *)
ValidMask(qs, past_sequence, seqlens_k, total) ==
  {ks \in 0 .. total - 1 : ks <= past_sequence + qs /\ ks <= seqlens_k}

GroupSize == QueryHeads \div KvHeads

(* The output rows: for every query head, its query block and the cached   *)
(* key/value rows of its group that the mask leaves.                       *)
AttentionOutput(query, present_key, present_value, sequence, past_sequence, seqlens_k, total) ==
  [qs \in 0 .. sequence - 1 |->
    [qh \in 0 .. QueryHeads - 1 |->
      LET kv_offset == (qh \div GroupSize) * total
      IN  [query |-> query[qs][qh],
           seen  |-> [ks \in ValidMask(qs, past_sequence, seqlens_k, total) |->
                        <<present_key.row[kv_offset + ks],
                          present_value.row[kv_offset + ks]>>]]]]
=============================================================================
