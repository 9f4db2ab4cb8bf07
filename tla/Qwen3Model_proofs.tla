------------------------ MODULE Qwen3Model_proofs --------------------------
(***************************************************************************)
(* Proofs about Qwen3Model, for every number of layers and heads, every    *)
(* vocabulary and every number of positions.                               *)
(*                                                                         *)
(* The caches are compared with CacheOf, the caches a cache-free decoder   *)
(* would fill for a history.  The invariant IInv says which layers hold    *)
(* the history and which the history extended by the tokens of the call;   *)
(* LayerMirrors carries it through the loop, LeaveExtended through the     *)
(* failures.  The refinement of TokenHistory rests on the same facts.      *)
(***************************************************************************)
EXTENDS Qwen3Model, TLAPS, SequenceTheorems

(* A row number of a matrix of H blocks of T rows names a block and a row  *)
(* in it.                                                                  *)
LEMMA BlockIndex ==
  ASSUME NEW T \in Nat \ {0}, NEW H \in Nat, NEW r \in 0 .. H * T - 1
  PROVE  /\ r \div T \in 0 .. H - 1
         /\ r % T \in 0 .. T - 1
         /\ r = (r \div T) * T + (r % T)
  BY SMT

(* ... and row s of block h is numbered h * T + s.                         *)
LEMMA BlockIndexOf ==
  ASSUME NEW T \in Nat \ {0}, NEW h \in Nat, NEW s \in 0 .. T - 1
  PROVE  (h * T + s) \div T = h /\ (h * T + s) % T = s
  BY SMT

(* ... within the H * T rows.                                              *)
LEMMA BlockRow ==
  ASSUME NEW T \in Nat \ {0}, NEW H \in Nat, NEW h \in 0 .. H - 1, NEW s \in 0 .. T - 1
  PROVE  h * T + s \in 0 .. H * T - 1
  BY SMT

(* Prefix cuts a sequence to its first n elements.                         *)
LEMMA PrefixIsSeq ==
  ASSUME NEW S, NEW hist \in Seq(S), NEW n \in 0 .. Len(hist)
  PROVE  /\ Prefix(hist, n) \in Seq(S)
         /\ Len(Prefix(hist, n)) = n
         /\ \A i \in 1 .. n : Prefix(hist, n)[i] = hist[i]
  BY DEF Prefix

(* A prefix of a prefix is a prefix.                                       *)
LEMMA PrefixOfPrefix ==
  ASSUME NEW S, NEW hist \in Seq(S), NEW n \in 0 .. Len(hist), NEW m \in 0 .. n
  PROVE  Prefix(Prefix(hist, n), m) = Prefix(hist, m)
  BY DEF Prefix

(* Appending leaves the prefixes of a sequence alone.                      *)
LEMMA PrefixOfConcat ==
  ASSUME NEW S, NEW hist \in Seq(S), NEW ext \in Seq(S), NEW n \in 0 .. Len(hist)
  PROVE  Prefix(hist \o ext, n) = Prefix(hist, n)
  BY DEF Prefix

(* The longest prefix is the sequence.                                     *)
LEMMA PrefixWhole ==
  ASSUME NEW S, NEW hist \in Seq(S)
  PROVE  Prefix(hist, Len(hist)) = hist
  BY DEF Prefix

(* Histories are the nonempty token sequences that fit the positions.      *)
LEMMA HistoriesAre ==
  ASSUME NEW hist
  PROVE  hist \in Histories <=> hist \in Seq(Tokens) /\ Len(hist) \in 1 .. MaxPositions
  BY StackAssumption DEF Histories

(* Prompts are the token sequences up to the bound, the empty one          *)
(* included.                                                               *)
LEMMA PromptsAre ==
  ASSUME NEW hist
  PROVE  hist \in Prompts <=> hist \in Seq(Tokens) /\ Len(hist) \in 0 .. MaxPrompt
  BY PromptAssumption DEF Prompts
----------------------------------------------------------------------------
(* Caches: what the kernel reads from them and the matrices it builds.     *)

(* The kernel reads the length of the history off the rows of a cache.     *)
LEMMA PastSequenceOfCache ==
  ASSUME NEW l, NEW hist \in Seq(Tokens)
  PROVE  /\ CacheOf(l, hist).key.rows = KvHeads * Len(hist)
         /\ CacheOf(l, hist).value.rows = KvHeads * Len(hist)
         /\ PastSequence(CacheOf(l, hist).key) = Len(hist)
         /\ PastSequence(CacheOf(l, hist).value) = Len(hist)
         /\ (KvHeads * Len(hist)) % KvHeads = 0
<1>1. /\ CacheOf(l, hist).key.rows = KvHeads * Len(hist)
      /\ CacheOf(l, hist).value.rows = KvHeads * Len(hist)
  BY DEF CacheOf
<1>2. Len(hist) * KvHeads + 0 = KvHeads * Len(hist)
  BY HeadsAssumption
<1>3. /\ (KvHeads * Len(hist)) \div KvHeads = Len(hist)
      /\ (KvHeads * Len(hist)) % KvHeads = 0
  BY <1>2, HeadsAssumption, BlockIndexOf
<1>. QED
  BY <1>1, <1>3 DEF PastSequence

(* The block copies of the kernel turn the key cache of a history into the *)
(* key cache of the extended history, although every head but the first    *)
(* moves.                                                                  *)
LEMMA PresentKeyMirrors ==
  ASSUME NEW l, NEW hist \in Seq(Tokens), NEW ext \in Seq(Tokens), ext # <<>>,
         NEW new,
         \A s \in 0 .. Len(ext) - 1, h \in 0 .. KvHeads - 1 :
           new[s][h] = KeyRow(l, h, Len(hist) + s,
                              Hidden(l, Prefix(hist \o ext, Len(hist) + s + 1)))
  PROVE  Present(CacheOf(l, hist).key, Len(hist), new, Len(hist) + Len(ext))
           = CacheOf(l, hist \o ext).key
<1> DEFINE P    == Len(hist)
           T    == P + Len(ext)
           of(s) == Hidden(l, Prefix(hist \o ext, s + 1))
           past == CacheOf(l, hist).key
<1>1. /\ P \in Nat /\ T \in Nat \ {0} /\ P < T /\ KvHeads \in Nat
      /\ Len(hist \o ext) = T
  BY HeadsAssumption
<1>2. \A h \in 0 .. KvHeads - 1, s \in 0 .. P - 1 :
        past.row[h * P + s] = KeyRow(l, h, s, of(s))
  <2> SUFFICES ASSUME NEW h \in 0 .. KvHeads - 1, NEW s \in 0 .. P - 1
               PROVE  past.row[h * P + s] = KeyRow(l, h, s, of(s))
    OBVIOUS
  <2>1. P \in Nat \ {0} /\ h \in Nat
    BY <1>1
  <2>2. h * P + s \in 0 .. KvHeads * P - 1
    BY <1>1, <2>1, BlockRow
  <2>3. (h * P + s) \div P = h /\ (h * P + s) % P = s
    BY <2>1, BlockIndexOf
  <2>4. Prefix(hist \o ext, s + 1) = Prefix(hist, s + 1)
    BY <1>1, PrefixOfConcat
  <2>. QED
    BY <2>2, <2>3, <2>4 DEF CacheOf
<1>3. ASSUME NEW r \in 0 .. KvHeads * T - 1
      PROVE  (LET h == r \div T
                  s == r % T
              IN  IF s < P THEN past.row[h * P + s] ELSE new[s - P][h])
               = KeyRow(l, r \div T, r % T, of(r % T))
  <2> DEFINE h == r \div T
             s == r % T
  <2>1. h \in 0 .. KvHeads - 1 /\ s \in 0 .. T - 1
    BY <1>1, BlockIndex
  <2> HIDE DEF h, s, P, T, of, past
  <2>2. CASE s < P
    <3>1. s \in 0 .. P - 1
      BY <1>1, <2>1, <2>2
    <3>2. past.row[h * P + s] = KeyRow(l, h, s, of(s))
      BY <1>2, <2>1, <3>1
    <3>. QED
      BY <2>2, <3>2 DEF h, s
  <2>3. CASE s >= P
    <3>1. s - P \in 0 .. Len(ext) - 1 /\ P + (s - P) = s
      BY <1>1, <2>1, <2>3 DEF T
    <3>2. new[s - P][h] = KeyRow(l, h, s, of(s))
      BY <2>1, <3>1 DEF P, of
    <3>3. ~(s < P)
      BY <1>1, <2>1, <2>3
    <3>. QED
      BY <3>2, <3>3 DEF h, s
  <2>. QED
    BY <1>1, <2>1, <2>2, <2>3
<1>. QED
  BY <1>1, <1>3 DEF Present, CacheOf
(* The same for values.                                                    *)
LEMMA PresentValueMirrors ==
  ASSUME NEW l, NEW hist \in Seq(Tokens), NEW ext \in Seq(Tokens), ext # <<>>,
         NEW new,
         \A s \in 0 .. Len(ext) - 1, h \in 0 .. KvHeads - 1 :
           new[s][h] = ValueRow(l, h, Hidden(l, Prefix(hist \o ext, Len(hist) + s + 1)))
  PROVE  Present(CacheOf(l, hist).value, Len(hist), new, Len(hist) + Len(ext))
           = CacheOf(l, hist \o ext).value
<1> DEFINE P    == Len(hist)
           T    == P + Len(ext)
           of(s) == Hidden(l, Prefix(hist \o ext, s + 1))
           past == CacheOf(l, hist).value
<1>1. /\ P \in Nat /\ T \in Nat \ {0} /\ P < T /\ KvHeads \in Nat
      /\ Len(hist \o ext) = T
  BY HeadsAssumption
<1>2. \A h \in 0 .. KvHeads - 1, s \in 0 .. P - 1 :
        past.row[h * P + s] = ValueRow(l, h, of(s))
  <2> SUFFICES ASSUME NEW h \in 0 .. KvHeads - 1, NEW s \in 0 .. P - 1
               PROVE  past.row[h * P + s] = ValueRow(l, h, of(s))
    OBVIOUS
  <2>1. P \in Nat \ {0} /\ h \in Nat
    BY <1>1
  <2>2. h * P + s \in 0 .. KvHeads * P - 1
    BY <1>1, <2>1, BlockRow
  <2>3. (h * P + s) \div P = h /\ (h * P + s) % P = s
    BY <2>1, BlockIndexOf
  <2>4. Prefix(hist \o ext, s + 1) = Prefix(hist, s + 1)
    BY <1>1, PrefixOfConcat
  <2>. QED
    BY <2>2, <2>3, <2>4 DEF CacheOf
<1>3. ASSUME NEW r \in 0 .. KvHeads * T - 1
      PROVE  (LET h == r \div T
                  s == r % T
              IN  IF s < P THEN past.row[h * P + s] ELSE new[s - P][h])
               = ValueRow(l, r \div T, of(r % T))
  <2> DEFINE h == r \div T
             s == r % T
  <2>1. h \in 0 .. KvHeads - 1 /\ s \in 0 .. T - 1
    BY <1>1, BlockIndex
  <2> HIDE DEF h, s, P, T, of, past
  <2>2. CASE s < P
    <3>1. s \in 0 .. P - 1
      BY <1>1, <2>1, <2>2
    <3>2. past.row[h * P + s] = ValueRow(l, h, of(s))
      BY <1>2, <2>1, <3>1
    <3>. QED
      BY <2>2, <3>2 DEF h, s
  <2>3. CASE s >= P
    <3>1. s - P \in 0 .. Len(ext) - 1 /\ P + (s - P) = s
      BY <1>1, <2>1, <2>3 DEF T
    <3>2. new[s - P][h] = ValueRow(l, h, of(s))
      BY <2>1, <3>1 DEF P, of
    <3>3. ~(s < P)
      BY <1>1, <2>1, <2>3
    <3>. QED
      BY <3>2, <3>3 DEF h, s
  <2>. QED
    BY <1>1, <2>1, <2>2, <2>3
<1>. QED
  BY <1>1, <1>3 DEF Present, CacheOf
----------------------------------------------------------------------------
(* Attention over a cache against attention over the history.              *)

(* Every query head is served by one of the key/value heads.               *)
LEMMA GroupBounds ==
  ASSUME NEW qh \in 0 .. QueryHeads - 1
  PROVE  /\ GroupSize \in Nat \ {0}
         /\ qh \div GroupSize \in 0 .. KvHeads - 1
<1>1. QueryHeads = (QueryHeads \div KvHeads) * KvHeads
  BY HeadsAssumption
<1>2. GroupSize \in Nat /\ QueryHeads = GroupSize * KvHeads
  BY <1>1, HeadsAssumption DEF GroupSize
<1>3. GroupSize # 0
  BY <1>2, HeadsAssumption
<1>4. qh \in 0 .. KvHeads * GroupSize - 1
  BY <1>2, HeadsAssumption
<1>. QED
  BY <1>2, <1>3, <1>4, HeadsAssumption, BlockIndex

(* Where the kernel looks for position s of head h, the cache has it.      *)
LEMMA CacheRow ==
  ASSUME NEW l, NEW hist \in Seq(Tokens),
         NEW h \in 0 .. KvHeads - 1, NEW s \in 0 .. Len(hist) - 1
  PROVE  /\ CacheOf(l, hist).key.row[h * Len(hist) + s]
              = KeyRow(l, h, s, Hidden(l, Prefix(hist, s + 1)))
         /\ CacheOf(l, hist).value.row[h * Len(hist) + s]
              = ValueRow(l, h, Hidden(l, Prefix(hist, s + 1)))
<1>1. Len(hist) \in Nat \ {0} /\ h \in Nat /\ KvHeads \in Nat
  BY HeadsAssumption
<1>2. h * Len(hist) + s \in 0 .. KvHeads * Len(hist) - 1
  BY <1>1, BlockRow
<1>3. (h * Len(hist) + s) \div Len(hist) = h /\ (h * Len(hist) + s) % Len(hist) = s
  BY <1>1, BlockIndexOf
<1>. QED
  BY <1>2, <1>3 DEF CacheOf

(* The cache-free decoder, one layer further, at position p of a history.  *)
LEMMA HiddenStep ==
  ASSUME NEW l \in 0 .. Layers - 1, NEW hist \in Seq(Tokens),
         Len(hist) <= MaxPositions, NEW p \in 0 .. Len(hist) - 1
  PROVE  Hidden(l + 1, Prefix(hist, p + 1))
           = LayerOutput(l, p, [j \in 0 .. p |-> Hidden(l, Prefix(hist, j + 1))])
<1> DEFINE pre == Prefix(hist, p + 1)
<1>1. pre \in Seq(Tokens) /\ Len(pre) = p + 1
  BY PrefixIsSeq
<1>2. pre \in Histories
  BY <1>1, HistoriesAre, StackAssumption
<1>3. Hidden(l + 1, pre)
        = LayerOutput(l, Len(pre) - 1,
            [j \in 0 .. Len(pre) - 1 |-> Hidden(l, Prefix(pre, j + 1))])
  BY <1>2, HiddenAssumption
<1>4. \A j \in 0 .. p : Prefix(pre, j + 1) = Prefix(hist, j + 1)
  BY PrefixOfPrefix
<1>5. [j \in 0 .. Len(pre) - 1 |-> Hidden(l, Prefix(pre, j + 1))]
        = [j \in 0 .. p |-> Hidden(l, Prefix(hist, j + 1))]
  <2>1. 0 .. Len(pre) - 1 = 0 .. p
    BY <1>1
  <2> HIDE DEF pre
  <2>. QED
    BY <1>4, <2>1
<1>6. Len(pre) - 1 = p
  BY <1>1
<1>. QED
  BY <1>3, <1>5, <1>6

(* The cache-free decoder starts from the embeddings.                      *)
LEMMA HiddenStart ==
  ASSUME NEW hist \in Seq(Tokens), Len(hist) <= MaxPositions, NEW p \in 0 .. Len(hist) - 1
  PROVE  Hidden(0, Prefix(hist, p + 1)) = Embedding(hist[p + 1])
<1> DEFINE pre == Prefix(hist, p + 1)
<1>1. pre \in Seq(Tokens) /\ Len(pre) = p + 1 /\ pre[p + 1] = hist[p + 1]
  BY PrefixIsSeq
<1>2. pre \in Histories
  BY <1>1, HistoriesAre, StackAssumption
<1>. QED
  BY <1>1, <1>2, HiddenAssumption
(* The cache of a history is a pair of matrices.                           *)
LEMMA CacheIsMatrix ==
  ASSUME NEW l, NEW hist \in Seq(Tokens)
  PROVE  /\ DOMAIN CacheOf(l, hist) = {"key", "value"}
         /\ IsMatrix(CacheOf(l, hist).key)
         /\ IsMatrix(CacheOf(l, hist).value)
<1>1. KvHeads * Len(hist) \in Nat
  BY HeadsAssumption
<1>. QED
  BY <1>1 DEF CacheOf, IsMatrix

(* The cache of the empty history is what the constructor and reset leave. *)
LEMMA CacheOfEmpty ==
  ASSUME NEW l
  PROVE  CacheOf(l, <<>>) = [key |-> EmptyMatrix, value |-> EmptyMatrix]
<1>1. KvHeads * Len(<<>>) = 0 /\ 0 .. KvHeads * Len(<<>>) - 1 = {}
  BY HeadsAssumption
<1>. QED
  BY <1>1 DEF CacheOf, EmptyMatrix

(* An extended cache is told from the one it extends by its rows.          *)
LEMMA CacheRowsTell ==
  ASSUME NEW l, NEW hist \in Seq(Tokens), NEW ext \in Seq(Tokens), ext # <<>>
  PROVE  /\ Len(hist \o ext) = Len(hist) + Len(ext)
         /\ Len(ext) > 0
         /\ CacheOf(l, hist \o ext).key.rows # KvHeads * Len(hist)
         /\ PastSequence(CacheOf(l, hist \o ext).key) # Len(hist)
<1>1. hist \o ext \in Seq(Tokens) /\ Len(hist \o ext) = Len(hist) + Len(ext) /\ Len(ext) > 0
  OBVIOUS
<1>2. KvHeads * (Len(hist) + Len(ext)) # KvHeads * Len(hist)
  BY <1>1, HeadsAssumption
<1>. QED
  BY <1>1, <1>2, PastSequenceOfCache

----------------------------------------------------------------------------
(* One pass of the layer loop under the invariant.                         *)

(* The sequences the invariant speaks of. *)
LEMMA SequencesTyped ==
  ASSUME TypeOK
  PROVE  /\ history \in Seq(Tokens) /\ Len(history) <= MaxPositions
         /\ tokens \in Seq(Tokens) /\ Len(tokens) \in 0 .. MaxPrompt
  BY HistoriesAre, PromptsAre, StackAssumption, EmptySeq DEF TypeOK

(* A layer is not rejected exactly when the call fits and the caches of    *)
(* the layer hold the history.                                             *)
LEMMA LayerAccepts ==
  ASSUME IInv, pc = "layers", layer_index < Layers, ~LayerRejects
  PROVE  /\ tokens # <<>>
         /\ FitsAfterHistory(tokens)
         /\ position_start = Len(history)
         /\ CachesAt(layer_index, tokens)
         /\ Cache = CacheOf(layer_index, history)
<1>1. /\ history \in Seq(Tokens) /\ tokens \in Seq(Tokens)
      /\ position_start = Len(history)
      /\ layer_index \in 0 .. Layers - 1
      /\ Len(tokens) \in Nat /\ Len(history) \in Nat
  BY SequencesTyped, StackAssumption DEF IInv, InForward, TypeOK
<1>2. tokens # <<>>
  <2> SUFFICES ASSUME tokens = <<>> PROVE FALSE
    OBVIOUS
  <2>1. total_sequence = 0
    BY <1>1 DEF IInv, InForward, total_sequence, sequence
  <2>2. total_sequence - 1 < 0
    BY <2>1
  <2>. QED
    BY <2>2 DEF LayerRejects, AttentionRejects
<1>3. FitsAfterHistory(tokens)
  BY <1>1, StackAssumption DEF LayerRejects, RotaryRejects, FitsAfterHistory, sequence
<1>4. CachesAt(layer_index, tokens)
  <2>1. CASE layer_index > 0
    BY <2>1 DEF IInv, CachesConsistent
  <2>2. CASE layer_index = 0 /\ CachesAt(0, <<>>)
    BY <2>2 DEF CachesAt
  <2>3. ASSUME layer_index = 0,
               NEW k \in 1 .. Layers, NEW ext \in Extensions, CachesAt(k, ext)
        PROVE  FALSE
    <3>1. ext \in Seq(Tokens) /\ ext # <<>>
      BY PromptsAre DEF Extensions
    <3>2. Cache = CacheOf(0, history \o ext)
      BY <2>3, StackAssumption DEF CachesAt, Cache
    <3>3. PastSequence(Cache.key) = Len(history) + Len(ext)
      <4>1. history \o ext \in Seq(Tokens) /\ Len(history \o ext) = Len(history) + Len(ext)
        BY <1>1, <3>1
      <4>. QED
        BY <3>2, <4>1, PastSequenceOfCache
    <3>4. total_sequence # PastSequence(Cache.key) + sequence
      BY <1>1, <3>1, <3>3 DEF total_sequence, sequence
    <3>. QED
      BY <3>4 DEF LayerRejects, AttentionRejects
  <2>. QED
    BY <1>1, <2>1, <2>2, <2>3 DEF IInv, CachesConsistent
<1>5. Cache = CacheOf(layer_index, history)
  BY <1>1, <1>4 DEF CachesAt, Cache
<1>. QED
  BY <1>1, <1>2, <1>3, <1>4, <1>5

(* The names of a forward pass for an accepted layer. *)
LEMMA ForwardNames ==
  ASSUME IInv, pc = "layers", layer_index < Layers, ~LayerRejects
  PROVE  /\ history \in Seq(Tokens) /\ tokens \in Seq(Tokens) /\ tokens # <<>>
         /\ history \o tokens \in Seq(Tokens)
         /\ Len(history \o tokens) = position_start + sequence
         /\ Len(history \o tokens) <= MaxPositions
         /\ layer_index \in 0 .. Layers - 1
         /\ position_start = Len(history)
         /\ sequence = Len(tokens)
         /\ sequence \in Nat /\ position_start \in Nat
         /\ total_sequence = position_start + sequence
         /\ Cache = CacheOf(layer_index, history)
         /\ PastSequence(Cache.key) = position_start
         /\ PastSequence(Cache.value) = position_start
         /\ \A i \in 0 .. sequence - 1 :
              StreamIn[i] = Hidden(layer_index, Prefix(history \o tokens, position_start + i + 1))
<1>1. /\ history \in Seq(Tokens) /\ tokens \in Seq(Tokens) /\ tokens # <<>>
      /\ position_start = Len(history) /\ FitsAfterHistory(tokens)
      /\ layer_index \in 0 .. Layers - 1
  BY SequencesTyped, LayerAccepts, StackAssumption DEF IInv, TypeOK
<1>2. /\ history \o tokens \in Seq(Tokens)
      /\ Len(history \o tokens) = Len(history) + Len(tokens)
      /\ Len(history) \in Nat /\ Len(tokens) \in Nat
  BY <1>1
<1>3. Cache = CacheOf(layer_index, history)
  BY LayerAccepts
<1>4. PastSequence(Cache.key) = Len(history) /\ PastSequence(Cache.value) = Len(history)
  BY <1>1, <1>3, PastSequenceOfCache
<1>5. StreamFollowsHistory
  BY <1>1 DEF IInv, InForward
<1>. QED
  BY <1>1, <1>2, <1>3, <1>4, <1>5
     DEF FitsAfterHistory, sequence, total_sequence, StreamFollowsHistory

(* An accepted layer computes the caches of the extended history.          *)
LEMMA PresentMirrors ==
  ASSUME IInv, pc = "layers", layer_index < Layers, ~LayerRejects
  PROVE  /\ PresentKey = CacheOf(layer_index, history \o tokens).key
         /\ PresentValue = CacheOf(layer_index, history \o tokens).value
         /\ [key |-> PresentKey, value |-> PresentValue]
              = CacheOf(layer_index, history \o tokens)
<1> DEFINE full == history \o tokens
           P    == Len(history)
           N    == Len(tokens)
<1>1. \A s \in 0 .. N - 1, h \in 0 .. KvHeads - 1 :
        /\ Key[s][h] = KeyRow(layer_index, h, P + s, Hidden(layer_index, Prefix(full, P + s + 1)))
        /\ Value[s][h] = ValueRow(layer_index, h, Hidden(layer_index, Prefix(full, P + s + 1)))
  BY ForwardNames DEF Key, Value
<1>2. PresentKey = CacheOf(layer_index, full).key
  BY <1>1, ForwardNames, PresentKeyMirrors DEF PresentKey
<1>3. PresentValue = CacheOf(layer_index, full).value
  BY <1>1, ForwardNames, PresentValueMirrors DEF PresentValue
<1>. QED
  BY <1>2, <1>3 DEF CacheOf

(* Behind accepted caches, self attention sees every earlier row of the    *)
(* history's stream and no later one, each once and from its own head.     *)
LEMMA AttentionMirrors ==
  ASSUME IInv, pc = "layers", layer_index < Layers, ~LayerRejects,
         NEW i \in 0 .. sequence - 1
  PROVE  OutProj(layer_index, AttentionRows[i])
           = SelfAttention(layer_index, position_start + i,
               [j \in 0 .. position_start + i |->
                  Hidden(layer_index, Prefix(history \o tokens, j + 1))])
<1> DEFINE full == history \o tokens
           l    == layer_index
           T    == total_sequence
           p    == position_start + i
           of   == [j \in 0 .. p |-> Hidden(l, Prefix(full, j + 1))]
           last == T - 1
           keys == CacheOf(l, full).key
           vals == CacheOf(l, full).value
           head(qh) == [query |-> Query[i][qh],
                        seen  |-> [ks \in ValidMask(i, position_start, last, T) |->
                                     <<keys.row[(qh \div GroupSize) * T + ks],
                                       vals.row[(qh \div GroupSize) * T + ks]>>]]
           want(qh) == [query |-> QueryRow(l, qh, p, of[p]),
                        seen  |-> [j \in 0 .. p |->
                                     <<KeyRow(l, qh \div GroupSize, j, of[j]),
                                       ValueRow(l, qh \div GroupSize, of[j])>>]]
<1>1. /\ T \in Nat /\ p \in 0 .. last /\ Len(full) = T /\ full \in Seq(Tokens)
      /\ position_start \in Nat /\ i \in Nat /\ p = position_start + i
  BY ForwardNames
<1>2. ValidMask(i, position_start, last, T) = 0 .. p
  BY <1>1 DEF ValidMask
<1>3. ASSUME NEW qh \in 0 .. QueryHeads - 1
      PROVE  head(qh) = want(qh)
  <2> DEFINE h == qh \div GroupSize
  <2>1. h \in 0 .. KvHeads - 1
    BY GroupBounds
  <2> HIDE DEF h
  <2>2. Query[i][qh] = QueryRow(l, qh, p, of[p])
    BY <1>1, ForwardNames DEF Query
  <2>3. ASSUME NEW j \in 0 .. p
        PROVE  /\ keys.row[h * T + j] = KeyRow(l, h, j, of[j])
               /\ vals.row[h * T + j] = ValueRow(l, h, of[j])
    <3>1. j \in 0 .. Len(full) - 1
      BY <1>1
    <3>2. /\ keys.row[h * Len(full) + j] = KeyRow(l, h, j, Hidden(l, Prefix(full, j + 1)))
          /\ vals.row[h * Len(full) + j] = ValueRow(l, h, Hidden(l, Prefix(full, j + 1)))
      <4> HIDE DEF full, l
      <4>. QED
        BY <1>1, <2>1, <3>1, CacheRow
    <3>. QED
      BY <1>1, <3>2
  <2>4. [ks \in ValidMask(i, position_start, last, T) |-> <<keys.row[h * T + ks], vals.row[h * T + ks]>>]
          = [j \in 0 .. p |-> <<KeyRow(l, h, j, of[j]), ValueRow(l, h, of[j])>>]
    <3> HIDE DEF full, l, T, p, of, last, keys, vals
    <3>. QED
      BY <1>2, <2>3
  <2> HIDE DEF full, l, T, p, of, last, keys, vals
  <2>. QED
    BY <2>2, <2>4 DEF h
<1>4. AttentionRows[i] = [qh \in 0 .. QueryHeads - 1 |-> head(qh)]
  <2>1. AttentionRows = AttentionOutput(Query, keys, vals, sequence, position_start, last, T)
    BY PresentMirrors, ForwardNames DEF AttentionRows
  <2>2. i \in 0 .. sequence - 1
    OBVIOUS
  <2> HIDE DEF full, l, T, p, of, last, keys, vals
  <2>. QED
    BY <2>1, <2>2 DEF AttentionOutput
<1>5. SelfAttention(l, p, of)
        = OutProj(l, [qh \in 0 .. QueryHeads - 1 |-> want(qh)])
  BY DEF SelfAttention
<1>6. [qh \in 0 .. QueryHeads - 1 |-> head(qh)] = [qh \in 0 .. QueryHeads - 1 |-> want(qh)]
  <2> HIDE DEF head, want
  <2>. QED
    BY <1>3
<1>. QED
  <2> HIDE DEF full, l, T, p, of, last, keys, vals, head, want
  <2>1. OutProj(l, AttentionRows[i])
          = SelfAttention(l, p, of)
    BY <1>4, <1>5, <1>6
  <2>. QED
    BY <2>1 DEF full, l, p, of

(* An accepted layer computes, row by row, the next layer of the cache-    *)
(* free decoder.                                                           *)
LEMMA LayerMirrors ==
  ASSUME IInv, pc = "layers", layer_index < Layers, ~LayerRejects
  PROVE  /\ [key |-> PresentKey, value |-> PresentValue]
              = CacheOf(layer_index, history \o tokens)
         /\ \A i \in 0 .. sequence - 1 :
              Sum(Attended[i], Mlp(layer_index, Attended[i]))
                = Hidden(layer_index + 1, Prefix(history \o tokens, position_start + i + 1))
<1> DEFINE full == history \o tokens
<1>1. ASSUME NEW i \in 0 .. sequence - 1
      PROVE  Sum(Attended[i], Mlp(layer_index, Attended[i]))
               = Hidden(layer_index + 1, Prefix(full, position_start + i + 1))
  <2> DEFINE p  == position_start + i
             of == [j \in 0 .. p |-> Hidden(layer_index, Prefix(full, j + 1))]
  <2>1. OutProj(layer_index, AttentionRows[i]) = SelfAttention(layer_index, p, of)
    BY AttentionMirrors
  <2>2. StreamIn[i] = of[p]
    BY ForwardNames
  <2>3. Attended[i] = Sum(of[p], SelfAttention(layer_index, p, of))
    BY <2>1, <2>2 DEF Attended
  <2>4. Sum(Attended[i], Mlp(layer_index, Attended[i])) = LayerOutput(layer_index, p, of)
    BY <2>3 DEF LayerOutput
  <2>5. p \in 0 .. Len(full) - 1
    BY ForwardNames
  <2>6. Hidden(layer_index + 1, Prefix(full, p + 1)) = LayerOutput(layer_index, p, of)
    BY <2>5, ForwardNames, HiddenStep
  <2>. QED
    BY <2>4, <2>6
<1>. QED
  BY <1>1, PresentMirrors

----------------------------------------------------------------------------
(* The invariant is inductive.                                             *)

(* Empty caches are the caches of the empty history.                       *)
LEMMA EmptyCachesMirror ==
  /\ DOMAIN EmptyCaches = 0 .. Layers - 1
  /\ \A l \in 0 .. Layers - 1 :
       /\ EmptyCaches[l] = CacheOf(l, <<>>)
       /\ DOMAIN EmptyCaches[l] = {"key", "value"}
       /\ IsMatrix(EmptyCaches[l].key)
       /\ IsMatrix(EmptyCaches[l].value)
  BY CacheOfEmpty, CacheIsMatrix, EmptySeq DEF EmptyCaches

(* The empty prompt is a prompt.                                           *)
LEMMA EmptyPrompt ==
  <<>> \in Prompts /\ Len(<<>>) = 0
<1>1. <<>> \in Seq(Tokens) /\ Len(<<>>) = 0 /\ 0 \in 0 .. MaxPrompt
  BY PromptAssumption
<1>. QED
  BY <1>1, PromptsAre

(* The constructor establishes the invariant.                              *)
LEMMA InitIInv ==
  ASSUME Init PROVE IInv
<1>1. TypeOK
  BY EmptyCachesMirror, EmptyPrompt, StackAssumption DEF Init, TypeOK, NoResponse
<1>2. CachesConsistent
  BY EmptyCachesMirror DEF Init, CachesConsistent, CachesAt
<1>3. LogitsFollowHistory
  BY DEF Init, LogitsFollowHistory, NoResponse
<1>. QED
  BY <1>1, <1>2, <1>3, EmptyPrompt DEF Init, IInv, InForward

(* reset preserves the invariant.                                          *)
LEMMA ResetIInv ==
  ASSUME IInv, Reset PROVE IInv'
<1>1. TypeOK'
  BY EmptyCachesMirror, StackAssumption DEF IInv, Reset, ClearContext, locals, TypeOK, NoResponse
<1>2. CachesConsistent'
  BY EmptyCachesMirror DEF Reset, ClearContext, CachesConsistent, CachesAt
<1>3. LogitsFollowHistory'
  BY DEF Reset, LogitsFollowHistory, NoResponse
<1>. QED
  BY <1>1, <1>2, <1>3, EmptyPrompt DEF Reset, ClearContext, IInv, InForward

(* embed delivers the stream that enters layer 0. *)
LEMMA EmbedIsStart ==
  ASSUME NEW hist \in Seq(Tokens), NEW ts \in Seq(Tokens),
         Len(hist) + Len(ts) <= MaxPositions, NEW i \in 0 .. Len(ts) - 1
  PROVE  Embed(ts)[i] = Hidden(0, Prefix(hist \o ts, Len(hist) + i + 1))
<1>1. /\ hist \o ts \in Seq(Tokens) /\ Len(hist \o ts) = Len(hist) + Len(ts)
      /\ Len(hist) + i \in 0 .. Len(hist \o ts) - 1
      /\ (hist \o ts)[Len(hist) + i + 1] = ts[i + 1]
  BY ConcatProperties
<1>2. Hidden(0, Prefix(hist \o ts, Len(hist) + i + 1)) = Embedding((hist \o ts)[Len(hist) + i + 1])
  BY <1>1, HiddenStart
<1>. QED
  BY <1>1, <1>2 DEF Embed

(* The entry of prefill preserves the invariant.                           *)
LEMMA PrefillIInv ==
  ASSUME IInv, NEW prompt \in Prompts, Prefill(prompt) PROVE IInv'
<1>1. prompt \in Seq(Tokens)
  BY PromptsAre
<1>2. TypeOK'
  BY EmptyCachesMirror, StackAssumption
     DEF IInv, Prefill, EnterForward, ClearContext, TypeOK, NoResponse
<1>3. CachesConsistent'
  BY EmptyCachesMirror DEF Prefill, EnterForward, ClearContext, CachesConsistent, CachesAt
<1>4. LogitsFollowHistory'
  BY DEF Prefill, EnterForward, LogitsFollowHistory, NoResponse
<1>5. ASSUME FitsAfterHistory(tokens)' PROVE StreamFollowsHistory'
  <2>1. history' = <<>> /\ tokens' = prompt /\ layer_index' = 0 /\ position_start' = 0
        /\ residual' = Embed(prompt) /\ Len(<<>>) + Len(prompt) <= MaxPositions
    BY <1>5 DEF Prefill, EnterForward, ClearContext, FitsAfterHistory
  <2>2. \A i \in 0 .. Len(prompt) - 1 :
          Embed(prompt)[i] = Hidden(0, Prefix(<<>> \o prompt, Len(<<>>) + i + 1))
    BY <1>1, <2>1, EmbedIsStart, EmptySeq
  <2>. QED
    BY <2>1, <2>2, EmptySeq DEF StreamFollowsHistory, StreamIn, sequence
<1>6. InForward'
  BY <1>5 DEF Prefill, EnterForward, ClearContext, InForward
<1>. QED
  BY <1>2, <1>3, <1>4, <1>6, EmptyPrompt DEF Prefill, ClearContext, IInv

(* The entry of decode preserves the invariant.                            *)
LEMMA DecodeIInv ==
  ASSUME IInv, NEW token \in Tokens, Decode(token) PROVE IInv'
<1>1. <<token>> \in Seq(Tokens) /\ Len(<<token>>) = 1 /\ <<token>> # <<>>
  OBVIOUS
<1>2. <<token>> \in Prompts
  BY <1>1, PromptsAre, PromptAssumption
<1>3. TypeOK'
  BY <1>2, StackAssumption DEF IInv, Decode, EnterForward, TypeOK, NoResponse
<1>4. CachesConsistent'
  BY DEF IInv, Decode, EnterForward, CachesConsistent, CachesAt, FitsAfterHistory
<1>5. LogitsFollowHistory'
  BY DEF Decode, EnterForward, LogitsFollowHistory, NoResponse
<1>6. ASSUME FitsAfterHistory(tokens)' PROVE StreamFollowsHistory'
  <2>1. history' = history /\ tokens' = <<token>> /\ layer_index' = 0
        /\ position_start' = Len(history) /\ history \in Seq(Tokens)
        /\ residual' = Embed(<<token>>) /\ Len(history) + Len(<<token>>) <= MaxPositions
    BY <1>6, SequencesTyped DEF IInv, Decode, EnterForward, FitsAfterHistory
  <2>2. \A i \in 0 .. Len(<<token>>) - 1 :
          Embed(<<token>>)[i] = Hidden(0, Prefix(history \o <<token>>, Len(history) + i + 1))
    BY <1>1, <2>1, EmbedIsStart
  <2>. QED
    BY <2>1, <2>2 DEF StreamFollowsHistory, StreamIn, sequence
<1>7. InForward'
  BY <1>1, <1>6 DEF IInv, Decode, EnterForward, InForward
<1>. QED
  BY <1>3, <1>4, <1>5, <1>7 DEF IInv, Decode

(* Storing the present matrices extends exactly one more layer. *)
LEMMA StoreExtends ==
  ASSUME IInv, pc = "layers", layer_index < Layers, ~LayerRejects,
         StoreCache
  PROVE  /\ \A l \in 0 .. Layers - 1 :
              caches'[l] = CacheOf(l, IF l < layer_index + 1 THEN history \o tokens ELSE history)
         /\ DOMAIN caches' = 0 .. Layers - 1
         /\ \A l \in 0 .. Layers - 1 :
              /\ DOMAIN caches'[l] = {"key", "value"}
              /\ IsMatrix(caches'[l].key)
              /\ IsMatrix(caches'[l].value)
<1>1. /\ DOMAIN caches = 0 .. Layers - 1 /\ layer_index \in 0 .. Layers - 1
      /\ history \in Seq(Tokens) /\ history \o tokens \in Seq(Tokens)
  BY ForwardNames DEF IInv, TypeOK
<1>2. CachesAt(layer_index, tokens)
  BY LayerAccepts
<1>3. \A l \in 0 .. Layers - 1 :
        caches'[l] = CacheOf(l, IF l < layer_index + 1 THEN history \o tokens ELSE history)
  <2> SUFFICES ASSUME NEW l \in 0 .. Layers - 1
               PROVE  caches'[l] = CacheOf(l, IF l < layer_index + 1
                                              THEN history \o tokens ELSE history)
    OBVIOUS
  <2>1. CASE l = layer_index
    BY <1>1, <2>1, PresentMirrors DEF StoreCache
  <2>2. CASE l # layer_index
    <3>1. caches'[l] = caches[l]
      BY <1>1, <2>2 DEF StoreCache
    <3>2. l < layer_index + 1 <=> l < layer_index
      BY <1>1, <2>2
    <3>. QED
      BY <1>2, <3>1, <3>2 DEF CachesAt
  <2>. QED
    BY <2>1, <2>2
<1>4. \A l \in 0 .. Layers - 1 :
        /\ DOMAIN caches'[l] = {"key", "value"}
        /\ IsMatrix(caches'[l].key)
        /\ IsMatrix(caches'[l].value)
  BY <1>1, <1>3, CacheIsMatrix
<1>5. DOMAIN caches' = 0 .. Layers - 1
  BY <1>1 DEF StoreCache
<1>. QED
  BY <1>3, <1>4, <1>5

(* An accepted layer preserves the invariant.                              *)
LEMMA LayerIInv ==
  ASSUME IInv, Layer PROVE IInv'
<1>1. pc = "layers" /\ layer_index < Layers /\ ~LayerRejects /\ StoreCache
  BY DEF Layer
<1>2. UNCHANGED <<past_length, pc, tokens, position_start, history, response>>
  BY DEF Layer
<1>3. layer_index' = layer_index + 1 /\ layer_index' \in 1 .. Layers /\ Layers \in Nat
  BY <1>1, ForwardNames, StackAssumption DEF Layer
<1>4. TypeOK'
  BY <1>1, <1>2, <1>3, StoreExtends DEF IInv, TypeOK
<1>5. CachesConsistent'
  BY <1>1, <1>2, <1>3, StoreExtends DEF CachesConsistent, CachesAt
<1>6. StreamFollowsHistory'
  <2>1. \A i \in 0 .. sequence - 1 :
          Sum(residual'[i], mlp_down'[i])
            = Hidden(layer_index', Prefix(history \o tokens, position_start + i + 1))
    BY <1>1, <1>3, LayerMirrors DEF Layer, Attended
  <2>2. sequence' = sequence /\ layer_index' # 0
    BY <1>2, <1>3 DEF sequence
  <2>. QED
    BY <1>2, <2>1, <2>2 DEF StreamFollowsHistory, StreamIn
<1>7. InForward'
  BY <1>1, <1>2, <1>6, LayerAccepts DEF IInv, InForward, FitsAfterHistory
<1>8. LogitsFollowHistory'
  BY <1>2 DEF IInv, LogitsFollowHistory, LastLogits
<1>. QED
  BY <1>2, <1>4, <1>5, <1>7, <1>8 DEF IInv

(* Leaving forward: what remains to show is the caches, the history and    *)
(* the logits.                                                             *)
LEMMA LeaveTypeOK ==
  ASSUME TypeOK, NEW result, LeaveForward(result),
         result.status \in {"none", "logits", "invalid_argument", "bad_alloc"},
         past_length' \in 0 .. MaxPositions, history' \in Histories \cup {<<>>},
         DOMAIN caches' = 0 .. Layers - 1,
         \A l \in 0 .. Layers - 1 :
            /\ DOMAIN caches'[l] = {"key", "value"}
            /\ IsMatrix(caches'[l].key)
            /\ IsMatrix(caches'[l].value)
  PROVE  TypeOK'
  BY EmptyPrompt, StackAssumption DEF TypeOK, LeaveForward

(* A rejected layer preserves the invariant.                               *)
LEMMA RejectLayerIInv ==
  ASSUME IInv, RejectLayer PROVE IInv'
<1>1. UNCHANGED <<caches, past_length, history>> /\ LeaveForward(InvalidArgument)
  BY DEF RejectLayer
<1>2. TypeOK'
  BY <1>1, LeaveTypeOK DEF IInv, TypeOK, InvalidArgument
<1>3. CachesConsistent'
  <2>1. CASE layer_index > 0
    <3>1. CachesAt(layer_index, tokens) /\ tokens \in Extensions /\ FitsAfterHistory(tokens)
          /\ layer_index \in 1 .. Layers
      BY <2>1, StackAssumption
         DEF RejectLayer, IInv, CachesConsistent, InForward, TypeOK, Extensions
    <3>. QED
      BY <1>1, <3>1 DEF CachesConsistent, CachesAt, LeaveForward, FitsAfterHistory
  <2>2. CASE ~(layer_index > 0)
    BY <1>1, <2>2 DEF IInv, CachesConsistent, CachesAt, LeaveForward, FitsAfterHistory
  <2>. QED
    BY <2>1, <2>2
<1>4. InForward' /\ LogitsFollowHistory'
  BY <1>1 DEF InForward, LogitsFollowHistory, LeaveForward, InvalidArgument
<1>. QED
  BY <1>1, <1>2, <1>3, <1>4 DEF IInv

(* A failed call leaves the layers it has extended. *)
LEMMA LeaveExtended ==
  ASSUME IInv, NEW result, LeaveForward(result), history' = history,
         NEW k \in 0 .. Layers, k > 0 => tokens # <<>> /\ FitsAfterHistory(tokens),
         \A l \in 0 .. Layers - 1 :
            caches'[l] = CacheOf(l, IF l < k THEN history \o tokens ELSE history)
  PROVE  CachesConsistent'
<1>1. CASE k > 0
  <2>1. tokens \in Extensions /\ k \in 1 .. Layers
    BY <1>1, StackAssumption DEF IInv, TypeOK, Extensions
  <2>2. FitsAfterHistory(tokens)' <=> Len(history) + Len(tokens') <= MaxPositions
    BY DEF FitsAfterHistory
  <2>. QED
    BY <1>1, <2>1 DEF CachesConsistent, CachesAt, FitsAfterHistory, LeaveForward
<1>2. CASE ~(k > 0)
  <2>1. \A l \in 0 .. Layers - 1 : caches'[l] = CacheOf(l, history)
    BY <1>2
  <2>. QED
    BY <2>1 DEF CachesConsistent, CachesAt, LeaveForward
<1>. QED
  BY <1>1, <1>2

(* bad_alloc in the layer loop preserves the invariant.                    *)
LEMMA LayerOutOfMemoryIInv ==
  ASSUME IInv, LayerOutOfMemory PROVE IInv'
<1>1. /\ pc = "layers" /\ layer_index < Layers /\ LeaveForward(BadAlloc)
      /\ UNCHANGED <<past_length, history>>
  BY DEF LayerOutOfMemory
<1>2. CASE UNCHANGED caches
  <2>1. TypeOK'
    BY <1>1, <1>2, LeaveTypeOK DEF IInv, TypeOK, BadAlloc
  <2>2. CachesConsistent'
    <3>1. CASE layer_index > 0
      <4>1. CachesAt(layer_index, tokens) /\ tokens # <<>> /\ FitsAfterHistory(tokens)
            /\ layer_index \in 0 .. Layers
        BY <1>1, <3>1 DEF IInv, CachesConsistent, InForward, TypeOK
      <4>. QED
        BY <1>1, <1>2, <4>1, LeaveExtended DEF CachesAt
    <3>2. CASE ~(layer_index > 0)
      BY <1>1, <1>2, <3>2 DEF IInv, CachesConsistent, CachesAt, LeaveForward, FitsAfterHistory
    <3>. QED
      BY <3>1, <3>2
  <2>. QED
    BY <1>1, <2>1, <2>2 DEF IInv, InForward, LogitsFollowHistory, LeaveForward, BadAlloc
<1>3. CASE ~LayerRejects /\ StoreCache
  <2>1. TypeOK'
    BY <1>1, <1>3, StoreExtends, LeaveTypeOK DEF IInv, TypeOK, BadAlloc
  <2>2. layer_index + 1 \in 0 .. Layers
    BY <1>1, <1>3, ForwardNames, StackAssumption
  <2>3. CachesConsistent'
    BY <1>1, <1>3, <2>2, StoreExtends, LayerAccepts, LeaveExtended
  <2>. QED
    BY <1>1, <2>1, <2>3 DEF IInv, InForward, LogitsFollowHistory, LeaveForward, BadAlloc
<1>. QED
  BY <1>2, <1>3 DEF LayerOutOfMemory

(* After the last layer. *)
LEMMA AllLayersDone ==
  ASSUME IInv, pc = "layers", layer_index = Layers
  PROVE  /\ tokens # <<>> /\ FitsAfterHistory(tokens)
         /\ history \in Seq(Tokens) /\ tokens \in Seq(Tokens)
         /\ history \o tokens \in Histories
         /\ Len(history \o tokens) = Len(history) + Len(tokens)
         /\ total_sequence = Len(history \o tokens)
         /\ sequence = Len(tokens) /\ sequence \in Nat \ {0}
         /\ \A l \in 0 .. Layers - 1 : caches[l] = CacheOf(l, history \o tokens)
         /\ FinalRows = LastLogits(history \o tokens, Len(tokens))
<1>1. Layers \in Nat /\ Layers > 0
  BY StackAssumption
<1>2. /\ tokens # <<>> /\ FitsAfterHistory(tokens) /\ position_start = Len(history)
      /\ history \in Seq(Tokens) /\ tokens \in Seq(Tokens)
      /\ CachesAt(Layers, tokens) /\ StreamFollowsHistory
  BY <1>1, SequencesTyped DEF IInv, InForward, CachesConsistent
<1>3. /\ history \o tokens \in Seq(Tokens)
      /\ Len(history \o tokens) = Len(history) + Len(tokens)
      /\ Len(tokens) \in Nat \ {0} /\ Len(history) \in Nat
  BY <1>2
<1>4. history \o tokens \in Histories
  <2>1. Len(history \o tokens) \in 1 .. MaxPositions
    BY <1>2, <1>3, StackAssumption DEF FitsAfterHistory
  <2>. QED
    BY <1>3, <2>1, HistoriesAre
<1>5. \A l \in 0 .. Layers - 1 : caches[l] = CacheOf(l, history \o tokens)
  BY <1>1, <1>2 DEF CachesAt
<1>6. ASSUME NEW i \in 0 .. Len(tokens) - 1
      PROVE  Logits(Sum(residual[i], mlp_down[i]))
               = Logits(Hidden(Layers, Prefix(history \o tokens,
                          Len(history \o tokens) - Len(tokens) + i + 1)))
  <2>1. StreamIn[i] = Sum(residual[i], mlp_down[i])
    BY <1>1 DEF StreamIn, sequence
  <2>2. StreamIn[i] = Hidden(Layers, Prefix(history \o tokens, Len(history) + i + 1))
    BY <1>2 DEF StreamFollowsHistory, sequence
  <2>3. Len(history \o tokens) - Len(tokens) + i + 1 = Len(history) + i + 1
    BY <1>3
  <2>. QED
    BY <2>1, <2>2, <2>3
<1>7. FinalRows = LastLogits(history \o tokens, Len(tokens))
  BY <1>6 DEF FinalRows, LastLogits, sequence
<1>. QED
  BY <1>2, <1>3, <1>4, <1>5, <1>7 DEF total_sequence, sequence

(* Setting past_length_ preserves the invariant, with or without an        *)
(* answer.                                                                 *)
LEMMA CommitIInv ==
  ASSUME IInv, pc = "layers", layer_index = Layers, CommitContext, UNCHANGED caches,
         NEW result, LeaveForward(result),
         result \in {BadAlloc, Answered(FinalRows)}
  PROVE  IInv'
<1>1. history' = history \o tokens /\ past_length' = Len(history')
  BY AllLayersDone DEF CommitContext
<1>2. history' \in Histories /\ past_length' \in 0 .. MaxPositions
  <2>1. history' \in Histories
    BY <1>1, AllLayersDone
  <2>2. Len(history') \in 1 .. MaxPositions
    BY <2>1, HistoriesAre
  <2>. QED
    BY <1>1, <2>1, <2>2, StackAssumption
<1>3. TypeOK'
  <2>1. result.status \in {"none", "logits", "invalid_argument", "bad_alloc"}
    BY DEF BadAlloc, Answered
  <2>. QED
    BY <1>2, <2>1, LeaveTypeOK DEF IInv, TypeOK
<1>4. CachesConsistent'
  <2>1. \A l \in 0 .. Layers - 1 : caches'[l] = CacheOf(l, history')
    BY <1>1, AllLayersDone
  <2>. QED
    BY <2>1 DEF CachesConsistent, CachesAt, LeaveForward
<1>5. LogitsFollowHistory'
  <2>1. CASE result = BadAlloc
    BY <2>1 DEF LogitsFollowHistory, LeaveForward, BadAlloc
  <2>2. CASE result = Answered(FinalRows)
    <3>1. response'.logits = LastLogits(history', Len(tokens))
      BY <1>1, <2>2, AllLayersDone DEF LeaveForward, Answered
    <3>2. Len(tokens) \in 1 .. Len(history')
      BY <1>1, AllLayersDone DEF sequence
    <3>. QED
      BY <3>1, <3>2 DEF LogitsFollowHistory
  <2>. QED
    BY <2>1, <2>2
<1>. QED
  BY <1>1, <1>3, <1>4, <1>5 DEF IInv, InForward, LeaveForward

(* bad_alloc in the final norm preserves the invariant.                    *)
LEMMA FinalNormOutOfMemoryIInv ==
  ASSUME IInv, FinalNormOutOfMemory PROVE IInv'
<1>1. /\ pc = "layers" /\ layer_index = Layers /\ LeaveForward(BadAlloc)
      /\ UNCHANGED <<caches, past_length, history>>
  BY DEF FinalNormOutOfMemory
<1>2. TypeOK'
  BY <1>1, LeaveTypeOK DEF IInv, TypeOK, BadAlloc
<1>3. CachesConsistent'
  <2>1. \A l \in 0 .. Layers - 1 :
          caches'[l] = CacheOf(l, IF l < Layers THEN history \o tokens ELSE history)
    BY <1>1, AllLayersDone, StackAssumption
  <2>2. Layers \in 0 .. Layers
    BY StackAssumption
  <2>. QED
    BY <1>1, <2>1, <2>2, AllLayersDone, LeaveExtended
<1>. QED
  BY <1>1, <1>2, <1>3 DEF IInv, InForward, LogitsFollowHistory, LeaveForward, BadAlloc

(* The invariant depends on the variables only.                            *)
LEMMA StutterIInv ==
  ASSUME IInv, UNCHANGED vars PROVE IInv'
<1>1. TypeOK' /\ LogitsFollowHistory'
  BY DEF vars, locals, IInv, TypeOK, LogitsFollowHistory
<1>2. CachesConsistent'
  BY DEF vars, locals, IInv, CachesConsistent, CachesAt, FitsAfterHistory
<1>3. InForward'
  BY DEF vars, locals, IInv, InForward, FitsAfterHistory, StreamFollowsHistory, StreamIn,
         sequence
<1>. QED
  BY <1>1, <1>2, <1>3 DEF vars, locals, IInv

(* Every step preserves the invariant.                                     *)
LEMMA NextIInv ==
  ASSUME IInv, [Next]_vars PROVE IInv'
<1>1. CASE Reset
  BY <1>1, ResetIInv
<1>2. ASSUME NEW prompt \in Prompts, Prefill(prompt) PROVE IInv'
  BY <1>2, PrefillIInv
<1>3. ASSUME NEW token \in Tokens, Decode(token) PROVE IInv'
  BY <1>3, DecodeIInv
<1>4. CASE Layer
  BY <1>4, LayerIInv
<1>5. CASE RejectLayer
  BY <1>5, RejectLayerIInv
<1>6. CASE Finish
  BY <1>6, CommitIInv DEF Finish
<1>7. CASE LayerOutOfMemory
  BY <1>7, LayerOutOfMemoryIInv
<1>8. CASE FinalNormOutOfMemory
  BY <1>8, FinalNormOutOfMemoryIInv
<1>9. CASE LogitsOutOfMemory
  BY <1>9, CommitIInv DEF LogitsOutOfMemory
<1>10. CASE UNCHANGED vars
  BY <1>10, StutterIInv
<1>. QED
  BY <1>1, <1>2, <1>3, <1>4, <1>5, <1>6, <1>7, <1>8, <1>9, <1>10
     DEF Next, Call, Progress, OutOfMemory

----------------------------------------------------------------------------
(* The theorems about Qwen3Model.                                          *)

(* IInv is an invariant of Qwen3Model for every number of layers, heads,   *)
(* positions and every vocabulary.                                         *)
THEOREM Invariance == Spec => []IInv
<1>1. Init => IInv
  BY InitIInv
<1>2. IInv /\ [Next]_vars => IInv'
  BY NextIInv
<1>. QED
  BY <1>1, <1>2, PTL DEF Spec

(* The variables of Qwen3Model keep their shape: positions never pass the  *)
(* RoPE tables.                                                            *)
THEOREM TypeCorrect == Spec => []TypeOK
<1>1. IInv => TypeOK
  BY DEF IInv
<1>. QED
  BY <1>1, Invariance, PTL

(* Layer 0 tells the health of the model. *)
LEMMA HealthIsLayerZero ==
  ASSUME IInv, ~(pc = "layers" /\ layer_index > 0)
  PROVE  /\ history \in Seq(Tokens)
         /\ Health \in {"sound", "stalled"}
         /\ Health = "sound" <=> caches[0].key.rows = KvHeads * Len(history)
         /\ Health = "sound" => CachesAt(0, <<>>)
<1>1. past_length = Len(history) /\ history \in Seq(Tokens)
  BY SequencesTyped DEF IInv
<1>2. /\ Health \in {"sound", "stalled"}
      /\ Health = "sound" <=> caches[0].key.rows = KvHeads * Len(history)
  BY <1>1 DEF Health
<1>3. ASSUME Health = "sound" PROVE CachesAt(0, <<>>)
  <2>1. ASSUME NEW k \in 1 .. Layers, NEW ext \in Extensions, CachesAt(k, ext)
        PROVE  FALSE
    <3>1. ext \in Seq(Tokens) /\ ext # <<>>
      BY PromptsAre DEF Extensions
    <3>2. caches[0] = CacheOf(0, history \o ext)
      BY <2>1, StackAssumption DEF CachesAt
    <3>. QED
      BY <1>1, <1>2, <1>3, <3>1, <3>2, CacheRowsTell
  <2>. QED
    BY <2>1 DEF IInv, CachesConsistent
<1>. QED
  BY <1>1, <1>2, <1>3

(* What the invariant says of a sound model between calls.                 *)
LEMMA InvariantMirrors ==
  ASSUME IInv PROVE CacheMirrorsHistory
  BY HealthIsLayerZero DEF IInv, CacheMirrorsHistory

(* Between calls, past_length_ counts the history, and the caches of a     *)
(* sound model are exactly those of the history.                           *)
THEOREM CachesFollow == Spec => []CacheMirrorsHistory
<1>1. IInv => CacheMirrorsHistory
  BY InvariantMirrors
<1>. QED
  BY <1>1, Invariance, PTL

(* Logits returned through the caches are those of the cache-free decoder. *)
THEOREM LogitsFollow == Spec => []LogitsFollowHistory
<1>1. IInv => LogitsFollowHistory
  BY DEF IInv
<1>. QED
  BY <1>1, Invariance, PTL

(* Once past layer 0 no guard of the kernels fires.                        *)
LEMMA InvariantAcceptsLater ==
  ASSUME IInv, pc = "layers", layer_index \in 1 .. Layers - 1
  PROVE  ~LayerRejects
<1>1. layer_index > 0 /\ layer_index \in 0 .. Layers - 1
  BY StackAssumption
<1>2. /\ tokens # <<>> /\ FitsAfterHistory(tokens) /\ position_start = Len(history)
      /\ history \in Seq(Tokens) /\ tokens \in Seq(Tokens)
      /\ CachesAt(layer_index, tokens)
  BY <1>1, SequencesTyped DEF IInv, InForward, CachesConsistent
<1>3. Cache = CacheOf(layer_index, history)
  BY <1>1, <1>2 DEF CachesAt, Cache
<1>4. Len(history) \in Nat /\ Len(tokens) \in Nat \ {0}
      /\ total_sequence = Len(history) + Len(tokens) /\ sequence = Len(tokens)
  BY <1>2 DEF total_sequence, sequence
<1>5. ~RotaryRejects
  BY <1>2, <1>4, StackAssumption DEF RotaryRejects, FitsAfterHistory
<1>6. ~AttentionRejects(sequence, Cache.key, Cache.value, total_sequence - 1, total_sequence)
  BY <1>2, <1>3, <1>4, PastSequenceOfCache DEF AttentionRejects
<1>. QED
  BY <1>5, <1>6 DEF LayerRejects

(* A call is rejected by the kernels of layer 0 or not at all.             *)
THEOREM FirstLayerRejects == Spec => []OnlyFirstLayerRejects
<1>1. IInv => OnlyFirstLayerRejects
  BY InvariantAcceptsLater DEF OnlyFirstLayerRejects
<1>. QED
  BY <1>1, Invariance, PTL

----------------------------------------------------------------------------
(* Refinement.                                                             *)

(* TokenHistory's own copies of the constant operators are the same. *)
LEMMA SameOperators ==
  /\ History!Prompts = Prompts
  /\ History!NoResponse = NoResponse
  /\ History!InvalidArgument = InvalidArgument
  /\ History!BadAlloc = BadAlloc
  /\ \A rows : History!Answered(rows) = Answered(rows)
  /\ \A hist, n : History!LastLogits(hist, n) = LastLogits(hist, n)
  BY DEF History!Prompts, Prompts, History!NoResponse, NoResponse,
         History!InvalidArgument, InvalidArgument, History!BadAlloc, BadAlloc,
         History!Answered, Answered, History!LastLogits, LastLogits,
         History!Logits, Logits, History!Prefix, Prefix

(* Outside the layer loop, a model whose layer 0 holds the history is      *)
(* sound, and one whose layer 0 holds more is stalled.                     *)
LEMMA HealthAfter ==
  ASSUME NEW hist \in Seq(Tokens), NEW ext \in Seq(Tokens),
         past_length' = Len(hist), pc' = "idle" \/ layer_index' = 0
  PROVE  /\ caches'[0] = CacheOf(0, hist) => Health' = "sound"
         /\ caches'[0] = CacheOf(0, hist \o ext) /\ ext # <<>> => Health' = "stalled"
<1>1. caches'[0] = CacheOf(0, hist) => caches'[0].key.rows = KvHeads * past_length'
  BY PastSequenceOfCache
<1>2. caches'[0] = CacheOf(0, hist \o ext) /\ ext # <<>>
        => caches'[0].key.rows # KvHeads * past_length'
  BY CacheRowsTell
<1>. QED
  BY <1>1, <1>2 DEF Health

(* A model whose layer is accepted is sound.                               *)
LEMMA HealthInLoop ==
  ASSUME IInv, pc = "layers", layer_index < Layers, ~LayerRejects
  PROVE  Health = "sound"
<1>1. CASE layer_index > 0
  BY <1>1 DEF Health
<1>2. CASE ~(layer_index > 0)
  <2>1. layer_index = 0 /\ caches[0] = CacheOf(0, history) /\ history \in Seq(Tokens)
    BY <1>2, ForwardNames DEF Cache
  <2>2. caches[0].key.rows = KvHeads * Len(history)
    BY <2>1, PastSequenceOfCache
  <2>. QED
    BY <1>2, <2>2, HealthIsLayerZero
<1>. QED
  BY <1>1, <1>2

(* A new model is a new token history.                                     *)
LEMMA InitRefines ==
  ASSUME Init PROVE History!Init
<1>1. caches[0].key.rows = KvHeads * past_length
  BY HeadsAssumption, StackAssumption DEF Init, EmptyCaches, EmptyMatrix
<1>. QED
  BY <1>1, SameOperators DEF Init, History!Init, Health

(* Emptied caches are sound.                                               *)
LEMMA ClearHealth ==
  ASSUME ClearContext, pc' = "idle" \/ layer_index' = 0
  PROVE  Health' = "sound"
<1>1. caches'[0].key.rows = 0 /\ KvHeads * past_length' = 0
  BY HeadsAssumption, StackAssumption DEF ClearContext, EmptyCaches, EmptyMatrix
<1>. QED
  BY <1>1 DEF Health

(* Calls of the model are calls on the history.                            *)
LEMMA CallRefines ==
  ASSUME IInv, Call PROVE History!Next
<1>1. CASE Reset
  <2>1. Health' = "sound"
    BY <1>1, ClearHealth DEF Reset
  <2>2. History!Reset
    BY <1>1, <2>1, SameOperators DEF Reset, ClearContext, locals, History!Reset
  <2>. QED
    BY <2>2 DEF History!Next
<1>2. ASSUME NEW prompt \in Prompts, Prefill(prompt) PROVE History!Next
  <2>1. Health' = "sound"
    BY <1>2, ClearHealth DEF Prefill, EnterForward
  <2>2. History!Prefill(prompt)
    BY <1>2, <2>1, SameOperators DEF Prefill, EnterForward, ClearContext, History!Prefill
  <2>. QED
    BY <1>2, <2>2, SameOperators DEF History!Next
<1>3. ASSUME NEW token \in Tokens, Decode(token) PROVE History!Next
  <2>1. Health' = Health
    BY <1>3 DEF Decode, EnterForward, Health
  <2>2. History!Decode(token)
    BY <1>3, <2>1, SameOperators DEF Decode, EnterForward, History!Decode
  <2>. QED
    BY <1>3, <2>2 DEF History!Next
<1>. QED
  BY <1>1, <1>2, <1>3 DEF Call

(* A layer of the loop is invisible.                                       *)
LEMMA LayerRefines ==
  ASSUME IInv, Layer PROVE UNCHANGED History!vars
<1>1. Health = "sound"
  BY HealthInLoop DEF Layer
<1>2. layer_index' > 0 /\ pc' = "layers"
  BY ForwardNames DEF Layer
<1>3. Health' = "sound"
  BY <1>2 DEF Health
<1>. QED
  BY <1>1, <1>3 DEF Layer, History!vars

(* The kernels reject only what the token history rejects.                 *)
LEMMA RejectRefines ==
  ASSUME IInv, RejectLayer PROVE History!Reject
<1>1. /\ pc = "layers" /\ layer_index \in 0 .. Layers - 1 /\ LayerRejects
      /\ LeaveForward(InvalidArgument) /\ UNCHANGED <<caches, past_length, history>>
  BY StackAssumption DEF RejectLayer, IInv, TypeOK
<1>2. layer_index = 0
  BY <1>1, InvariantAcceptsLater, StackAssumption
<1>3. Health' = Health
  BY <1>1, <1>2 DEF Health, LeaveForward
<1>4. ASSUME History!Servable PROVE FALSE
  <2>1. /\ CachesAt(0, <<>>) /\ tokens # <<>> /\ FitsAfterHistory(tokens)
        /\ history \in Seq(Tokens) /\ tokens \in Seq(Tokens)
        /\ position_start = Len(history)
    BY <1>1, <1>2, <1>4, HealthIsLayerZero, SequencesTyped
       DEF History!Servable, FitsAfterHistory, IInv, InForward
  <2>2. Cache = CacheOf(0, history)
    BY <1>2, <2>1, StackAssumption DEF CachesAt, Cache
  <2>3. Len(history) \in Nat /\ Len(tokens) \in Nat \ {0}
        /\ total_sequence = Len(history) + Len(tokens) /\ sequence = Len(tokens)
    BY <2>1 DEF total_sequence, sequence
  <2>4. ~RotaryRejects
    BY <2>1, <2>3, StackAssumption DEF RotaryRejects, FitsAfterHistory
  <2>5. ~AttentionRejects(sequence, Cache.key, Cache.value, total_sequence - 1, total_sequence)
    BY <2>1, <2>2, <2>3, PastSequenceOfCache DEF AttentionRejects
  <2>. QED
    BY <1>1, <2>4, <2>5 DEF LayerRejects
<1>. QED
  BY <1>1, <1>3, <1>4, SameOperators DEF History!Reject, History!Returns, LeaveForward

(* A call that has passed layer 0 is servable. *)
LEMMA PastLayerZero ==
  ASSUME IInv, pc = "layers", layer_index > 0
  PROVE  History!Servable
  BY DEF History!Servable, IInv, InForward, FitsAfterHistory, Health

(* A failure that leaves layer 0 extended stalls the history.              *)
LEMMA StalledRefines ==
  ASSUME IInv, pc = "layers", LeaveForward(BadAlloc), UNCHANGED <<past_length, history>>,
         History!Servable, caches'[0] = CacheOf(0, history \o tokens)
  PROVE  History!OutOfMemory
<1>1. tokens # <<>> /\ tokens \in Seq(Tokens) /\ history \in Seq(Tokens)
      /\ past_length' = Len(history) /\ pc' = "idle"
  BY SequencesTyped DEF History!Servable, IInv, LeaveForward
<1>2. Health' = "stalled"
  BY <1>1, HealthAfter
<1>. QED
  BY <1>1, <1>2, SameOperators DEF History!OutOfMemory, History!Returns, LeaveForward

(* bad_alloc in the layer loop is one of the failures of the history.      *)
LEMMA LayerOutOfMemoryRefines ==
  ASSUME IInv, LayerOutOfMemory PROVE History!OutOfMemory
<1>1. /\ pc = "layers" /\ layer_index < Layers /\ LeaveForward(BadAlloc)
      /\ UNCHANGED <<past_length, history>>
  BY DEF LayerOutOfMemory
<1>2. CASE UNCHANGED caches /\ layer_index > 0
  <2>1. caches'[0] = CacheOf(0, history \o tokens)
    BY <1>1, <1>2, StackAssumption DEF IInv, CachesConsistent, CachesAt
  <2>. QED
    BY <1>1, <1>2, <2>1, PastLayerZero, StalledRefines
<1>3. CASE UNCHANGED caches /\ ~(layer_index > 0)
  <2>1. Health' = Health
    BY <1>1, <1>3 DEF Health, LeaveForward
  <2>. QED
    BY <1>1, <2>1, SameOperators DEF History!OutOfMemory, History!Returns, LeaveForward
<1>4. CASE ~LayerRejects /\ StoreCache
  <2>1. History!Servable
    BY <1>1, <1>4, HealthInLoop, LayerAccepts DEF History!Servable, FitsAfterHistory
  <2>2. 0 < layer_index + 1 /\ 0 \in 0 .. Layers - 1
    BY <1>1, <1>4, ForwardNames, StackAssumption
  <2>3. caches'[0] = CacheOf(0, history \o tokens)
    BY <1>1, <1>4, <2>2, StoreExtends
  <2>. QED
    BY <1>1, <2>1, <2>3, StalledRefines
<1>. QED
  BY <1>2, <1>3, <1>4 DEF LayerOutOfMemory

(* A model that has run all layers is sound before and after the commit.   *)
LEMMA CommitHealth ==
  ASSUME IInv, pc = "layers", layer_index = Layers, CommitContext, UNCHANGED caches, pc' = "idle"
  PROVE  Health = "sound" /\ Health' = "sound" /\ History!Servable
<1>1. Health = "sound" /\ History!Servable
  BY PastLayerZero, StackAssumption DEF Health
<1>2. /\ history \o tokens \in Seq(Tokens) /\ past_length' = Len(history \o tokens)
      /\ caches'[0] = CacheOf(0, history \o tokens)
  BY AllLayersDone, StackAssumption DEF CommitContext
<1>. QED
  BY <1>1, <1>2, HealthAfter, EmptySeq

(* The logits returned are the answer of the token history.                *)
LEMMA FinishRefines ==
  ASSUME IInv, Finish PROVE History!Answer
<1>1. /\ pc = "layers" /\ layer_index = Layers /\ CommitContext /\ UNCHANGED caches
      /\ LeaveForward(Answered(FinalRows)) /\ pc' = "idle"
  BY DEF Finish, LeaveForward
<1>2. response' = History!Answered(History!LastLogits(history', Len(tokens)))
  BY <1>1, AllLayersDone, SameOperators DEF LeaveForward, CommitContext
<1>. QED
  BY <1>1, <1>2, CommitHealth
     DEF History!Answer, History!Returns, LeaveForward, CommitContext

(* bad_alloc in the final norm stalls the history.                         *)
LEMMA FinalNormRefines ==
  ASSUME IInv, FinalNormOutOfMemory PROVE History!OutOfMemory
  BY AllLayersDone, PastLayerZero, StalledRefines, StackAssumption DEF FinalNormOutOfMemory

(* bad_alloc in the logits product leaves the tokens in the history.       *)
LEMMA LogitsOutOfMemoryRefines ==
  ASSUME IInv, LogitsOutOfMemory PROVE History!OutOfMemory
<1>1. /\ pc = "layers" /\ layer_index = Layers /\ CommitContext /\ UNCHANGED caches
      /\ LeaveForward(BadAlloc) /\ pc' = "idle"
  BY DEF LogitsOutOfMemory, LeaveForward
<1>. QED
  BY <1>1, CommitHealth, SameOperators
     DEF History!OutOfMemory, History!Returns, LeaveForward, CommitContext

(* The abstract state depends on the variables only.                       *)
LEMMA StutterRefines ==
  ASSUME UNCHANGED vars PROVE UNCHANGED History!vars
  BY DEF vars, locals, History!vars, Health

(* Every step of the model is a step of the token history or a stutter.    *)
LEMMA StepRefines ==
  ASSUME IInv, [Next]_vars PROVE [History!Next]_History!vars
<1>1. CASE Call
  BY <1>1, CallRefines
<1>2. CASE Layer
  BY <1>2, LayerRefines
<1>3. CASE RejectLayer
  BY <1>3, RejectRefines DEF History!Next
<1>4. CASE Finish
  BY <1>4, FinishRefines DEF History!Next
<1>5. CASE LayerOutOfMemory
  BY <1>5, LayerOutOfMemoryRefines DEF History!Next
<1>6. CASE FinalNormOutOfMemory
  BY <1>6, FinalNormRefines DEF History!Next
<1>7. CASE LogitsOutOfMemory
  BY <1>7, LogitsOutOfMemoryRefines DEF History!Next
<1>8. CASE UNCHANGED vars
  BY <1>8, StutterRefines
<1>. QED
  BY <1>1, <1>2, <1>3, <1>4, <1>5, <1>6, <1>7, <1>8 DEF Next, Progress, OutOfMemory

(* Qwen3Model implements TokenHistory.                                     *)
THEOREM Implements == Spec => ImplementsTokenHistory
<1>1. Init => History!Init
  BY InitRefines
<1>2. IInv /\ [Next]_vars => [History!Next]_History!vars
  BY StepRefines
<1>. QED
  BY <1>1, <1>2, Invariance, PTL DEF Spec, ImplementsTokenHistory, History!Spec

----------------------------------------------------------------------------
(* The length of the history.                                              *)

LEMMA StatusIs ==
  /\ History!NoResponse.status = "none"
  /\ \A rows : History!Answered(rows).status = "logits"
  /\ History!InvalidArgument.status = "invalid_argument"
  /\ History!BadAlloc.status = "bad_alloc"
  BY DEF History!NoResponse, History!Answered, History!InvalidArgument, History!BadAlloc

LEMMA LengthsOf ==
  /\ Len(<<>>) = 0
  /\ \A token : Len(<<token>>) = 1
  /\ \A prompt \in History!Prompts : Len(prompt) \in 0 .. MaxPrompt
  /\ \A s, t \in Seq(Tokens) : Len(s \o t) = Len(s) + Len(t) /\ (Len(t) = 0 <=> t = <<>>)
<1>1. \A prompt \in History!Prompts : Len(prompt) \in 0 .. MaxPrompt
  <2>1. ASSUME NEW n \in 0 .. MaxPrompt, NEW prompt \in [1 .. n -> Tokens]
        PROVE  Len(prompt) \in 0 .. MaxPrompt
    BY PromptAssumption
  <2>. QED
    BY <2>1 DEF History!Prompts
<1>. QED
  BY <1>1

LEMMA ServableLengths ==
  ASSUME history \in Seq(Tokens), tokens \in Seq(Tokens)
  PROVE  History!Servable <=> Lengths!Servable
  BY LengthsOf DEF History!Servable, Lengths!Servable

LEMMA ExtendLengths ==
  ASSUME history \in Seq(Tokens), tokens \in Seq(Tokens), History!Servable,
         history' = history \o tokens, UNCHANGED Health
  PROVE  Lengths!Extend
  BY ServableLengths, LengthsOf DEF Lengths!Extend

LEMMA LengthsStep ==
  ASSUME history \in Seq(Tokens), tokens \in Seq(Tokens), [History!Next]_History!vars
  PROVE  [Lengths!Next]_Lengths!vars
<1>1. CASE History!Reset
  <2>1. Lengths!Reset
    BY <1>1, StatusIs, LengthsOf DEF History!Reset, Lengths!Reset, Lengths!Empty
  <2>. QED
    BY <2>1 DEF Lengths!Next
<1>2. ASSUME NEW prompt \in History!Prompts, History!Prefill(prompt) PROVE Lengths!Next
  <2>1. Lengths!Prefill(Len(prompt))
    BY <1>2, StatusIs, LengthsOf
    DEF History!Prefill, Lengths!Prefill, Lengths!Enter, Lengths!Empty
  <2>. QED
    BY <2>1, LengthsOf DEF Lengths!Next
<1>3. ASSUME NEW token \in Tokens, History!Decode(token) PROVE Lengths!Next
  <2>1. Lengths!Decode
    BY <1>3, StatusIs, LengthsOf DEF History!Decode, Lengths!Decode, Lengths!Enter
  <2>. QED
    BY <2>1 DEF Lengths!Next
<1>4. CASE History!Answer
  <2>1. Lengths!Returns("logits")
    BY <1>4, StatusIs, LengthsOf DEF History!Answer, History!Returns, Lengths!Returns
  <2>2. Lengths!Extend
    BY <1>4, ExtendLengths DEF History!Answer
  <2>. QED
    BY <2>1, <2>2 DEF Lengths!Next, Lengths!Answer
<1>5. CASE History!Reject
  <2>1. Lengths!Returns("invalid_argument")
    BY <1>5, StatusIs, LengthsOf DEF History!Reject, History!Returns, Lengths!Returns
  <2>. QED
    BY <1>5, <2>1, ServableLengths DEF History!Reject, Lengths!Next, Lengths!Reject
<1>6. CASE History!OutOfMemory
  <2>1. Lengths!Returns("bad_alloc")
    BY <1>6, StatusIs, LengthsOf DEF History!OutOfMemory, History!Returns, Lengths!Returns
  <2>2. \/ UNCHANGED <<history, Health>>
        \/ History!Servable /\ Health' = "stalled" /\ UNCHANGED history
        \/ History!Servable /\ history' = history \o tokens /\ UNCHANGED Health
    BY <1>6 DEF History!OutOfMemory
  <2>3. Lengths!OutOfMemory
    BY <2>1, <2>2, ServableLengths, ExtendLengths DEF Lengths!OutOfMemory
  <2>. QED
    BY <2>3 DEF Lengths!Next
<1>7. CASE UNCHANGED History!vars
  BY <1>7 DEF History!vars, Lengths!vars
<1>. QED
  BY <1>1, <1>2, <1>3, <1>4, <1>5, <1>6, <1>7 DEF History!Next

(* Qwen3Model, whose layers compute with tokens, and ForwardShapes, whose  *)
(* statements do not, serve and reject the same calls: both implement      *)
(* ContextLength.                                                          *)
THEOREM ImplementsLengths == Spec => ImplementsContextLength
<1>1. Init => Lengths!Init
  <2>1. History!Init => Lengths!Init
    BY StatusIs, LengthsOf DEF History!Init, Lengths!Init
  <2>. QED
    BY <2>1, InitRefines
<1>2. IInv /\ [Next]_vars => [Lengths!Next]_Lengths!vars
  BY StepRefines, LengthsStep, SequencesTyped DEF IInv
<1>. QED
  BY <1>1, <1>2, Invariance, PTL DEF Spec, ImplementsContextLength, Lengths!Spec
=============================================================================
