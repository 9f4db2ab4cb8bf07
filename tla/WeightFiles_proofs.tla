-------------------------- MODULE WeightFiles_proofs --------------------------
(***************************************************************************)
(* Proofs about WeightFiles, for all dimensions, any number of layers and  *)
(* any number of exports: every column a load reads is in its place, and   *)
(* no load succeeds before some export has finished.                       *)
(***************************************************************************)
EXTENDS WeightFiles, DataInduction

Names == {"embedding", "cos_cache", "sin_cache", "final_norm",
          "input_norm", "q_proj", "k_proj", "v_proj", "q_norm", "k_norm", "o_proj",
          "post_norm", "gate_proj", "up_proj", "down_proj"}

Tensors == [name : Names, rows : Nat, cols : Nat]

Strips == [tensor : Names, column : Nat, floats : Nat]

----------------------------------------------------------------------------
(* Files are sequences of columns. *)

LEMMA Dimensions ==
  /\ NUM_LAYERS \in Nat
  /\ HIDDEN \in Nat /\ QUERY_HEADS \in Nat /\ KV_HEADS \in Nat /\ HEAD_DIM \in Nat
  /\ INTERMEDIATE \in Nat /\ VOCAB \in Nat /\ MAX_POS \in Nat
  /\ HIDDEN > 0
  /\ QUERY_DIM \in Nat /\ KV_DIM \in Nat /\ ROPE_DIM \in Nat
<1>1. {HIDDEN, QUERY_HEADS, KV_HEADS, HEAD_DIM, INTERMEDIATE, VOCAB, MAX_POS} \subseteq Nat \ {0}
  BY DimensionAssumption
<1>2. /\ HIDDEN \in Nat \ {0} /\ QUERY_HEADS \in Nat /\ KV_HEADS \in Nat /\ HEAD_DIM \in Nat
      /\ INTERMEDIATE \in Nat /\ VOCAB \in Nat /\ MAX_POS \in Nat
  BY <1>1
<1>. QED
  BY <1>2, DimensionAssumption DEF QUERY_DIM, KV_DIM, ROPE_DIM

LEMMA ColumnsAreStrips ==
  ASSUME NEW tensor \in Tensors
  PROVE  Columns(tensor) \in Seq(Strips) /\ Len(Columns(tensor)) = tensor.cols
<1> DEFINE n == tensor.cols
           column(i) == [tensor |-> tensor.name, column |-> i, floats |-> tensor.rows]
<1>1. n \in Nat /\ \A i \in 1 .. n : column(i) \in Strips
  BY DEF Tensors, Strips
<1>2. Columns(tensor) = [i \in 1 .. n |-> column(i)]
  BY DEF Columns
<1>. HIDE DEF n, column
<1>3. Columns(tensor) \in [1 .. n -> Strips]
  BY <1>1, <1>2
<1>. QED
  BY <1>1, <1>3, SeqDef, LenProperties DEF n

LEMMA StripFloats ==
  ASSUME NEW strips \in Seq(Strips)
  PROVE  Len(strips) \in Nat /\ \A i \in 1 .. Len(strips) : strips[i].floats \in Nat
<1>1. \A i \in 1 .. Len(strips) : strips[i] \in Strips
  BY ElementOfSeq
<1>2. \A strip \in Strips : strip.floats \in Nat
  BY DEF Strips
<1>. QED
  BY <1>1, <1>2, LenProperties

(* Floats adds up the strips.                                              *)
LEMMA FloatsSteps ==
  ASSUME NEW strips \in Seq(Strips)
  PROVE  \E f : /\ f[0] = 0
                /\ \A i \in 1 .. Len(strips) : f[i] = f[i - 1] + strips[i].floats
                /\ \A i \in 0 .. Len(strips) : f[i] \in Nat
                /\ Floats(strips) = f[Len(strips)]
<1> DEFINE Steps(f, n) == f = [i \in 0 .. n |-> IF i = 0 THEN 0 ELSE f[i - 1] + strips[i].floats]
           Possible == {n \in Nat : \E f : Steps(f, n)}
<1>1. 0 \in Possible
  <2>1. Steps([i \in 0 .. 0 |-> 0], 0)
    OBVIOUS
  <2>. HIDE DEF Steps
  <2>. QED
    BY <2>1
<1>2. ASSUME NEW n \in Nat, n \in Possible PROVE n + 1 \in Possible
  <2>1. PICK f : Steps(f, n)
    BY <1>2
  <2> DEFINE g == [i \in 0 .. n + 1 |-> IF i = n + 1 THEN f[n] + strips[n + 1].floats ELSE f[i]]
  <2>2. ASSUME NEW i \in 0 .. n + 1
        PROVE  g[i] = IF i = 0 THEN 0 ELSE g[i - 1] + strips[i].floats
    <3>1. CASE i = n + 1
      BY <3>1
    <3>2. CASE i # n + 1
      <4>1. i \in 0 .. n /\ (i # 0 => i - 1 \in 0 .. n /\ i - 1 \in 0 .. n + 1 /\ i - 1 # n + 1)
        BY <3>2
      <4>2. f[i] = IF i = 0 THEN 0 ELSE f[i - 1] + strips[i].floats
        BY <2>1, <4>1
      <4>. QED
        BY <3>2, <4>1, <4>2
    <3>. QED
      BY <3>1, <3>2
  <2>3. Steps(g, n + 1)
    BY <2>2
  <2>. HIDE DEF g, Steps
  <2>. QED
    BY <2>3
<1>3. Len(strips) \in Nat /\ \A i \in 1 .. Len(strips) : strips[i].floats \in Nat
  BY StripFloats
<1>4. Len(strips) \in Possible
  <2>. HIDE DEF Possible
  <2>. QED
    BY <1>1, <1>2, <1>3, SetInduction
<1> DEFINE F == CHOOSE f : Steps(f, Len(strips))
<1>5. Steps(F, Len(strips))
  BY <1>4
<1>6. Floats(strips) = F[Len(strips)]
  BY <1>3 DEF Floats
<1>. HIDE DEF F
<1>7. \A i \in 0 .. Len(strips) : F[i] = IF i = 0 THEN 0 ELSE F[i - 1] + strips[i].floats
  BY <1>5
<1>. HIDE DEF Steps, Possible
<1>8. F[0] = 0
  BY <1>3, <1>7
<1>9. ASSUME NEW i \in 1 .. Len(strips) PROVE F[i] = F[i - 1] + strips[i].floats
  BY <1>3, <1>7
<1>10. \A i \in 0 .. Len(strips) : F[i] \in Nat
  <2> DEFINE Good == {n \in Nat : n \in 0 .. Len(strips) => F[n] \in Nat}
  <2>1. 0 \in Good
    BY <1>8
  <2>2. ASSUME NEW n \in Nat, n \in Good PROVE n + 1 \in Good
    <3>1. CASE n + 1 \in 1 .. Len(strips)
      <4>1. F[n + 1] = F[(n + 1) - 1] + strips[n + 1].floats
        BY <1>9, <3>1
      <4>2. (n + 1) - 1 = n /\ F[n] \in Nat /\ strips[n + 1].floats \in Nat
        BY <1>3, <2>2, <3>1
      <4>. QED
        BY <4>1, <4>2
    <3>2. CASE n + 1 \notin 1 .. Len(strips)
      BY <3>2
    <3>. QED
      BY <3>1, <3>2
  <2>3. Nat \subseteq Good
    <3>. HIDE DEF Good
    <3>. QED
      BY <2>1, <2>2, SetInduction
  <2>. QED
    BY <1>3, <2>3
<1>. QED
  BY <1>6, <1>8, <1>9, <1>10

LEMMA FloatsNatural ==
  ASSUME NEW strips \in Seq(Strips) PROVE Floats(strips) \in Nat
<1>1. Len(strips) \in 0 .. Len(strips)
  BY LenProperties
<1>. QED
  BY <1>1, FloatsSteps

LEMMA FloatsAppend ==
  ASSUME NEW s \in Seq(Strips), NEW t \in Seq(Strips)
  PROVE  Floats(s \o t) = Floats(s) + Floats(t)
<1> DEFINE st == s \o t
<1>1. /\ st \in Seq(Strips) /\ Len(st) = Len(s) + Len(t) /\ Len(s) \in Nat /\ Len(t) \in Nat
      /\ \A i \in 1 .. Len(s) : st[i] = s[i]
      /\ \A i \in 1 .. Len(t) : st[Len(s) + i] = t[i]
  BY ConcatProperties, LenProperties
<1>. HIDE DEF st
<1>2. PICK f : /\ f[0] = 0
               /\ \A i \in 1 .. Len(s) : f[i] = f[i - 1] + s[i].floats
               /\ \A i \in 0 .. Len(s) : f[i] \in Nat
               /\ Floats(s) = f[Len(s)]
  BY FloatsSteps
<1>3. PICK g : /\ g[0] = 0
               /\ \A i \in 1 .. Len(t) : g[i] = g[i - 1] + t[i].floats
               /\ \A i \in 0 .. Len(t) : g[i] \in Nat
               /\ Floats(t) = g[Len(t)]
  BY FloatsSteps
<1>4. PICK h : /\ h[0] = 0
               /\ \A i \in 1 .. Len(st) : h[i] = h[i - 1] + st[i].floats
               /\ Floats(st) = h[Len(st)]
  BY <1>1, FloatsSteps
<1>5. \A n \in Nat : n <= Len(s) => h[n] = f[n]
  <2> DEFINE Same == {n \in Nat : n <= Len(s) => h[n] = f[n]}
  <2>1. 0 \in Same
    BY <1>2, <1>4
  <2>2. ASSUME NEW n \in Nat, n \in Same PROVE n + 1 \in Same
    <3>1. CASE n + 1 <= Len(s)
      <4>1. n + 1 \in 1 .. Len(s) /\ n + 1 \in 1 .. Len(st) /\ (n + 1) - 1 = n /\ n <= Len(s)
        BY <1>1, <3>1
      <4>2. h[n + 1] = h[n] + st[n + 1].floats /\ f[n + 1] = f[n] + s[n + 1].floats
        BY <1>2, <1>4, <4>1
      <4>. QED
        BY <1>1, <2>2, <4>1, <4>2
    <3>2. CASE ~(n + 1 <= Len(s))
      BY <3>2
    <3>. QED
      BY <3>1, <3>2
  <2>3. Nat \subseteq Same
    <3>. HIDE DEF Same
    <3>. QED
      BY <2>1, <2>2, SetInduction
  <2>. QED
    BY <2>3
<1>6. \A n \in Nat : n <= Len(t) => h[Len(s) + n] = f[Len(s)] + g[n]
  <2> DEFINE Same == {n \in Nat : n <= Len(t) => h[Len(s) + n] = f[Len(s)] + g[n]}
  <2>1. 0 \in Same
    BY <1>1, <1>2, <1>3, <1>5
  <2>2. ASSUME NEW n \in Nat, n \in Same PROVE n + 1 \in Same
    <3>1. CASE n + 1 <= Len(t)
      <4> DEFINE m == Len(s) + (n + 1)
      <4>1. /\ n + 1 \in 1 .. Len(t) /\ m \in 1 .. Len(st) /\ (n + 1) - 1 = n
            /\ m - 1 = Len(s) + n /\ n <= Len(t) /\ n \in 0 .. Len(t) /\ Len(s) \in 0 .. Len(s)
        BY <1>1, <3>1
      <4>2. st[m] = t[n + 1] /\ t[n + 1].floats \in Nat
        <5>1. st[Len(s) + (n + 1)] = t[n + 1]
          BY <1>1, <4>1
        <5>. QED
          BY <4>1, <5>1, StripFloats
      <4>3. h[m] = h[m - 1] + st[m].floats
        <5>. HIDE DEF m
        <5>. QED
          BY <1>4, <4>1
      <4>4. g[n + 1] = g[n] + t[n + 1].floats
        BY <1>3, <4>1
      <4>5. h[Len(s) + n] = f[Len(s)] + g[n]
        BY <2>2, <4>1
      <4>6. f[Len(s)] \in Nat /\ g[n] \in Nat
        BY <1>2, <1>3, <4>1
      <4>7. h[m] = (f[Len(s)] + g[n]) + t[n + 1].floats
        BY <4>1, <4>2, <4>3, <4>5
      <4>8. h[m] = f[Len(s)] + g[n + 1]
        <5>. HIDE DEF m
        <5>. QED
          BY <4>2, <4>4, <4>6, <4>7
      <4>. QED
        BY <4>8
    <3>2. CASE ~(n + 1 <= Len(t))
      BY <3>2
    <3>. QED
      BY <3>1, <3>2
  <2>3. Nat \subseteq Same
    <3>. HIDE DEF Same
    <3>. QED
      BY <2>1, <2>2, SetInduction
  <2>. QED
    BY <2>3
<1>7. h[Len(s) + Len(t)] = f[Len(s)] + g[Len(t)]
  BY <1>1, <1>6
<1>. QED
  BY <1>1, <1>2, <1>3, <1>4, <1>7 DEF st

LEMMA TimesSuccessor == \A m, n \in Nat : (n + 1) * m = n * m + m /\ n * m \in Nat /\ 0 * m = 0
OBVIOUS

LEMMA FloatsColumns ==
  ASSUME NEW tensor \in Tensors
  PROVE  Floats(Columns(tensor)) = tensor.cols * tensor.rows
<1> DEFINE strips == Columns(tensor)
           rows   == tensor.rows
           cols   == tensor.cols
<1>1. rows \in Nat /\ cols \in Nat
  BY DEF Tensors
<1>2. strips \in Seq(Strips) /\ Len(strips) = cols
  BY ColumnsAreStrips
<1>3. \A i \in 1 .. cols : strips[i].floats = rows
  BY <1>1 DEF Columns
<1>. HIDE DEF strips, rows, cols
<1>4. PICK f : /\ f[0] = 0
               /\ \A i \in 1 .. Len(strips) : f[i] = f[i - 1] + strips[i].floats
               /\ Floats(strips) = f[Len(strips)]
  BY <1>2, FloatsSteps
<1> DEFINE Product == {n \in Nat : n <= cols => f[n] = n * rows}
<1>5. 0 \in Product
  BY <1>1, <1>4, TimesSuccessor
<1>6. ASSUME NEW n \in Nat, n \in Product PROVE n + 1 \in Product
  <2>1. CASE n + 1 <= cols
    <3>1. n + 1 \in 1 .. cols /\ (n + 1) - 1 = n /\ n <= cols
      BY <1>1, <2>1
    <3>2. f[n + 1] = f[n] + rows
      BY <1>2, <1>3, <1>4, <3>1
    <3>3. f[n + 1] = n * rows + rows
      BY <1>6, <3>1, <3>2
    <3>4. f[n + 1] = (n + 1) * rows
      BY <1>1, <3>3, TimesSuccessor
    <3>. QED
      BY <3>4
  <2>2. CASE ~(n + 1 <= cols)
    BY <2>2
  <2>. QED
    BY <2>1, <2>2
<1>7. cols \in Product
  <2>. HIDE DEF Product
  <2>. QED
    BY <1>1, <1>5, <1>6, SetInduction
<1>8. f[cols] = cols * rows
  BY <1>1, <1>7
<1>. QED
  BY <1>2, <1>4, <1>8 DEF strips, rows, cols

(* A file holds the floats of its tensors.                                 *)
LEMMA ColumnMajorFloats ==
  ASSUME NEW tensors \in Seq(Tensors), Len(tensors) > 0
  PROVE  /\ ColumnMajor(tensors) \in Seq(Strips)
         /\ \E sum : /\ sum[1] = tensors[1].cols * tensors[1].rows
                     /\ \A i \in 2 .. Len(tensors) :
                          sum[i] = sum[i - 1] + tensors[i].cols * tensors[i].rows
                     /\ Floats(ColumnMajor(tensors)) = sum[Len(tensors)]
         /\ Len(ColumnMajor(tensors)) >= tensors[1].cols
<1> DEFINE n    == Len(tensors)
           seqs == [i \in DOMAIN tensors |-> Columns(tensors[i])]
<1>1. n \in Nat /\ n > 0 /\ DOMAIN tensors = 1 .. n /\ \A i \in 1 .. n : tensors[i] \in Tensors
  BY LenProperties, ElementOfSeq
<1>2. \A i \in 1 .. n : Columns(tensors[i]) \in Seq(Strips)
  BY <1>1, ColumnsAreStrips
<1>3. seqs \in [1 .. n -> Seq(Strips)] /\ \A i \in 1 .. n : seqs[i] = Columns(tensors[i])
  BY <1>1, <1>2
<1>. HIDE DEF n, seqs
<1>4. seqs \in Seq(Seq(Strips)) /\ Len(seqs) = n
  BY <1>1, <1>3, SeqDef, LenProperties
<1>5. ColumnMajor(tensors) = FlattenSeq(seqs)
  BY DEF ColumnMajor, seqs
<1>6. PICK f : /\ f[1] = seqs[1]
               /\ \A i \in 2 .. Len(seqs) : f[i] = f[i - 1] \o seqs[i]
               /\ FlattenSeq(seqs) = f[Len(seqs)]
  BY <1>1, <1>4, FlattenSteps
<1> DEFINE first   == tensors[1].cols
           Long(s) == s \in Seq(Strips) /\ Len(s) >= first
           Flat    == {i \in Nat : i \in 1 .. n => Long(f[i])}
<1>7. \A i \in 1 .. n : i \in Flat
  <2>1. 0 \in Flat
    OBVIOUS
  <2>2. ASSUME NEW i \in Nat, i \in Flat PROVE i + 1 \in Flat
    <3>1. CASE i = 0
      <4>1. f[i + 1] = Columns(tensors[1]) /\ 1 \in 1 .. n
        BY <1>1, <1>3, <1>6, <3>1
      <4>2. first \in Nat
        BY <1>1, <4>1 DEF Tensors
      <4>. QED
        BY <1>1, <4>1, <4>2, ColumnsAreStrips
    <3>2. CASE i \in 1 .. n - 1
      <4>1. i \in 1 .. n /\ i + 1 \in 2 .. Len(seqs) /\ i + 1 \in 1 .. n /\ (i + 1) - 1 = i
        BY <1>1, <1>4, <3>2
      <4>2. f[i + 1] = f[i] \o seqs[i + 1] /\ f[i] \in Seq(Strips) /\ seqs[i + 1] \in Seq(Strips)
        BY <1>3, <1>6, <2>2, <4>1
      <4>3. f[i + 1] \in Seq(Strips) /\ Len(f[i + 1]) = Len(f[i]) + Len(seqs[i + 1])
        BY <4>2, ConcatProperties
      <4>4. Len(f[i]) \in Nat /\ Len(seqs[i + 1]) \in Nat /\ Len(f[i]) >= first
        BY <2>2, <4>1, <4>2, LenProperties
      <4>5. 1 \in 1 .. n /\ first \in Nat
        BY <1>1 DEF Tensors
      <4> DEFINE next == f[i + 1]
                 a == Len(f[i])
                 b == Len(seqs[i + 1])
      <4>6. Len(next) = a + b /\ a \in Nat /\ b \in Nat /\ a >= first
        BY <4>3, <4>4
      <4>7. Len(next) >= first
        <5>. HIDE DEF first, next, a, b
        <5>. QED
          BY <4>5, <4>6
      <4>8. Long(f[i + 1])
        BY <4>3, <4>7
      <4>. HIDE DEF Long
      <4>. QED
        BY <2>2, <4>8
    <3>3. CASE i >= n
      BY <1>1, <3>3
    <3>. QED
      BY <1>1, <3>1, <3>2, <3>3
  <2>3. Nat \subseteq Flat
    <3>. HIDE DEF Flat
    <3>. QED
      BY <2>1, <2>2, SetInduction
  <2>. QED
    BY <1>1, <2>3
<1>8. \A i \in 1 .. n : f[i] \in Seq(Strips) /\ Len(f[i]) >= first
  BY <1>7
<1>. HIDE DEF Flat
<1> DEFINE sum == [i \in 1 .. n |-> Floats(f[i])]
<1>9. sum[1] = tensors[1].cols * tensors[1].rows
  <2>1. 1 \in 1 .. n /\ f[1] = Columns(tensors[1])
    BY <1>1, <1>3, <1>6
  <2>. QED
    BY <1>1, <2>1, FloatsColumns
<1>10. ASSUME NEW i \in 2 .. n
       PROVE  sum[i] = sum[i - 1] + tensors[i].cols * tensors[i].rows
  <2>1. i \in 1 .. n /\ i - 1 \in 1 .. n
    BY <1>1
  <2>2. f[i] = f[i - 1] \o seqs[i] /\ f[i - 1] \in Seq(Strips)
        /\ seqs[i] = Columns(tensors[i]) /\ seqs[i] \in Seq(Strips)
    BY <1>2, <1>3, <1>4, <1>6, <1>8, <2>1
  <2>3. Floats(f[i]) = Floats(f[i - 1]) + Floats(seqs[i])
    BY <2>2, FloatsAppend
  <2>4. Floats(seqs[i]) = tensors[i].cols * tensors[i].rows
    BY <1>1, <2>1, <2>2, FloatsColumns
  <2>. QED
    BY <2>1, <2>3, <2>4
<1>11. n \in 1 .. n /\ sum[n] = Floats(f[n])
  BY <1>1
<1>. HIDE DEF sum
<1>12. ColumnMajor(tensors) = f[n]
  BY <1>4, <1>5, <1>6
<1>13. Floats(ColumnMajor(tensors)) = sum[n]
  BY <1>11, <1>12
<1>14. ColumnMajor(tensors) \in Seq(Strips) /\ Len(ColumnMajor(tensors)) >= first
  BY <1>8, <1>11, <1>12
<1>. QED
  BY <1>9, <1>10, <1>13, <1>14 DEF n

----------------------------------------------------------------------------
(* The files of the program. *)

LEMMA TensorRecords ==
  ASSUME NEW name \in Names, NEW rows \in Nat, NEW cols \in Nat
  PROVE  Tensor(name, rows, cols) \in Tensors
BY DEF Tensor, Tensors

LEMMA SameFiles == \A f \in Files : Written(f) = Reads(f)
<1>1. LAYER_TENSORS = LayerReads
  BY DEF LAYER_TENSORS, LayerReads
<1>2. TopTensors = TopReads
  BY DEF TopTensors, TopReads, ROPE_DIM
<1>. QED
  BY <1>1, <1>2 DEF Written, Reads

LEMMA LayerTensors ==
  /\ LayerReads \in Seq(Tensors)
  /\ Len(LayerReads) = 11
  /\ LayerReads[1].cols = 1
<1>. USE DEF Vector
<1> DEFINE t1 == Vector("input_norm", HIDDEN)
           t2 == Tensor("q_proj", HIDDEN, QUERY_DIM)
           t3 == Tensor("k_proj", HIDDEN, KV_DIM)
           t4 == Tensor("v_proj", HIDDEN, KV_DIM)
           t5 == Vector("q_norm", HEAD_DIM)
           t6 == Vector("k_norm", HEAD_DIM)
           t7 == Tensor("o_proj", QUERY_DIM, HIDDEN)
           t8 == Vector("post_norm", HIDDEN)
           t9 == Tensor("gate_proj", HIDDEN, INTERMEDIATE)
           t10 == Tensor("up_proj", HIDDEN, INTERMEDIATE)
           t11 == Tensor("down_proj", INTERMEDIATE, HIDDEN)
<1>1. /\ t1 \in Tensors /\ t2 \in Tensors /\ t3 \in Tensors /\ t4 \in Tensors
      /\ t5 \in Tensors /\ t6 \in Tensors /\ t7 \in Tensors /\ t8 \in Tensors
      /\ t9 \in Tensors /\ t10 \in Tensors /\ t11 \in Tensors
  BY Dimensions, TensorRecords DEF Names
<1>2. t1.cols = 1
  BY Dimensions DEF Tensor, Tensors
<1>3. LayerReads = <<t1, t2, t3, t4, t5, t6, t7, t8, t9, t10, t11>>
  BY DEF LayerReads
<1>. HIDE DEF t1, t2, t3, t4, t5, t6, t7, t8, t9, t10, t11
<1>. QED
  BY <1>1, <1>2, <1>3

LEMMA TopTensor ==
  ASSUME NEW f \in Files, ~IsLayer(f)
  PROVE  f \in 1 .. 4 /\ TopReads[f] \in Tensors
<1>1. f \in 1 .. 4
  BY Dimensions DEF Files, IsLayer, TopFiles
<1>2. \A i \in 1 .. 4 : TopReads[i] \in Tensors
  BY Dimensions, TensorRecords DEF TopReads, Vector, Names
<1>. QED
  BY <1>1, <1>2

LEMMA Commutes == \A m, n \in Nat : m * n = n * m /\ m * n \in Nat /\ 1 * m = m
OBVIOUS

LEMMA ColumnMajorLength ==
  ASSUME NEW tensors \in Seq(Tensors), Len(tensors) > 0, tensors[1].cols = 1
  PROVE  Len(ColumnMajor(tensors)) > 0
<1> DEFINE n == Len(ColumnMajor(tensors))
<1>1. n >= tensors[1].cols
  BY ColumnMajorFloats
<1>2. ColumnMajor(tensors) \in Seq(Strips)
  BY ColumnMajorFloats
<1>3. n \in Nat
  BY <1>2, LenProperties
<1>. HIDE DEF n
<1>4. n > 0
  BY <1>1, <1>3
<1>. QED
  BY <1>4 DEF n

LEMMA LayerFloats ==
  /\ ColumnMajor(LayerReads) \in Seq(Strips)
  /\ Floats(ColumnMajor(LayerReads)) = layer_file_floats
  /\ Len(ColumnMajor(LayerReads)) > 0
<1> DEFINE a == HIDDEN * QUERY_DIM
           b == HIDDEN * KV_DIM
           c == QUERY_DIM * HIDDEN
           d == HIDDEN * INTERMEDIATE
           e == INTERMEDIATE * HIDDEN
<1>1. /\ a \in Nat /\ b \in Nat /\ c \in Nat /\ d \in Nat /\ e \in Nat
      /\ HIDDEN \in Nat /\ HEAD_DIM \in Nat
  BY Dimensions, Commutes
<1>0. LayerReads \in Seq(Tensors) /\ Len(LayerReads) > 0 /\ LayerReads[1].cols = 1
  BY LayerTensors
<1>2. PICK sum : /\ sum[1] = LayerReads[1].cols * LayerReads[1].rows
                 /\ \A i \in 2 .. Len(LayerReads) :
                      sum[i] = sum[i - 1] + LayerReads[i].cols * LayerReads[i].rows
                 /\ Floats(ColumnMajor(LayerReads)) = sum[Len(LayerReads)]
  BY <1>0, ColumnMajorFloats
<1>3. /\ sum[1] = LayerReads[1].cols * LayerReads[1].rows
      /\ sum[2] = sum[1] + LayerReads[2].cols * LayerReads[2].rows
      /\ sum[3] = sum[2] + LayerReads[3].cols * LayerReads[3].rows
      /\ sum[4] = sum[3] + LayerReads[4].cols * LayerReads[4].rows
      /\ sum[5] = sum[4] + LayerReads[5].cols * LayerReads[5].rows
      /\ sum[6] = sum[5] + LayerReads[6].cols * LayerReads[6].rows
      /\ sum[7] = sum[6] + LayerReads[7].cols * LayerReads[7].rows
      /\ sum[8] = sum[7] + LayerReads[8].cols * LayerReads[8].rows
      /\ sum[9] = sum[8] + LayerReads[9].cols * LayerReads[9].rows
      /\ sum[10] = sum[9] + LayerReads[10].cols * LayerReads[10].rows
      /\ sum[11] = sum[10] + LayerReads[11].cols * LayerReads[11].rows
      /\ Floats(ColumnMajor(LayerReads)) = sum[11]
  BY <1>2, LayerTensors
<1>4. /\ Len(LayerReads) = 11
      /\ LayerReads[1].cols * LayerReads[1].rows = HIDDEN
      /\ LayerReads[2].cols * LayerReads[2].rows = a
      /\ LayerReads[3].cols * LayerReads[3].rows = b
      /\ LayerReads[4].cols * LayerReads[4].rows = b
      /\ LayerReads[5].cols * LayerReads[5].rows = HEAD_DIM
      /\ LayerReads[6].cols * LayerReads[6].rows = HEAD_DIM
      /\ LayerReads[7].cols * LayerReads[7].rows = c
      /\ LayerReads[8].cols * LayerReads[8].rows = HIDDEN
      /\ LayerReads[9].cols * LayerReads[9].rows = d
      /\ LayerReads[10].cols * LayerReads[10].rows = d
      /\ LayerReads[11].cols * LayerReads[11].rows = e
  BY Dimensions, Commutes DEF LayerReads, Vector, Tensor
<1>5. /\ sum[1] = HIDDEN
      /\ sum[2] = sum[1] + a
      /\ sum[3] = sum[2] + b
      /\ sum[4] = sum[3] + b
      /\ sum[5] = sum[4] + HEAD_DIM
      /\ sum[6] = sum[5] + HEAD_DIM
      /\ sum[7] = sum[6] + c
      /\ sum[8] = sum[7] + HIDDEN
      /\ sum[9] = sum[8] + d
      /\ sum[10] = sum[9] + d
      /\ sum[11] = sum[10] + e
  BY <1>3, <1>4
<1>6. layer_file_floats = HIDDEN + a + b * 2 + HEAD_DIM * 2 + c + HIDDEN + d * 2 + e
  BY DEF layer_file_floats
<1>. HIDE DEF a, b, c, d, e
<1>7. sum[11] = HIDDEN + a + b * 2 + HEAD_DIM * 2 + c + HIDDEN + d * 2 + e
  BY <1>1, <1>5
<1>8. ColumnMajor(LayerReads) \in Seq(Strips)
  BY <1>0, ColumnMajorFloats
<1>9. Len(ColumnMajor(LayerReads)) > 0
  BY <1>0, ColumnMajorLength
<1>. QED
  BY <1>3, <1>6, <1>7, <1>8, <1>9

(* The loader's formula for the size of a file is the size the script      *)
(* gives it.                                                               *)
LEMMA FileFloats ==
  ASSUME NEW f \in Files
  PROVE  /\ Written(f) \in Seq(Strips)
         /\ Floats(Written(f)) = ExpectedFloats(f)
<1>1. CASE IsLayer(f)
  BY <1>1, LayerFloats, SameFiles DEF Reads, ExpectedFloats
<1>2. CASE ~IsLayer(f)
  <2> DEFINE tensors == <<TopReads[f]>>
  <2>1. /\ tensors \in Seq(Tensors) /\ Len(tensors) = 1
        /\ tensors[1] = TopReads[f] /\ TopReads[f] \in Tensors
    BY <1>2, TopTensor
  <2>. HIDE DEF tensors
  <2>2. PICK sum : /\ sum[1] = tensors[1].cols * tensors[1].rows
                   /\ Floats(ColumnMajor(tensors)) = sum[Len(tensors)]
    BY <2>1, ColumnMajorFloats
  <2>3. ColumnMajor(tensors) \in Seq(Strips)
    BY <2>1, ColumnMajorFloats
  <2>4. TopReads[f].rows \in Nat /\ TopReads[f].cols \in Nat
    BY <2>1 DEF Tensors
  <2>5. Floats(ColumnMajor(tensors)) = TopReads[f].rows * TopReads[f].cols
    BY <2>1, <2>2, <2>4, Commutes
  <2>6. Written(f) = ColumnMajor(tensors)
    BY <1>2, SameFiles DEF Reads, tensors
  <2>. QED
    BY <1>2, <2>3, <2>5, <2>6 DEF ExpectedFloats
<1>. QED
  BY <1>1, <1>2

LastFile == 4 + NUM_LAYERS

LEMMA LastIsNotEmpty ==
  /\ Files = 1 .. LastFile
  /\ LastFile \in Files
  /\ Len(Written(LastFile)) > 0
<1>1. Files = 1 .. LastFile /\ LastFile \in Files
  BY Dimensions DEF Files, TopFiles, LastFile
<1>2. CASE IsLayer(LastFile)
  BY <1>1, <1>2, LayerFloats, SameFiles DEF Reads
<1>3. CASE ~IsLayer(LastFile)
  <2> DEFINE tensors == <<TopReads[LastFile]>>
  <2>1. LastFile = 4
    BY <1>3, Dimensions DEF IsLayer, LastFile, TopFiles
  <2>2. TopReads[LastFile] \in Tensors
    BY <1>1, <1>3, TopTensor
  <2>3. TopReads[LastFile].cols = 1
    BY <2>1 DEF TopReads, Vector, Tensor
  <2>4. tensors \in Seq(Tensors) /\ Len(tensors) > 0 /\ tensors[1].cols = 1
    BY <2>2, <2>3
  <2>. HIDE DEF tensors
  <2>5. Len(ColumnMajor(tensors)) > 0
    BY <2>4, ColumnMajorLength
  <2>6. Written(LastFile) = ColumnMajor(tensors)
    BY <1>1, <1>3, SameFiles DEF Reads, tensors
  <2>. QED
    BY <1>1, <2>5, <2>6
<1>. QED
  BY <1>1, <1>2, <1>3

----------------------------------------------------------------------------
(* The inductive invariant.                                                *)

Complete(f) == Len(disk[f].strips) = Len(Written(f))
Whole(f)    == Len(loaded[f]) = Len(Reads(f))

FileStates   == [export : Nat, strips : Seq(Strips)]
LoadedStrips == [export : Nat, strip : Strips]

Types ==
  /\ disk \in [Files -> FileStates]
  /\ exports \in Nat
  /\ exports <= MaxExports
  /\ writing \in Files \cup {0}
  /\ opened \in BOOLEAN
  /\ finished \subseteq 1 .. exports
  /\ reading \in Files \cup {0}
  /\ stage \in {"idle", "check", "open", "read", "loaded", "failed"}
  /\ loaded \in [Files -> Seq(LoadedStrips)]
  /\ quiet \in BOOLEAN

(* A file is what the script had written of it when it stopped.            *)
OnDisk ==
  \A f \in Files :
    /\ disk[f].export <= exports
    /\ Len(disk[f].strips) <= Len(Written(f))
    /\ \A i \in 1 .. Len(disk[f].strips) : disk[f].strips[i] = Written(f)[i]

(* The running export has left complete files behind it, and the last file *)
(* is complete only when an export has finished.                           *)
Exporting ==
  /\ writing # 0 => exports > 0
  /\ opened => writing # 0 /\ disk[writing].export = exports
  /\ writing # 0 =>
       \A f \in Files : f < writing => disk[f].export = exports /\ Complete(f)
  /\ exports \in finished =>
       /\ writing = 0 \/ (writing = LastFile /\ opened)
       /\ \A f \in Files : disk[f].export = exports /\ Complete(f)
  /\ Complete(LastFile) => finished # {}

Loading ==
  /\ \A f \in Files :
       /\ Len(loaded[f]) <= Len(Reads(f))
       /\ \A i \in 1 .. Len(loaded[f]) : loaded[f][i].strip = Reads(f)[i]
  /\ Whole(LastFile) => finished # {}
  /\ stage = "idle" => \A f \in Files : loaded[f] = <<>>
  /\ stage # "idle" => reading # 0
  /\ stage \in {"check", "open", "read"} => \A f \in Files : f < reading => Whole(f)
  /\ stage = "loaded" => \A f \in Files : Whole(f)

Quiet ==
  quiet =>
    /\ stage # "idle"
    /\ writing = 0
    /\ exports \in finished
    /\ \A f \in Files : \A i \in 1 .. Len(loaded[f]) : loaded[f][i].export = exports

Inv == Types /\ OnDisk /\ Exporting /\ Loading /\ Quiet

LEMMA FileSequences ==
  ASSUME NEW f \in Files
  PROVE  Len(Written(f)) \in Nat /\ Written(f) \in Seq(Strips) /\ Reads(f) = Written(f)
BY FileFloats, SameFiles, LenProperties

LEMMA InitInv == Init => Inv
<1>1. SUFFICES ASSUME Init PROVE Inv
  OBVIOUS
<1>. USE <1>1
<1>2. /\ disk = [f \in Files |-> [export |-> 0, strips |-> <<>>]]
      /\ loaded = [f \in Files |-> <<>>]
  BY DEF Init, Absent
<1>3. Types
  <2>1. Absent \in FileStates
    BY DEF Absent, FileStates
  <2>2. disk \in [Files -> FileStates] /\ loaded \in [Files -> Seq(LoadedStrips)]
    BY <2>1 DEF Init
  <2>3. exports <= MaxExports
    BY DimensionAssumption DEF Init
  <2>. QED
    BY <2>2, <2>3 DEF Init, Types
<1>4. OnDisk
  BY <1>2, FileSequences DEF Init, OnDisk
<1>5. Exporting
  <2>1. disk[LastFile].strips = <<>>
    BY <1>2, LastIsNotEmpty
  <2>2. ~Complete(LastFile)
    BY <2>1, LastIsNotEmpty DEF Complete
  <2>. QED
    BY <2>2 DEF Init, Exporting
<1>6. Loading
  <2>1. loaded[LastFile] = <<>> /\ Len(Reads(LastFile)) > 0
    BY <1>2, LastIsNotEmpty, FileSequences
  <2>2. ~Whole(LastFile)
    BY <2>1 DEF Whole
  <2>. QED
    BY <1>2, <2>2, FileSequences DEF Init, Loading
<1>7. Quiet
  BY DEF Init, Quiet
<1>. QED
  BY <1>3, <1>4, <1>5, <1>6, <1>7 DEF Inv

(* The strips of a file, and what stays true when they do not change.      *)
LEMMA DiskTypes ==
  ASSUME Types, NEW f \in Files
  PROVE  /\ disk[f].export \in Nat /\ disk[f].strips \in Seq(Strips)
         /\ Len(disk[f].strips) \in Nat
         /\ loaded[f] \in Seq(LoadedStrips) /\ Len(loaded[f]) \in Nat
<1>1. disk[f] \in FileStates /\ loaded[f] \in Seq(LoadedStrips)
  BY DEF Types
<1>2. disk[f].export \in Nat /\ disk[f].strips \in Seq(Strips)
  BY <1>1 DEF FileStates
<1>. QED
  BY <1>1, <1>2, LenProperties

LEMMA StartExportInv ==
  ASSUME Inv, StartExport
  PROVE  Inv'
<1>. USE DEF Inv, StartExport, loader
<1>1. Types'
  <2>1. exports \in Nat /\ exports + 1 \in Nat /\ exports + 1 <= MaxExports
    BY DimensionAssumption DEF Types
  <2>2. 1 \in Files
    BY LastIsNotEmpty DEF LastFile
  <2>3. finished \subseteq 1 .. exports + 1
    BY <2>1 DEF Types
  <2>. QED
    BY <2>1, <2>2, <2>3 DEF Types
<1>2. OnDisk'
  <2>1. \A f \in Files : disk[f].export <= exports + 1
    BY DiskTypes DEF OnDisk, Types
  <2>. QED
    BY <2>1 DEF OnDisk
<1>3. Exporting'
  <2>1. exports' > 0 /\ exports' \notin finished /\ \A f \in Files : ~(f < writing')
    BY LastIsNotEmpty DEF Types, LastFile
  <2>2. ~opened' /\ finished' = finished /\ Complete(LastFile)' = Complete(LastFile)
    BY DEF Complete
  <2>. QED
    BY <2>1, <2>2 DEF Exporting
<1>4. Loading'
  BY DEF Loading, Whole
<1>5. Quiet'
  BY DEF Quiet
<1>. QED
  BY <1>1, <1>2, <1>3, <1>4, <1>5

LEMMA OpenFileInv ==
  ASSUME Inv, OpenFile
  PROVE  Inv'
<1>. USE DEF Inv, OpenFile, Truncated, loader
<1>1. writing \in Files /\ exports \in Nat
  BY DEF Types
<1>2. /\ disk' \in [Files -> FileStates]
      /\ disk'[writing].export = exports /\ disk'[writing].strips = <<>>
      /\ \A f \in Files \ {writing} : disk'[f] = disk[f]
  <2>1. [export |-> exports, strips |-> <<>>] \in FileStates
    BY <1>1 DEF FileStates
  <2>. QED
    BY <1>1, <2>1 DEF Types
<1>3. Types'
  BY <1>2 DEF Types
<1>4. OnDisk'
  <2>1. ASSUME NEW f \in Files
        PROVE  /\ disk'[f].export <= exports
               /\ Len(disk'[f].strips) <= Len(Written(f))
               /\ \A i \in 1 .. Len(disk'[f].strips) : disk'[f].strips[i] = Written(f)[i]
    <3>1. CASE f = writing
      BY <1>1, <1>2, <3>1, FileSequences
    <3>2. CASE f # writing
      BY <1>2, <3>2 DEF OnDisk
    <3>. QED
      BY <3>1, <3>2
  <2>. QED
    BY <2>1 DEF OnDisk
<1>5. Exporting'
  <2>1. exports \notin finished
    BY <1>1 DEF Exporting
  <2>2. exports > 0
    BY DEF Exporting
  <2>3. \A f \in Files : f < writing => f # writing
    BY <1>1, LastIsNotEmpty
  <2>4. \A f \in Files : f < writing => disk'[f].export = exports /\ Complete(f)'
    BY <1>2, <2>3 DEF Exporting, Complete
  <2>5. Complete(LastFile)' => finished # {}
    <3>1. CASE writing = LastFile
      BY <1>2, <3>1, LastIsNotEmpty DEF Complete
    <3>2. CASE writing # LastFile
      BY <1>2, <3>2, LastIsNotEmpty DEF Complete, Exporting
    <3>. QED
      BY <3>1, <3>2
  <2>. QED
    BY <1>2, <2>1, <2>2, <2>4, <2>5 DEF Exporting
<1>6. Loading'
  BY DEF Loading, Whole
<1>7. Quiet'
  BY DEF Quiet
<1>. QED
  BY <1>3, <1>4, <1>5, <1>6, <1>7

LEMMA WriteStripInv ==
  ASSUME Inv, WriteStrip
  PROVE  Inv'
<1>. USE DEF Inv, loader
<1> DEFINE w      == writing
           strips == disk[w].strips
           k      == Len(strips)
           next   == Written(w)[k + 1]
<1>1. /\ opened /\ w \in Files /\ disk[w].export = exports
      /\ exports \in Nat /\ exports > 0
  BY DEF WriteStrip, Types, Exporting
<1>2. /\ k < Len(Written(w))
      /\ disk' = [disk EXCEPT ![w].strips = Append(strips, next)]
      /\ finished' = IF w + 1 \notin Files /\ k + 1 = Len(Written(w))
                     THEN finished \cup {exports} ELSE finished
      /\ UNCHANGED <<exports, writing, opened, reading, stage, loaded, quiet>>
  BY DEF WriteStrip
<1>3. strips \in Seq(Strips) /\ k \in Nat /\ Len(Written(w)) \in Nat
  BY <1>1, DiskTypes, FileSequences
<1>4. next \in Strips
  <2>1. k + 1 \in 1 .. Len(Written(w)) /\ Written(w) \in Seq(Strips)
    BY <1>1, <1>2, <1>3, FileSequences
  <2>. HIDE DEF k
  <2>. QED
    BY <2>1, ElementOfSeq
<1> DEFINE longer == Append(strips, next)
<1>5. /\ longer \in Seq(Strips) /\ Len(longer) = k + 1 /\ longer[k + 1] = next
      /\ \A i \in 1 .. k : longer[i] = strips[i]
  <2>. HIDE DEF strips, next
  <2>. QED
    BY <1>3, <1>4, AppendProperties
<1>6. /\ disk' \in [Files -> FileStates]
      /\ disk'[w].export = exports /\ disk'[w].strips = longer
      /\ \A f \in Files : f # w => disk'[f] = disk[f]
  <2>1. disk \in [Files -> FileStates] /\ disk[w] \in FileStates
    BY <1>1 DEF Types
  <2>2. [disk[w] EXCEPT !.strips = longer] \in FileStates
    <3>. HIDE DEF longer
    <3>. QED
      BY <1>5, <2>1 DEF FileStates
  <2>3. disk' = [disk EXCEPT ![w] = [disk[w] EXCEPT !.strips = longer]]
    BY <1>2
  <2>4. [disk[w] EXCEPT !.strips = longer].export = disk[w].export
        /\ [disk[w] EXCEPT !.strips = longer].strips = longer
    <3>. HIDE DEF longer
    <3>. QED
      BY <2>1 DEF FileStates
  <2>. HIDE DEF longer
  <2>. QED
    BY <1>1, <2>1, <2>2, <2>3, <2>4
<1>. HIDE DEF strips, next, longer
<1>7. finished' \subseteq finished \cup {exports} /\ finished \subseteq finished'
  BY <1>2
<1>8. Types'
  BY <1>1, <1>2, <1>6, <1>7 DEF Types
<1>9. OnDisk'
  <2>1. ASSUME NEW f \in Files
        PROVE  /\ disk'[f].export <= exports
               /\ Len(disk'[f].strips) <= Len(Written(f))
               /\ \A i \in 1 .. Len(disk'[f].strips) : disk'[f].strips[i] = Written(f)[i]
    <3>1. CASE f = w
      <4>1. Len(disk'[w].strips) = k + 1 /\ k + 1 <= Len(Written(w))
        BY <1>2, <1>3, <1>5, <1>6
      <4>2. \A i \in 1 .. k : longer[i] = Written(w)[i]
        BY <1>1, <1>5 DEF OnDisk, strips
      <4>3. \A i \in 1 .. k + 1 : longer[i] = Written(w)[i]
        <5>1. longer[k + 1] = Written(w)[k + 1]
          BY <1>5 DEF next
        <5>2. \A i \in 1 .. k + 1 : i \in 1 .. k \/ i = k + 1
          BY <1>3
        <5>. HIDE DEF k
        <5>. QED
          BY <4>2, <5>1, <5>2
      <4>. HIDE DEF k
      <4>. QED
        BY <1>1, <1>6, <3>1, <4>1, <4>3
    <3>2. CASE f # w
      BY <1>6, <3>2 DEF OnDisk
    <3>. QED
      BY <3>1, <3>2
  <2>. QED
    BY <1>2, <2>1 DEF OnDisk
<1>10. exports \notin finished
  BY <1>1, <1>2 DEF Exporting, Complete, strips
<1>11. /\ Complete(w)' <=> k + 1 = Len(Written(w))
       /\ \A f \in Files : f # w => (Complete(f)' <=> Complete(f))
  BY <1>2, <1>5, <1>6 DEF Complete
<1>12. w + 1 \notin Files <=> w = LastFile
  BY <1>1, LastIsNotEmpty
<1>13. Exporting'
  <2>1. \A f \in Files : f < w => f # w
    BY <1>1, LastIsNotEmpty
  <2>2. \A f \in Files : f < w => disk'[f].export = exports /\ Complete(f)'
    BY <1>1, <1>6, <1>11, <2>1, LastIsNotEmpty DEF Exporting
  <2>3. exports \in finished' =>
          w = LastFile /\ \A f \in Files : disk'[f].export = exports /\ Complete(f)'
    <3>1. SUFFICES ASSUME exports \in finished'
                   PROVE  w = LastFile /\ \A f \in Files : disk'[f].export = exports /\ Complete(f)'
      OBVIOUS
    <3>2. w = LastFile /\ Complete(w)'
      BY <1>2, <1>10, <1>11, <1>12, <3>1
    <3>3. \A f \in Files : f = w \/ f < w
      BY <1>1, <3>2, LastIsNotEmpty DEF LastFile
    <3>4. \A f \in Files : disk'[f].export = exports /\ Complete(f)'
      <4>1. ASSUME NEW f \in Files PROVE disk'[f].export = exports /\ Complete(f)'
        <5>1. CASE f = w
          BY <1>2, <1>6, <3>2, <5>1 DEF Complete
        <5>2. CASE f < w
          BY <2>2, <5>2
        <5>. QED
          BY <3>3, <5>1, <5>2
      <4>. QED
        BY <4>1
    <3>. QED
      BY <3>2, <3>4
  <2>4. Complete(LastFile)' => finished' # {}
    <3>1. CASE w = LastFile
      BY <1>2, <1>11, <1>12, <3>1
    <3>2. CASE w # LastFile
      BY <1>7, <1>11, <3>2, LastIsNotEmpty DEF Exporting
    <3>. QED
      BY <3>1, <3>2
  <2>. QED
    BY <1>1, <1>2, <1>6, <2>2, <2>3, <2>4 DEF Exporting
<1>14. Loading'
  BY <1>2, <1>7 DEF Loading, Whole
<1>15. Quiet'
  <2>1. ~quiet
    BY <1>1 DEF Quiet, Exporting
  <2>. QED
    BY <1>2, <2>1 DEF Quiet
<1>. QED
  BY <1>8, <1>9, <1>13, <1>14, <1>15

LEMMA CloseFileInv ==
  ASSUME Inv, CloseFile
  PROVE  Inv'
<1>. USE DEF Inv, CloseFile, loader
<1>1. opened /\ writing \in Files /\ exports \in Nat /\ exports > 0 /\ disk[writing].export = exports
  BY DEF Types, Exporting
<1>2. writing + 1 \in Files <=> writing # LastFile
  BY <1>1, LastIsNotEmpty DEF LastFile
<1>3. Types' /\ OnDisk' /\ Loading'
  BY <1>1 DEF Types, OnDisk, Loading, Whole
<1>4. Exporting'
  <2>1. Complete(writing)
    BY DEF Complete
  <2>2. CASE writing # LastFile
    <3>1. \A f \in Files : f < writing + 1 => f < writing \/ f = writing
      BY <1>1, LastIsNotEmpty
    <3>2. \A f \in Files : f < writing + 1 => disk[f].export = exports /\ Complete(f)
      BY <1>1, <2>1, <3>1, LastIsNotEmpty DEF Exporting
    <3>3. exports \notin finished
      BY <1>1, <2>2, LastIsNotEmpty DEF Exporting
    <3>. QED
      BY <1>1, <1>2, <2>2, <3>2, <3>3, LastIsNotEmpty DEF Exporting, Complete
  <2>3. CASE writing = LastFile
    BY <1>1, <1>2, <2>3 DEF Exporting, Complete
  <2>. QED
    BY <2>2, <2>3
<1>5. Quiet'
  <2>1. ~quiet
    BY <1>1, LastIsNotEmpty DEF Quiet, Exporting
  <2>. QED
    BY <2>1 DEF Quiet
<1>. QED
  BY <1>3, <1>4, <1>5

LEMMA ExportDiesInv ==
  ASSUME Inv, ExportDies
  PROVE  Inv'
<1>. USE DEF Inv, ExportDies, loader
<1>1. Types' /\ OnDisk' /\ Loading' /\ Quiet'
  BY DEF Types, OnDisk, Loading, Whole, Quiet
<1>2. Exporting'
  BY DEF Exporting, Complete
<1>. QED
  BY <1>1, <1>2

LEMMA StartLoadInv ==
  ASSUME Inv, StartLoad
  PROVE  Inv'
<1>. USE DEF Inv, StartLoad, exporter
<1>1. 1 \in Files /\ \A f \in Files : ~(f < 1)
  BY LastIsNotEmpty DEF LastFile
<1>2. Types' /\ OnDisk' /\ Exporting'
  BY <1>1 DEF Types, OnDisk, Exporting, Complete
<1>3. Loading'
  BY <1>1 DEF Loading, Whole
<1>4. Quiet'
  <2>1. quiet' => writing = 0 /\ exports \in finished
    OBVIOUS
  <2>2. \A f \in Files : \A i \in 1 .. Len(loaded[f]) : FALSE
    BY DEF Loading
  <2>3. stage' # "idle" /\ UNCHANGED <<writing, exports, finished, loaded>>
    OBVIOUS
  <2>. QED
    BY <2>1, <2>2, <2>3 DEF Quiet
<1>. QED
  BY <1>2, <1>3, <1>4

LEMMA FailInv ==
  ASSUME Inv, Fail, stage \in {"check", "open", "read"}
  PROVE  Inv'
<1>. USE DEF Inv, Fail, exporter
<1>1. Types' /\ OnDisk' /\ Exporting'
  BY DEF Types, OnDisk, Exporting, Complete
<1>2. Loading'
  <2>1. Len(Reads(LastFile)) > 0 /\ LastFile \in Files
    BY LastIsNotEmpty, FileSequences
  <2>. QED
    BY <2>1 DEF Loading, Whole
<1>3. Quiet'
  BY DEF Quiet
<1>. QED
  BY <1>1, <1>2, <1>3

LEMMA OpensInv ==
  ASSUME Inv, CheckSize \/ OpenForReading
  PROVE  Inv'
<1>1. /\ UNCHANGED <<disk, exports, writing, opened, finished, reading, loaded, quiet>>
      /\ stage \in {"check", "open"} /\ stage' \in {"open", "read"}
  BY DEF CheckSize, OpenForReading, exporter
<1>. USE DEF Inv
<1>2. Types' /\ OnDisk' /\ Exporting'
  BY <1>1 DEF Types, OnDisk, Exporting, Complete
<1>3. Loading'
  BY <1>1 DEF Loading, Whole
<1>4. Quiet'
  BY <1>1 DEF Quiet
<1>. QED
  BY <1>2, <1>3, <1>4

LEMMA NextFileInv ==
  ASSUME Inv, NextFile
  PROVE  Inv'
<1>. USE DEF Inv, NextFile, exporter
<1>1. reading \in Files /\ Whole(reading)
  BY DEF Types, Loading, AllRead, Position, Whole
<1>2. Types' /\ OnDisk' /\ Exporting'
  BY DEF Types, OnDisk, Exporting, Complete
<1>3. Loading'
  <2>1. \A f \in Files : f < reading + 1 => Whole(f)
    BY <1>1, LastIsNotEmpty DEF Loading
  <2>2. CASE reading + 1 \in Files
    <3>1. reading + 1 # 0
      BY <2>2, LastIsNotEmpty
    <3>. QED
      BY <2>1, <2>2, <3>1 DEF Loading, Whole
  <2>3. CASE reading + 1 \notin Files
    <3>1. \A f \in Files : f < reading + 1
      BY <1>1, <2>3, LastIsNotEmpty DEF LastFile
    <3>. QED
      BY <1>1, <2>1, <2>3, <3>1, LastIsNotEmpty DEF Loading, Whole
  <2>. QED
    BY <2>2, <2>3
<1>4. Quiet'
  BY DEF Quiet
<1>. QED
  BY <1>2, <1>3, <1>4

LEMMA ReadStripInv ==
  ASSUME Inv, ReadStrip
  PROVE  Inv'
<1>. USE DEF Inv, exporter
<1> DEFINE r     == reading
           k     == Len(loaded[r])
           strip == [export |-> disk[r].export, strip |-> disk[r].strips[k + 1]]
           longer == Append(loaded[r], strip)
<1>1. /\ stage = "read" /\ k # Len(Reads(r)) /\ k < Len(disk[r].strips)
      /\ loaded' = [loaded EXCEPT ![r] = longer]
      /\ UNCHANGED <<disk, exports, writing, opened, finished, reading, stage, quiet>>
  BY DEF ReadStrip, AllRead, Position
<1>2. r \in Files
  BY <1>1 DEF Types, Loading
<1>3. /\ k \in Nat /\ Len(disk[r].strips) \in Nat /\ disk[r].strips \in Seq(Strips)
      /\ disk[r].export \in Nat /\ loaded[r] \in Seq(LoadedStrips)
      /\ Len(Reads(r)) \in Nat /\ Reads(r) = Written(r)
  BY <1>2, DiskTypes, FileSequences
<1>4. k + 1 \in 1 .. Len(disk[r].strips)
  BY <1>1, <1>3
<1>5. disk[r].strips[k + 1] \in Strips /\ disk[r].strips[k + 1] = Reads(r)[k + 1]
  <2>. HIDE DEF k
  <2>1. disk[r].strips[k + 1] \in Strips
    BY <1>3, <1>4, ElementOfSeq
  <2>. QED
    BY <1>2, <1>3, <1>4, <2>1 DEF OnDisk
<1>6. /\ strip \in LoadedStrips /\ strip.export = disk[r].export
      /\ strip.strip = Reads(r)[k + 1]
  BY <1>3, <1>5 DEF LoadedStrips
<1>7. /\ longer \in Seq(LoadedStrips) /\ Len(longer) = k + 1 /\ longer[k + 1] = strip
      /\ \A i \in 1 .. k : longer[i] = loaded[r][i]
  <2>. HIDE DEF strip
  <2>. QED
    BY <1>3, <1>6, AppendProperties
<1>. HIDE DEF longer, strip
<1>8. loaded'[r] = longer /\ \A f \in Files : f # r => loaded'[f] = loaded[f]
  BY <1>1, <1>2 DEF Types
<1>9. Types'
  BY <1>1, <1>2, <1>7 DEF Types
<1>10. OnDisk' /\ Exporting'
  BY <1>1 DEF OnDisk, Exporting, Complete
<1>11. Len(disk[r].strips) <= Len(Written(r))
  BY <1>2 DEF OnDisk
<1>12. \A i \in 1 .. k + 1 : i \in 1 .. k \/ i = k + 1
  BY <1>3
<1>13. Loading'
  <2>1. ASSUME NEW f \in Files
        PROVE  /\ Len(loaded'[f]) <= Len(Reads(f))
               /\ \A i \in 1 .. Len(loaded'[f]) : loaded'[f][i].strip = Reads(f)[i]
    <3>1. CASE f = r
      <4>1. Len(loaded'[f]) = k + 1 /\ k + 1 <= Len(Reads(f))
        BY <1>1, <1>3, <1>7, <1>8, <1>11, <3>1
      <4>2. \A i \in 1 .. k : loaded[r][i].strip = Reads(r)[i]
        BY <1>2 DEF Loading
      <4>. HIDE DEF k
      <4>3. \A i \in 1 .. k + 1 : longer[i].strip = Reads(r)[i]
        BY <1>6, <1>7, <1>12, <4>2
      <4>. QED
        BY <1>8, <3>1, <4>1, <4>3
    <3>2. CASE f # r
      BY <1>8, <3>2 DEF Loading
    <3>. QED
      BY <3>1, <3>2
  <2>2. Whole(LastFile)' => finished # {}
    <3>1. CASE r = LastFile
      <4>1. Whole(LastFile)' => Complete(LastFile)
        BY <1>1, <1>3, <1>7, <1>8, <1>11, <3>1 DEF Whole, Complete
      <4>. QED
        BY <4>1 DEF Exporting
    <3>2. CASE r # LastFile
      BY <1>8, <3>2, LastIsNotEmpty DEF Whole, Loading
    <3>. QED
      BY <3>1, <3>2
  <2>3. \A f \in Files : f < r => Whole(f)'
    <3>1. \A f \in Files : f < r => f # r /\ Whole(f)
      BY <1>1, <1>2, LastIsNotEmpty DEF Loading
    <3>. QED
      BY <1>8, <3>1 DEF Whole
  <2>4. stage' = "read" /\ reading' # 0 /\ finished' = finished /\ reading' = r
    BY <1>1 DEF Loading
  <2>. QED
    BY <2>1, <2>2, <2>3, <2>4 DEF Loading
<1>14. Quiet'
  <2>1. SUFFICES ASSUME quiet
                 PROVE  \A f \in Files : \A i \in 1 .. Len(loaded'[f]) : loaded'[f][i].export = exports
    BY <1>1 DEF Quiet
  <2>2. disk[r].export = exports
    BY <1>2, <2>1 DEF Quiet, Exporting
  <2>3. ASSUME NEW f \in Files, NEW i \in 1 .. Len(loaded'[f])
        PROVE  loaded'[f][i].export = exports
    <3>1. CASE f = r
      <4>1. \A j \in 1 .. k : loaded[r][j].export = exports
        BY <1>2, <2>1 DEF Quiet
      <4>2. i \in 1 .. k + 1
        BY <1>7, <1>8, <3>1
      <4>. HIDE DEF k
      <4>. QED
        BY <1>6, <1>7, <1>8, <1>12, <2>2, <3>1, <4>1, <4>2
    <3>2. CASE f # r
      BY <1>8, <2>1, <3>2 DEF Quiet
    <3>. QED
      BY <3>1, <3>2
  <2>. QED
    BY <2>3
<1>. QED
  BY <1>9, <1>10, <1>13, <1>14

LEMMA NextInv == Inv /\ [Next]_vars => Inv'
<1>1. SUFFICES ASSUME Inv, [Next]_vars PROVE Inv'
  OBVIOUS
<1>. USE <1>1
<1>2. CASE StartExport
  BY <1>2, StartExportInv
<1>3. CASE OpenFile
  BY <1>3, OpenFileInv
<1>4. CASE WriteStrip
  BY <1>4, WriteStripInv
<1>5. CASE CloseFile
  BY <1>5, CloseFileInv
<1>6. CASE ExportDies
  BY <1>6, ExportDiesInv
<1>7. CASE StartLoad
  BY <1>7, StartLoadInv
<1>8. CASE CheckSize \/ OpenForReading
  BY <1>8, OpensInv
<1>9. CASE SizeMismatch \/ UnexpectedEnd \/ LoadDies
  <2>1. Fail /\ stage \in {"check", "open", "read"}
    BY <1>9 DEF SizeMismatch, UnexpectedEnd, LoadDies
  <2>. QED
    BY <2>1, FailInv
<1>10. CASE ReadStrip
  BY <1>10, ReadStripInv
<1>11. CASE NextFile
  BY <1>11, NextFileInv
<1>12. CASE UNCHANGED vars
  BY <1>12 DEF vars, exporter, loader, Inv, Types, OnDisk, Exporting, Loading, Quiet,
               Complete, Whole
<1>. QED
  BY <1>2, <1>3, <1>4, <1>5, <1>6, <1>7, <1>8, <1>9, <1>10, <1>11, <1>12 DEF Next

(* In every reachable state the files are prefixes of what the script      *)
(* writes, and what was read of them is where the loader expects it.       *)
THEOREM WeightInvariance == Spec => []Inv
<1>. QED
  BY InitInv, NextInv, PTL DEF Spec

(* Type correctness: no file is longer than the script makes it, or has    *)
(* other strips, and no matrix is read further than it is long.            *)
THEOREM TypeCorrect == Spec => []TypeOK
<1>1. Inv => TypeOK
  <2>1. SUFFICES ASSUME Inv PROVE TypeOK
    OBVIOUS
  <2>. USE <2>1 DEF Inv
  <2>2. ASSUME NEW f \in Files
        PROVE  disk[f].export \in 0 .. exports /\ IsPrefix(disk[f].strips, Written(f))
    <3> DEFINE s == disk[f].strips
               t == Written(f)
    <3>1. /\ disk[f].export \in Nat /\ s \in Seq(Strips) /\ t \in Seq(Strips)
          /\ Len(s) \in Nat /\ Len(t) \in Nat
      BY DiskTypes, FileSequences
    <3>2. /\ disk[f].export <= exports /\ Len(s) <= Len(t)
          /\ \A i \in 1 .. Len(s) : s[i] = t[i]
      BY DEF OnDisk
    <3>. HIDE DEF s, t
    <3>3. SubSeq(s, 1, Len(s)) = [i \in 1 .. Len(s) |-> s[i]]
      BY <3>1
    <3>4. SubSeq(t, 1, Len(s)) = [i \in 1 .. Len(s) |-> t[i]]
      BY <3>1, <3>2
    <3>5. SubSeq(s, 1, Len(s)) = SubSeq(t, 1, Len(s))
      BY <3>2, <3>3, <3>4
    <3>6. IsPrefix(s, t)
      BY <3>2, <3>5 DEF IsPrefix
    <3>7. exports \in Nat
      BY DEF Types
    <3>. QED
      BY <3>1, <3>2, <3>6, <3>7 DEF s, t
  <2>3. \A f \in Files : Len(loaded[f]) <= Len(Reads(f))
    BY DEF Loading
  <2>4. exports \in 0 .. MaxExports
    BY DimensionAssumption DEF Types
  <2>5. opened => writing # 0 /\ disk[writing].export = exports
    BY DEF Exporting
  <2>. QED
    BY <2>2, <2>3, <2>4, <2>5 DEF TypeOK, Types
<1>. QED
  BY <1>1, WeightInvariance, PTL

(* Every strip a load puts into a matrix is the strip of the same tensor   *)
(* and column in the script, in whatever order exports, crashes and the    *)
(* load come.                                                              *)
THEOREM StripsInPlace == Spec => []WeightsInPlace
<1>1. Inv => WeightsInPlace
  <2>1. SUFFICES ASSUME Inv PROVE WeightsInPlace
    OBVIOUS
  <2>2. \A f \in Files : DOMAIN loaded[f] = 1 .. Len(loaded[f])
    BY <2>1, DiskTypes, LenProperties DEF Inv
  <2>. QED
    BY <2>1, <2>2 DEF Inv, Loading, WeightsInPlace
<1>. QED
  BY <1>1, WeightInvariance, PTL

(* A load that succeeds has filled every matrix, and some export had       *)
(* written every file to its end.                                          *)
THEOREM LoadsAreFinished == Spec => []LoadNeedsAFinishedExport
<1>1. Inv => LoadNeedsAFinishedExport
  BY LastIsNotEmpty DEF Inv, Loading, Whole, LoadNeedsAFinishedExport
<1>. QED
  BY <1>1, WeightInvariance, PTL

(* After a finished export, and while no other one runs, every file has    *)
(* the size the loader computes.                                           *)
THEOREM QuietAccepted == Spec => []QuietLoadsAreAccepted
<1>1. Inv => QuietLoadsAreAccepted
  <2>1. SUFFICES ASSUME Inv, stage = "check", quiet PROVE SizeMatches(reading)
    BY DEF QuietLoadsAreAccepted
  <2>. USE <2>1 DEF Inv
  <2> DEFINE f == reading
             s == disk[f].strips
             t == Written(f)
  <2>2. f \in Files /\ exports \in finished /\ exports > 0
    BY DEF Loading, Quiet, Types
  <2>3. disk[f].export = exports /\ Len(s) = Len(t)
    BY <2>2 DEF Exporting, Complete
  <2>4. s \in Seq(Strips) /\ t \in Seq(Strips) /\ \A i \in 1 .. Len(s) : s[i] = t[i]
    BY <2>2, DiskTypes, FileSequences DEF OnDisk
  <2>. HIDE DEF s, t
  <2>5. s = t
    BY <2>3, <2>4, SeqEqual
  <2>6. Floats(t) = ExpectedFloats(f)
    BY <2>2, FileFloats DEF t
  <2>. QED
    BY <2>2, <2>3, <2>5, <2>6 DEF SizeMatches, s
<1>. QED
  BY <1>1, WeightInvariance, PTL

(* Such a load never mixes exports.                                        *)
THEOREM QuietWhole == Spec => []QuietLoadsAreWhole
<1>1. Inv => QuietLoadsAreWhole
  <2>1. SUFFICES ASSUME Inv PROVE QuietLoadsAreWhole
    OBVIOUS
  <2>2. \A f \in Files : DOMAIN loaded[f] = 1 .. Len(loaded[f])
    BY <2>1, DiskTypes, LenProperties DEF Inv
  <2>. QED
    BY <2>1, <2>2 DEF Inv, Quiet, QuietLoadsAreWhole
<1>. QED
  BY <1>1, WeightInvariance, PTL
=============================================================================
