----------------------------- MODULE WeightFiles -----------------------------
(***************************************************************************)
(* The weight directory: scripts/export_qwen3_weights.py writes it, file   *)
(* after file, and load_qwen3_weights (src/llm/weights.cpp) reads it, in   *)
(* the same order, by size and position alone.  Nothing keeps the two      *)
(* apart: an export may crash, be repeated over the files of an earlier    *)
(* one and run while a program loads.                                      *)
(*                                                                         *)
(* A file is a sequence of strips: Fortran order stores a tensor column by *)
(* column, and a column is the unit in which bytes reach or leave a file.  *)
(***************************************************************************)
EXTENDS Integers, Sequences, SequencesExt

CONSTANTS
  NUM_LAYERS, HIDDEN, QUERY_HEADS, KV_HEADS, HEAD_DIM, INTERMEDIATE, VOCAB, MAX_POS,
                 (* the dimensions, equal in the script and qwen3_config.h *)
  MaxExports     (* bound on the times the script is run                  *)

ASSUME DimensionAssumption ==
  /\ NUM_LAYERS \in Nat
  /\ {HIDDEN, QUERY_HEADS, KV_HEADS, HEAD_DIM, INTERMEDIATE, VOCAB, MAX_POS}
       \subseteq Nat \ {0}
  /\ MaxExports \in Nat

QUERY_DIM == QUERY_HEADS * HEAD_DIM
KV_DIM    == KV_HEADS * HEAD_DIM
ROPE_DIM  == HEAD_DIM \div 2

Tensor(name, rows, cols) == [name |-> name, rows |-> rows, cols |-> cols]
Vector(name, size)       == Tensor(name, size, 1)

Columns(tensor) ==
  [i \in 1 .. tensor.cols |-> [tensor |-> tensor.name, column |-> i, floats |-> tensor.rows]]

(* Tensors one after the other, each column by column: what tobytes of     *)
(* Fortran order writes and what fills Eigen matrices in their own order.  *)
ColumnMajor(tensors) == FlattenSeq([i \in DOMAIN tensors |-> Columns(tensors[i])])

Floats(strips) ==
  LET sum[n \in 0 .. Len(strips)] == IF n = 0 THEN 0 ELSE sum[n - 1] + strips[n].floats
  IN  sum[Len(strips)]

----------------------------------------------------------------------------
(* The files, in the order in which both sides go through them.            *)

TopFiles == <<"embedding", "cos_cache", "sin_cache", "final_norm">>
Files    == 1 .. Len(TopFiles) + NUM_LAYERS
IsLayer(f) == f > Len(TopFiles)

(* What the loader reads. *)

LayerReads == <<
  Vector("input_norm", HIDDEN),
  Tensor("q_proj", HIDDEN, QUERY_DIM),
  Tensor("k_proj", HIDDEN, KV_DIM),
  Tensor("v_proj", HIDDEN, KV_DIM),
  Vector("q_norm", HEAD_DIM),
  Vector("k_norm", HEAD_DIM),
  Tensor("o_proj", QUERY_DIM, HIDDEN),
  Vector("post_norm", HIDDEN),
  Tensor("gate_proj", HIDDEN, INTERMEDIATE),
  Tensor("up_proj", HIDDEN, INTERMEDIATE),
  Tensor("down_proj", INTERMEDIATE, HIDDEN) >>

TopReads == <<
  Tensor("embedding", VOCAB, HIDDEN),
  Tensor("cos_cache", MAX_POS, ROPE_DIM),
  Tensor("sin_cache", MAX_POS, ROPE_DIM),
  Vector("final_norm", HIDDEN) >>

Reads(f) == ColumnMajor(IF IsLayer(f) THEN LayerReads ELSE <<TopReads[f]>>)

(* mutation: gate and up projection are counted once *)
layer_file_floats_short ==
  HIDDEN + HIDDEN * QUERY_DIM + HIDDEN * KV_DIM * 2 + HEAD_DIM * 2
    + QUERY_DIM * HIDDEN + HIDDEN + HIDDEN * INTERMEDIATE + INTERMEDIATE * HIDDEN

layer_file_floats ==
  HIDDEN + HIDDEN * QUERY_DIM + HIDDEN * KV_DIM * 2 + HEAD_DIM * 2
    + QUERY_DIM * HIDDEN + HIDDEN + HIDDEN * INTERMEDIATE * 2 + INTERMEDIATE * HIDDEN

ExpectedFloats(f) ==
  IF IsLayer(f) THEN layer_file_floats ELSE TopReads[f].rows * TopReads[f].cols

(* What the script writes. *)

(* mutation: two tensors of equal shape change places *)
LAYER_TENSORS_VK == [LayerReads EXCEPT ![3] = LayerReads[4], ![4] = LayerReads[3]]

LAYER_TENSORS == <<
  Vector("input_norm", HIDDEN),
  Tensor("q_proj", HIDDEN, QUERY_DIM),
  Tensor("k_proj", HIDDEN, KV_DIM),
  Tensor("v_proj", HIDDEN, KV_DIM),
  Vector("q_norm", HEAD_DIM),
  Vector("k_norm", HEAD_DIM),
  Tensor("o_proj", QUERY_DIM, HIDDEN),
  Vector("post_norm", HIDDEN),
  Tensor("gate_proj", HIDDEN, INTERMEDIATE),
  Tensor("up_proj", HIDDEN, INTERMEDIATE),
  Tensor("down_proj", INTERMEDIATE, HIDDEN) >>

TopTensors == <<
  Tensor("embedding", VOCAB, HIDDEN),
  Tensor("cos_cache", MAX_POS, HEAD_DIM \div 2),
  Tensor("sin_cache", MAX_POS, HEAD_DIM \div 2),
  Vector("final_norm", HIDDEN) >>

Written(f) == ColumnMajor(IF IsLayer(f) THEN LAYER_TENSORS ELSE <<TopTensors[f]>>)

----------------------------------------------------------------------------
VARIABLES
  disk,       (* disk[f]: which export wrote the file, and its strips so far; *)
              (* export 0 never did                                        *)
  exports,    (* how often the script was started                          *)
  writing,    (* the file being written, 0 while no export runs            *)
  opened,     (* that file has been truncated                              *)
  finished,   (* ghost: the exports that wrote every file to its end       *)
  reading,    (* the file being read, 0 before the load                    *)
  stage,      (* "idle", "check", "open", "read", "loaded" or "failed"     *)
  loaded,     (* loaded[f]: the strips read from file f and their exports  *)
  quiet       (* ghost: the last export had finished when the load began,  *)
              (* and no other has begun since                              *)

exporter == <<exports, writing, opened, finished>>
loader   == <<reading, stage, loaded>>
vars     == <<disk, exporter, loader, quiet>>

Absent == [export |-> 0, strips |-> <<>>]

Init ==
  /\ disk = [f \in Files |-> Absent]
  /\ exports = 0
  /\ writing = 0
  /\ opened = FALSE
  /\ finished = {}
  /\ reading = 0
  /\ stage = "idle"
  /\ loaded = [f \in Files |-> <<>>]
  /\ quiet = FALSE

----------------------------------------------------------------------------
(* The script. *)

StartExport ==
  /\ writing = 0
  /\ exports < MaxExports
  /\ exports' = exports + 1
  /\ writing' = 1
  /\ opened' = FALSE
  /\ quiet' = FALSE
  /\ UNCHANGED <<disk, finished, loader>>

(* mutation: a complete file of an earlier export is kept *)
KeepComplete(f) == IF disk[f].strips = Written(f)
                   THEN disk[f] ELSE [export |-> exports, strips |-> <<>>]

(* open(path, "wb") *)
Truncated(f) == [export |-> exports, strips |-> <<>>]

OpenFile ==
  /\ writing # 0
  /\ ~opened
  /\ disk' = [disk EXCEPT ![writing] = Truncated(writing)]
  /\ opened' = TRUE
  /\ UNCHANGED <<exports, writing, finished, loader, quiet>>

WriteStrip ==
  /\ opened
  /\ LET strips == disk[writing].strips
     IN  /\ Len(strips) < Len(Written(writing))
         /\ disk' = [disk EXCEPT ![writing].strips =
                       Append(strips, Written(writing)[Len(strips) + 1])]
         /\ finished' = IF writing + 1 \notin Files /\ Len(strips) + 1 = Len(Written(writing))
                        THEN finished \cup {exports} ELSE finished
  /\ UNCHANGED <<exports, writing, opened, loader, quiet>>

(* The file is closed; after the last one only the manifest is left, which *)
(* the loader does not read.                                               *)
CloseFile ==
  /\ opened
  /\ Len(disk[writing].strips) = Len(Written(writing))
  /\ opened' = FALSE
  /\ writing' = IF writing + 1 \in Files THEN writing + 1 ELSE 0
  /\ UNCHANGED <<disk, exports, finished, loader, quiet>>

(* An initializer is missing or has another shape, the disk is full, or    *)
(* the script is killed: the file stays as far as it was written.          *)
ExportDies ==
  /\ writing # 0
  /\ writing' = 0
  /\ opened' = FALSE
  /\ UNCHANGED <<disk, exports, finished, loader, quiet>>

----------------------------------------------------------------------------
(* The loader.  Any exception ends the load. *)

StartLoad ==
  /\ stage = "idle"
  /\ stage' = "check"
  /\ reading' = 1
  /\ quiet' = (writing = 0 /\ exports \in finished)
  /\ UNCHANGED <<disk, exporter, loaded>>

Fail ==
  /\ stage' = "failed"
  /\ UNCHANGED <<disk, exporter, reading, loaded, quiet>>

SizeMatches(f) == disk[f].export # 0 /\ Floats(disk[f].strips) = ExpectedFloats(f)

CheckSize ==
  /\ stage = "check"
  /\ SizeMatches(reading)
  /\ stage' = "open"
  /\ UNCHANGED <<disk, exporter, reading, loaded, quiet>>

SizeMismatch ==
  /\ stage = "check"
  /\ ~SizeMatches(reading)
  /\ Fail

OpenForReading ==
  /\ stage = "open"
  /\ stage' = "read"
  /\ UNCHANGED <<disk, exporter, reading, loaded, quiet>>

Position == Len(loaded[reading])

(* mutation: reading stops at the end of the file *)
EndOfFile == Position >= Len(disk[reading].strips)

AllRead == Position = Len(Reads(reading))

ReadStrip ==
  /\ stage = "read"
  /\ ~AllRead
  /\ Position < Len(disk[reading].strips)
  /\ loaded' = [loaded EXCEPT ![reading] =
       Append(@, [export |-> disk[reading].export,
                  strip  |-> disk[reading].strips[Position + 1]])]
  /\ UNCHANGED <<disk, exporter, reading, stage, quiet>>

(* "unexpected end of weight file" *)
UnexpectedEnd ==
  /\ stage = "read"
  /\ ~AllRead
  /\ Position >= Len(disk[reading].strips)
  /\ Fail

NextFile ==
  /\ stage = "read"
  /\ AllRead
  /\ IF reading + 1 \in Files
     THEN reading' = reading + 1 /\ stage' = "check"
     ELSE stage' = "loaded" /\ UNCHANGED reading
  /\ UNCHANGED <<disk, exporter, loaded, quiet>>

(* No memory for a matrix, an unreadable file, a signal.                   *)
LoadDies ==
  /\ stage \in {"check", "open", "read"}
  /\ Fail

Next ==
  \/ StartExport \/ OpenFile \/ WriteStrip \/ CloseFile \/ ExportDies
  \/ StartLoad \/ CheckSize \/ SizeMismatch \/ OpenForReading \/ ReadStrip
  \/ UnexpectedEnd \/ NextFile \/ LoadDies

Spec == Init /\ [][Next]_vars

----------------------------------------------------------------------------
TypeOK ==
  /\ \A f \in Files : disk[f].export \in 0 .. exports /\ IsPrefix(disk[f].strips, Written(f))
  /\ exports \in 0 .. MaxExports
  /\ writing \in Files \cup {0}
  /\ opened => writing # 0 /\ disk[writing].export = exports
  /\ finished \subseteq 1 .. exports
  /\ reading \in Files \cup {0}
  /\ stage \in {"idle", "check", "open", "read", "loaded", "failed"}
  /\ \A f \in Files : Len(loaded[f]) <= Len(Reads(f))

(* Every column of a tensor of the loader was that column of the same      *)
(* tensor in the script, whatever exports the load met: LAYER_TENSORS and  *)
(* read_layer, Fortran order and Eigen's column-major storage agree.       *)
WeightsInPlace ==
  \A f \in Files : \A i \in DOMAIN loaded[f] :
    loaded[f][i].strip = Reads(f)[i]

(* Half written directories are not loaded: a load that succeeds has read  *)
(* every file to the end of what the loader expects, and some export had   *)
(* written them all (the checks of open_weight_file and read_floats).      *)
LoadNeedsAFinishedExport ==
  stage = "loaded" =>
    /\ \A f \in Files : Len(loaded[f]) = Len(Reads(f))
    /\ finished # {}

(* After a finished export, with no other one in the way, no file has      *)
(* another size than the loader computes for it.                           *)
QuietLoadsAreAccepted ==
  stage = "check" /\ quiet => SizeMatches(reading)

(* Such a load gets the weights of that export alone.                      *)
QuietLoadsAreWhole ==
  stage = "loaded" /\ quiet =>
    \A f \in Files : \A i \in DOMAIN loaded[f] : loaded[f][i].export = exports
=============================================================================
