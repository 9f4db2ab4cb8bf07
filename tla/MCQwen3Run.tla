----------------------------- MODULE MCQwen3Run -----------------------------
(***************************************************************************)
(* Qwen3Run for TLC: an argmax that depends on the whole history.          *)
(***************************************************************************)
EXTENDS Qwen3Run, MCDecoder

CONSTANTS a, b

(* The history a logits row belongs to. *)
MCHistoryOf(row) ==
  CHOOSE hist \in Histories : Logits(MCHidden(Layers, hist)) = row

MCArgmax(row) ==
  LET hist == MCHistoryOf(row)
  IN  IF (Len(hist) + Cardinality({i \in DOMAIN hist : hist[i] = a})) % 2 = 0
      THEN a ELSE b
=============================================================================
