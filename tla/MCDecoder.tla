----------------------------- MODULE MCDecoder -----------------------------
(***************************************************************************)
(* The cache-free decoder for TLC, tabulated layer by layer for every      *)
(* history.                                                                *)
(***************************************************************************)
EXTENDS DecoderStack

MCHiddenTable[l \in 0 .. Layers, hist \in Histories] ==
  IF l = 0
  THEN Embedding(hist[Len(hist)])
  ELSE LayerOutput(l - 1, Len(hist) - 1,
         [i \in 0 .. Len(hist) - 1 |-> MCHiddenTable[l - 1, Prefix(hist, i + 1)]])

MCHidden(l, hist) == MCHiddenTable[l, hist]
=============================================================================
