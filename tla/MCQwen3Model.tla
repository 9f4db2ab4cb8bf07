---------------------------- MODULE MCQwen3Model ----------------------------
(***************************************************************************)
(* Qwen3Model for TLC: a small decoder.                                    *)
(***************************************************************************)
EXTENDS Qwen3Model, MCDecoder
=============================================================================
