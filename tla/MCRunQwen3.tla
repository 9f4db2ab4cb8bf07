----------------------------- MODULE MCRunQwen3 -----------------------------
(***************************************************************************)
(* RunQwen3 for TLC, with the argmax of MCQwen3Run.                        *)
(***************************************************************************)
EXTENDS RunQwen3, MCQwen3Run
=============================================================================
