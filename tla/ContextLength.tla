---------------------------- MODULE ContextLength ----------------------------
(***************************************************************************)
(* What a caller of Qwen3Model (src/llm/qwen3_model.h) can foresee without *)
(* looking at a token: how long the context is, which calls are served,    *)
(* and what a call that runs out of memory may leave behind.               *)
(***************************************************************************)
EXTENDS Naturals

CONSTANTS MaxPositions, MaxPrompt

VARIABLES
  length,   \* the number of tokens the model has taken in
  health,   \* "sound", or "stalled" after a failure
  pending,  \* a prefill or decode has not returned yet
  asked,    \* the number of tokens of that call
  status    \* how the last call ended

vars == <<length, health, pending, asked, status>>

Init ==
  /\ length = 0
  /\ health = "sound"
  /\ pending = FALSE
  /\ asked = 0
  /\ status = "none"

Enter(count) ==
  /\ ~pending
  /\ pending' = TRUE
  /\ asked' = count
  /\ status' = "none"

Empty == length' = 0 /\ health' = "sound"

Reset ==
  /\ ~pending
  /\ Empty
  /\ status' = "none"
  /\ UNCHANGED <<pending, asked>>

Prefill(count) == Enter(count) /\ Empty

Decode == Enter(1) /\ UNCHANGED <<length, health>>

Returns(how) ==
  /\ pending
  /\ pending' = FALSE
  /\ asked' = 0
  /\ status' = how

Servable ==
  /\ health = "sound"
  /\ asked # 0
  /\ length + asked <= MaxPositions

Extend == Servable /\ length' = length + asked /\ UNCHANGED health

Answer == Returns("logits") /\ Extend

Reject == Returns("invalid_argument") /\ ~Servable /\ UNCHANGED <<length, health>>

(* Nothing is lost, or the model is stalled, or the tokens count although  *)
(* the caller gets no logits.                                              *)
OutOfMemory ==
  /\ Returns("bad_alloc")
  /\ \/ UNCHANGED <<length, health>>
     \/ Servable /\ health' = "stalled" /\ UNCHANGED length
     \/ Extend

Next ==
  \/ Reset
  \/ \E count \in 0 .. MaxPrompt : Prefill(count)
  \/ Decode
  \/ Answer
  \/ Reject
  \/ OutOfMemory

Spec == Init /\ [][Next]_vars
=============================================================================
