---------------------------- MODULE TokenHistory ----------------------------
(***************************************************************************)
(* What Qwen3Model (src/llm/qwen3_model.h) promises its caller: a growing  *)
(* history of tokens.  prefill starts it anew, decode extends it by one    *)
(* token, and the logits of a call are those of a decoder that sees the    *)
(* whole history, up to each of the call's tokens, and no cache.           *)
(*                                                                         *)
(* A call that runs out of memory may leave the model "stalled": the       *)
(* history is kept, but every decode is rejected until a reset or a        *)
(* prefill.                                                                *)
(***************************************************************************)
EXTENDS DecoderStack

CONSTANT MaxPrompt    (* bound on the prompts the caller tries *)

VARIABLES
  history,   (* the tokens the model has taken in                    *)
  health,    (* "sound", or "stalled" after a failure                *)
  pending,   (* a prefill or decode has not returned yet             *)
  tokens,    (* the tokens of that call                              *)
  response   (* what the last call returned or threw                  *)

vars == <<history, health, pending, tokens, response>>

Prompts == UNION {[1 .. n -> Tokens] : n \in 0 .. MaxPrompt}

NoResponse      == [status |-> "none", logits |-> <<>>]
Answered(rows)  == [status |-> "logits", logits |-> rows]
InvalidArgument == [status |-> "invalid_argument", logits |-> <<>>]
BadAlloc        == [status |-> "bad_alloc", logits |-> <<>>]

Init ==
  /\ history = <<>>
  /\ health = "sound"
  /\ pending = FALSE
  /\ tokens = <<>>
  /\ response = NoResponse

(* A new model, or an explicit reset. *)
Reset ==
  /\ ~pending
  /\ history' = <<>>
  /\ health' = "sound"
  /\ response' = NoResponse
  /\ UNCHANGED <<pending, tokens>>

(* The history is dropped before the prompt is looked at. *)
Prefill(prompt) ==
  /\ ~pending
  /\ history' = <<>>
  /\ health' = "sound"
  /\ pending' = TRUE
  /\ tokens' = prompt
  /\ response' = NoResponse

Decode(token) ==
  /\ ~pending
  /\ pending' = TRUE
  /\ tokens' = <<token>>
  /\ response' = NoResponse
  /\ UNCHANGED <<history, health>>

Returns ==
  /\ pending
  /\ pending' = FALSE
  /\ tokens' = <<>>

(* A call is served when the model is sound, there is something to process *)
(* and the positions suffice.                                              *)
Servable ==
  /\ health = "sound"
  /\ tokens # <<>>
  /\ Len(history) + Len(tokens) <= MaxPositions

Answer ==
  /\ Returns
  /\ Servable
  /\ history' = history \o tokens
  /\ response' = Answered(LastLogits(history', Len(tokens)))
  /\ UNCHANGED health

(* A rejected call has no effect besides the reset of a prefill. *)
Reject ==
  /\ Returns
  /\ ~Servable
  /\ response' = InvalidArgument
  /\ UNCHANGED <<history, health>>

(* Out of memory: nothing happened, or the model is stalled half way, or   *)
(* the tokens are in the history although the caller gets no logits.       *)
OutOfMemory ==
  /\ Returns
  /\ response' = BadAlloc
  /\ \/ UNCHANGED <<history, health>>
     \/ /\ Servable
        /\ health' = "stalled"
        /\ UNCHANGED history
     \/ /\ Servable
        /\ history' = history \o tokens
        /\ UNCHANGED health

Next ==
  \/ Reset
  \/ \E prompt \in Prompts : Prefill(prompt)
  \/ \E token \in Tokens : Decode(token)
  \/ Answer
  \/ Reject
  \/ OutOfMemory

Spec == Init /\ [][Next]_vars
=============================================================================
