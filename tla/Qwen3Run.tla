------------------------------ MODULE Qwen3Run ------------------------------
(***************************************************************************)
(* One execution of qwen3_run (src/llm/main.cpp): arguments, weights, the  *)
(* prompt, greedy generation one token at a time and the output files.     *)
(* The model object is TokenHistory, which Qwen3Model implements; the      *)
(* program runs between the steps of its calls.                            *)
(*                                                                         *)
(* A text of comma separated numbers is the sequence of its fields, and a  *)
(* file that does not exist the empty sequence.  Loading may fail, memory  *)
(* may run out, a file may fail to open or be cut off while it is written, *)
(* and the process may be killed at any moment.                            *)
(***************************************************************************)
EXTENDS DecoderStack, SequencesExt

CONSTANTS
  Blank,        (* an empty field                                      *)
  Junk,         (* a field std::stoi cannot convert                    *)
  MaxPrompt,    (* bound on the fields of a prompt text                *)
  MaxNew,       (* bound on the values of --max-new                    *)
  OutOfRange,   (* a --max-new that std::stoi cannot convert           *)
  Argmax(_)     (* the column of a logits row's largest entry          *)

ASSUME RunAssumption ==
  /\ MaxPrompt \in Nat \ {0}
  /\ MaxNew \in Nat
  /\ Blank \notin Tokens /\ Junk \notin Tokens

ASSUME ArgmaxAssumption ==
  \A hist \in Histories : Argmax(Logits(Hidden(Layers, hist))) \in Tokens

VARIABLES
  history, health, pending, tokens, response,   (* the model object        *)
  pc,           (* where main stands, "absent" before and "exited" after   *)
  args,         (* the parsed command line                                 *)
  logits,       (* what prefill returned                                   *)
  step_logits,  (* what the last call returned                             *)
  generated,    (* the tokens chosen so far                                *)
  token_file,   (* the file named by --tokens-out                          *)
  logits_file,  (* the file named by --logits                              *)
  exit_status,
  failures      (* ghost: the failures of the environment so far           *)

object == <<history, health, pending, tokens, response>>
locals == <<args, logits, step_logits, generated>>
files  == <<token_file, logits_file>>
vars   == <<object, pc, locals, files, exit_status, failures>>

Model == INSTANCE TokenHistory

----------------------------------------------------------------------------
(* Texts. *)

NoFile == <<>>
Fields == Tokens \cup {Blank, Junk}
Texts  == UNION {[1 .. n -> Fields] : n \in 1 .. MaxPrompt}

(* Numbers separated by commas. *)
Joined(numbers) == IF numbers = <<>> THEN <<Blank>> ELSE numbers

(* std::getline does not deliver an empty field at the end. *)
Items(text) == IF Last(text) = Blank THEN Front(text) ELSE text

Unparsable(text) == \E i \in DOMAIN Items(text) : Items(text)[i] \in {Blank, Junk}

(* A text cut off while it was written: some fields are whole, and of the  *)
(* next one nothing or leading digits are there, another number.           *)
CutOff(text) ==
  {SubSeq(text, 1, n) : n \in 1 .. Len(text)}
    \cup {Append(SubSeq(text, 1, n), field) :
            n \in 0 .. Len(text) - 1, field \in Tokens \cup {Blank}}

Untouched == [state |-> "untouched", rows |-> <<>>]
Partial   == [state |-> "partial", rows |-> <<>>]
Whole(rows) == [state |-> "whole", rows |-> rows]

NoArgs == [tokens |-> <<Blank>>, max_new |-> 0, tokens_out |-> FALSE, logits |-> FALSE]

----------------------------------------------------------------------------

Init ==
  /\ Model!Init
  /\ pc = "absent"
  /\ args = NoArgs
  /\ logits = <<>>
  /\ step_logits = <<>>
  /\ generated = <<>>
  /\ token_file = NoFile
  /\ logits_file = Untouched
  /\ exit_status = "none"
  /\ failures = {}

Exit(status) ==
  /\ pc' = "exited"
  /\ exit_status' = status

Goto(place) ==
  /\ pc' = place
  /\ UNCHANGED exit_status

(* The command line.  --max-new is converted outside the try block: what   *)
(* std::stoi throws there ends the process.                                *)
Exec(arguments) ==
  /\ pc = "absent"
  /\ args' = arguments
  /\ IF arguments.max_new = OutOfRange THEN Exit("aborted") ELSE Goto("load")
  /\ UNCHANGED <<object, logits, step_logits, generated, files, failures>>

(* The weights are in memory and the prompt is parsed: prefill is called.  *)
CallPrefill ==
  /\ pc = "load"
  /\ ~Unparsable(args.tokens)
  /\ Model!Prefill(Items(args.tokens))
  /\ Goto("prefill")
  /\ UNCHANGED <<locals, files, failures>>

RejectPrompt ==
  /\ pc = "load"
  /\ Unparsable(args.tokens)
  /\ Exit("error")
  /\ UNCHANGED <<object, locals, files, failures>>

(* The called model returns or throws. *)
ModelReturns ==
  /\ pc \in {"prefill", "decode"}
  /\ \/ (Model!Answer \/ Model!Reject) /\ UNCHANGED failures
     \/ Model!OutOfMemory /\ failures' = failures \cup {"memory"}
  /\ UNCHANGED <<pc, locals, files, exit_status>>

Returned == pc \in {"prefill", "decode"} /\ ~pending

TakePrefill ==
  /\ Returned
  /\ pc = "prefill"
  /\ response.status = "logits"
  /\ logits' = response.logits
  /\ step_logits' = response.logits
  /\ Goto(IF args.max_new > 0 THEN "generate" ELSE "write logits")
  /\ UNCHANGED <<object, args, generated, files, failures>>

TakeDecode ==
  /\ Returned
  /\ pc = "decode"
  /\ response.status = "logits"
  /\ step_logits' = response.logits
  /\ Goto("generate")
  /\ UNCHANGED <<object, args, logits, generated, files, failures>>

Threw == response.status # "logits"

(* mutation: what a decode throws is caught inside the loop, which does    *)
(* not advance and calls decode with the same token again                  *)
RetriesDecode ==
  /\ Returned
  /\ Threw
  /\ \/ pc = "prefill" /\ Exit("error") /\ UNCHANGED object
     \/ /\ pc = "decode" /\ Model!Decode(Last(generated))
        /\ UNCHANGED <<pc, exit_status>>
  /\ UNCHANGED <<locals, files, failures>>

(* The one handler is for std::exception, of which std::invalid_argument   *)
(* and std::bad_alloc are both: no exception of a call leaves main.        *)
CatchException ==
  /\ Returned
  /\ Threw
  /\ Exit("error")
  /\ UNCHANGED <<object, locals, files, failures>>

----------------------------------------------------------------------------
(* The generation loop: step is Len(generated). *)

(* mutation: the first row *)
FirstRowToken == Argmax(step_logits[0])

(* The columns of a matrix of n rows are searched in row n - 1. *)
NextToken == Argmax(step_logits[Cardinality(DOMAIN step_logits) - 1])

(* mutation: the last token is decoded too *)
DecodeLate == Len(generated) < args.max_new

DecodeWanted == Len(generated) + 1 < args.max_new

GenerateAndDecode ==
  /\ pc = "generate"
  /\ DecodeWanted
  /\ generated' = Append(generated, NextToken)
  /\ Model!Decode(NextToken)
  /\ Goto("decode")
  /\ UNCHANGED <<args, logits, step_logits, files, failures>>

GenerateLast ==
  /\ pc = "generate"
  /\ ~DecodeWanted
  /\ generated' = Append(generated, NextToken)
  /\ Goto(IF args.tokens_out THEN "open tokens" ELSE "write logits")
  /\ UNCHANGED <<object, args, logits, step_logits, files, failures>>

----------------------------------------------------------------------------
(* The output files.  Neither stream is checked. *)

OpenTokens ==
  /\ pc = "open tokens"
  /\ \/ token_file' = Joined(<<>>) /\ Goto("write tokens") /\ UNCHANGED failures
     \/ /\ failures' = failures \cup {"write"}
        /\ Goto("write logits")
        /\ UNCHANGED token_file
  /\ UNCHANGED <<object, locals, logits_file>>

WriteTokens ==
  /\ pc = "write tokens"
  /\ \/ token_file' = Joined(generated) /\ UNCHANGED failures
     \/ token_file' \in CutOff(generated) /\ failures' = failures \cup {"write"}
  /\ Goto("write logits")
  /\ UNCHANGED <<object, locals, logits_file>>

(* mutation: the logits of the last step *)
LastStepLogits == step_logits

PromptLogits == logits

WriteLogits ==
  /\ pc = "write logits"
  /\ \/ args.logits /\ logits_file' = Whole(PromptLogits) /\ UNCHANGED failures
     \/ args.logits /\ logits_file' \in {Untouched, Partial}
                    /\ failures' = failures \cup {"write"}
     \/ ~args.logits /\ UNCHANGED <<logits_file, failures>>
  /\ Exit("ok")
  /\ UNCHANGED <<object, locals, token_file>>

----------------------------------------------------------------------------
(* What the environment does. *)

LoadFails ==
  /\ pc = "load"
  /\ Exit("error")
  /\ failures' = failures \cup {"load"}
  /\ UNCHANGED <<object, locals, files>>

(* std::bad_alloc thrown by main's own copies, vectors and streams. *)
OutOfMemory ==
  /\ \/ pc \in {"load", "generate", "open tokens", "write tokens"}
     \/ Returned /\ pc = "prefill" /\ ~Threw
     \/ pc = "write logits" /\ args.logits
  /\ Exit("error")
  /\ failures' = failures \cup {"memory"}
  /\ UNCHANGED <<object, locals, files>>

(* A signal.  What is on its way to a file may get there in part. *)
Killed ==
  /\ pc \notin {"absent", "exited"}
  /\ Exit("killed")
  /\ failures' = failures \cup {"killed"}
  /\ \/ UNCHANGED files
     \/ /\ pc = "write tokens"
        /\ token_file' \in CutOff(generated) \cup {Joined(generated)}
        /\ UNCHANGED logits_file
     \/ /\ pc = "write logits" /\ args.logits
        /\ logits_file' = Partial
        /\ UNCHANGED token_file
  /\ UNCHANGED <<object, locals>>

Progress ==
  \/ CallPrefill \/ RejectPrompt
  \/ ModelReturns \/ TakePrefill \/ TakeDecode \/ CatchException
  \/ GenerateAndDecode \/ GenerateLast
  \/ OpenTokens \/ WriteTokens \/ WriteLogits

Failure == LoadFails \/ OutOfMemory \/ Killed

Arguments == [tokens : Texts, max_new : (-1 .. MaxNew) \cup {OutOfRange},
              tokens_out : BOOLEAN, logits : BOOLEAN]

Next ==
  \/ \E arguments \in Arguments : Exec(arguments)
  \/ Progress
  \/ Failure

Spec == Init /\ [][Next]_vars

(* One thread that never waits for anybody: a started run goes on.         *)
FairSpec == Spec /\ WF_vars(Progress)

----------------------------------------------------------------------------
Prompt == Items(args.tokens)

TypeOK ==
  /\ pc \in {"absent", "load", "prefill", "decode", "generate", "open tokens",
             "write tokens", "write logits", "exited"}
  /\ exit_status \in {"none", "ok", "error", "aborted", "killed"}
  /\ exit_status = "none" <=> pc # "exited"
  /\ args \in Arguments \cup {NoArgs}
  /\ \A i \in DOMAIN generated : generated[i] \in Tokens
  /\ generated # <<>> => Len(generated) <= args.max_new
  /\ \A i \in DOMAIN token_file : token_file[i] \in Tokens \cup {Blank}
  /\ failures \subseteq {"load", "memory", "write", "killed"}

(* Each generated token is the argmax of a decoder that sees, without a    *)
(* cache, the prompt and the tokens generated before it: the loop of       *)
(* main.cpp feeds every token but the last back, once and in order.        *)
GeneratedIsGreedy ==
  \A n \in 1 .. Len(generated) :
    generated[n] =
      Argmax(Logits(Hidden(Layers, Prompt \o SubSeq(generated, 1, n - 1))))

(* Generating n tokens takes Len(Prompt) + n - 1 positions; a run that     *)
(* nothing outside disturbs succeeds exactly when it has them.             *)
Fits ==
  /\ ~Unparsable(args.tokens)
  /\ Prompt # <<>>
  /\ Len(Prompt) <= MaxPositions
  /\ args.max_new > 0 => Len(Prompt) + args.max_new - 1 <= MaxPositions

UndisturbedRunsSucceedIfTheyFit ==
  failures \subseteq {"write"} /\ exit_status \in {"ok", "error"} =>
    (exit_status = "ok" <=> Fits)

(* The token file is written when all tokens are there or not at all, and  *)
(* a run that reports success and met no write failure left the tokens     *)
(* and the logits of the prompt in the files asked for.                    *)
OutputsAreComplete ==
  /\ token_file # NoFile => Len(generated) = args.max_new
  /\ exit_status = "ok" /\ "write" \notin failures =>
       /\ args.logits => logits_file = Whole(Model!LastLogits(Prompt, Len(Prompt)))
       /\ args.max_new > 0 => Len(generated) = args.max_new
       /\ args.max_new > 0 /\ args.tokens_out => token_file = generated

(* A started run ends, whatever fails.                                     *)
StartedRunsEnd == (pc = "load") ~> (pc = "exited")
=============================================================================
