------------------------------ MODULE RunQwen3 ------------------------------
(***************************************************************************)
(* scripts/run_qwen3.py: it makes an empty temporary file, runs qwen3_run  *)
(* (module Qwen3Run) with that file as --tokens-out, reads the tokens back *)
(* when the program succeeded, removes the file and prints them.           *)
(***************************************************************************)
EXTENDS Qwen3Run

VARIABLES
  at,        (* where the script stands                 *)
  temp,      (* the temporary file exists               *)
  output     (* what was printed, and whether           *)

script == <<at, temp, output>>
all    == <<vars, script>>

NotPrinted   == [printed |-> FALSE, ids |-> <<>>]
Printed(ids) == [printed |-> TRUE, ids |-> ids]

PromptIds == UNION {[1 .. n -> Tokens] : n \in 0 .. MaxPrompt}

RunnerInit ==
  /\ Init
  /\ at = "start"
  /\ temp = FALSE
  /\ output = NotPrinted

MakeTempFile ==
  /\ at = "start"
  /\ at' = "made"
  /\ temp' = TRUE
  /\ token_file' = Joined(<<>>)
  /\ UNCHANGED <<object, pc, locals, logits_file, exit_status, failures, output>>

(* Any --max-new that Python takes for an integer is passed on.            *)
StartBinary(ids, max_new) ==
  /\ at = "made"
  /\ at' = "waiting"
  /\ Exec([tokens |-> Joined(ids), max_new |-> max_new,
           tokens_out |-> TRUE, logits |-> FALSE])
  /\ UNCHANGED <<temp, output>>

(* mutation: the finally clause is empty *)
UnlinkForgotten == UNCHANGED <<vars, temp>>

(* os.unlink of the finally clause. *)
Unlink ==
  /\ temp' = FALSE
  /\ token_file' = NoFile
  /\ UNCHANGED <<object, pc, locals, logits_file, exit_status, failures>>

(* mutation: check=True is missing *)
AnyExit == pc = "exited"

RunSucceeded == pc = "exited" /\ exit_status = "ok"

(* The tokens of the file: int() of every field that is not empty.         *)
ReadIds ==
  LET ids[n \in 0 .. Len(token_file)] ==
        IF n = 0 THEN <<>>
        ELSE IF token_file[n] = Blank THEN ids[n - 1]
        ELSE Append(ids[n - 1], token_file[n])
  IN  ids[Len(token_file)]

PrintOutput ==
  /\ at = "waiting"
  /\ RunSucceeded
  /\ at' = "done"
  /\ output' = Printed(ReadIds)
  /\ Unlink

(* mutation: the file is unlinked only when the program succeeded *)
RaiseErrorKeepsFile ==
  /\ \/ at = "made"
     \/ at = "waiting" /\ pc = "exited"
  /\ at' = "raised"
  /\ UNCHANGED <<vars, temp, output>>

(* The program cannot be started, or fails, or its file cannot be read.    *)
RaiseError ==
  /\ \/ at = "made"
     \/ at = "waiting" /\ pc = "exited"
  /\ at' = "raised"
  /\ UNCHANGED output
  /\ Unlink

(* KeyboardInterrupt while it waits: subprocess.run kills the program and  *)
(* raises again, through the finally clause.                               *)
Interrupted ==
  /\ at = "waiting"
  /\ pc # "exited"
  /\ Exit("killed")
  /\ failures' = failures \cup {"killed"}
  /\ at' = "raised"
  /\ temp' = FALSE
  /\ token_file' = NoFile
  /\ UNCHANGED <<object, locals, logits_file, output>>

(* KeyboardInterrupt where no finally clause answers it: before the try    *)
(* statement, or in the clause itself before os.unlink.  The file is left. *)
InterruptedOutsideTry ==
  /\ \/ at = "made"
     \/ at = "waiting" /\ pc = "exited"
  /\ at' = "left"
  /\ UNCHANGED <<vars, temp, output>>

(* A signal ends the script alone; the program it started runs on.         *)
ScriptKilled ==
  /\ at \in {"made", "waiting"}
  /\ at' = "killed"
  /\ UNCHANGED <<vars, temp, output>>

ScriptStep ==
  \/ MakeTempFile
  \/ \E ids \in PromptIds, max_new \in (-1 .. MaxNew) \cup {OutOfRange} :
       StartBinary(ids, max_new)
  \/ PrintOutput
  \/ RaiseError

BinaryStep == Progress /\ UNCHANGED script
BinaryFailure == Failure /\ UNCHANGED script

RunnerNext ==
  \/ ScriptStep
  \/ BinaryStep \/ BinaryFailure
  \/ Interrupted \/ InterruptedOutsideTry \/ ScriptKilled

RunnerSpec == RunnerInit /\ [][RunnerNext]_all

(* Two processes, neither of which is starved.                             *)
RunnerFairSpec == RunnerSpec /\ WF_all(ScriptStep) /\ WF_all(BinaryStep)

----------------------------------------------------------------------------
RunnerTypeOK ==
  /\ at \in {"start", "made", "waiting", "done", "raised", "left", "killed"}
  /\ output.printed <=> at = "done"
  /\ temp <=> at \in {"made", "waiting", "left", "killed"}
  /\ TypeOK

TokensWanted == IF args.max_new \in 1 .. MaxNew THEN args.max_new ELSE 0

(* What is printed is the whole greedy continuation of the prompt, never   *)
(* what a program that failed or was killed had written by then.  If the   *)
(* program lost or cut its file, which it does not notice, what is printed *)
(* may end early, and the last token may be the digits that were left of   *)
(* one; the tokens before it are still the greedy continuation.            *)
PrintedIsGreedy ==
  output.printed =>
    /\ Len(output.ids) <= TokensWanted
    /\ "write" \notin failures => Len(output.ids) = TokensWanted
    /\ \A n \in 1 .. Len(output.ids) :
         "write" \notin failures \/ n < Len(output.ids) =>
           output.ids[n] =
             Argmax(Logits(Hidden(Layers, Prompt \o SubSeq(output.ids, 1, n - 1))))

(* The temporary file is removed however the run of the program ends,      *)
(* unless the script is killed or interrupted outside its try statement.   *)
TempFileIsRemoved == temp ~> (~temp \/ at \in {"left", "killed"})
=============================================================================
