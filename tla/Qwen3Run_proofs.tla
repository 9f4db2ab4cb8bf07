---------------------------- MODULE Qwen3Run_proofs ----------------------------
(***************************************************************************)
(* Proofs about Qwen3Run, for every vocabulary, argmax, prompt length and  *)
(* number of generated tokens, and about RunQwen3 on top of it.            *)
(***************************************************************************)
EXTENDS RunQwen3, DataInduction, FiniteSetTheorems

----------------------------------------------------------------------------
(* Texts. *)

LEMMA Limits ==
  /\ MaxPositions \in Nat \ {0}
  /\ MaxPrompt \in Nat \ {0}
  /\ MaxNew \in Nat
  /\ Blank \notin Tokens
BY StackAssumption, RunAssumption

LEMMA TextsAre ==
  ASSUME NEW text \in Texts
  PROVE  text \in Seq(Fields) /\ Len(text) > 0
<1>1. PICK n \in 1 .. MaxPrompt : text \in [1 .. n -> Fields]
  BY DEF Texts
<1>. QED
  BY <1>1, Limits

(* A text without blank and unconvertible fields is a token sequence.      *)
LEMMA ParsedTokens ==
  ASSUME NEW text \in Texts, ~Unparsable(text)
  PROVE  Items(text) \in Seq(Tokens)
<1> DEFINE items == Items(text)
<1>1. text \in Seq(Fields) /\ Len(text) > 0
  BY TextsAre
<1>2. items \in Seq(Fields)
  BY <1>1 DEF Items, Front
<1>3. \A i \in DOMAIN items : items[i] \notin {Blank, Junk}
  BY DEF Unparsable
<1>. HIDE DEF items
<1>4. \A i \in 1 .. Len(items) : items[i] \in Tokens
  <2>1. \A i \in 1 .. Len(items) : items[i] \in Fields
    BY <1>2, ElementOfSeq
  <2>. QED
    BY <1>2, <1>3, <2>1, LenProperties DEF Fields
<1>. QED
  BY <1>2, <1>4, IsASeq DEF items

LEMMA JoinedTokens ==
  ASSUME NEW ids \in Seq(Tokens)
  PROVE  /\ Joined(ids) \in Seq(Tokens \cup {Blank})
         /\ Joined(ids) # NoFile
<1>1. CASE ids = <<>>
  BY <1>1 DEF Joined, NoFile
<1>2. CASE ids # <<>>
  BY <1>2 DEF Joined, NoFile
<1>. QED
  BY <1>1, <1>2

LEMMA CutOffTokens ==
  ASSUME NEW ids \in Seq(Tokens), NEW text \in CutOff(ids)
  PROVE  text \in Seq(Tokens \cup {Blank})
<1>1. CASE \E n \in 1 .. Len(ids) : text = SubSeq(ids, 1, n)
  BY <1>1
<1>2. CASE \E n \in 0 .. Len(ids) - 1, field \in Tokens \cup {Blank} :
             text = Append(SubSeq(ids, 1, n), field)
  <2>1. PICK n \in 0 .. Len(ids) - 1, field \in Tokens \cup {Blank} :
               text = Append(SubSeq(ids, 1, n), field)
    BY <1>2
  <2>2. SubSeq(ids, 1, n) \in Seq(Tokens \cup {Blank})
    BY <2>1
  <2>. QED
    BY <2>1, <2>2
<1>. QED
  BY <1>1, <1>2 DEF CutOff

----------------------------------------------------------------------------
(* The logits of a call. *)

LEMMA LastRow ==
  ASSUME NEW hist \in Seq(Tokens), NEW k \in 1 .. Len(hist)
  PROVE  LET rows == Model!LastLogits(hist, k)
         IN  rows[Cardinality(DOMAIN rows) - 1] = Logits(Hidden(Layers, hist))
<1> DEFINE rows == Model!LastLogits(hist, k)
<1>1. Len(hist) \in Nat /\ k \in Nat /\ k > 0
  BY LenProperties
<1>2. rows = [i \in 0 .. k - 1 |-> Logits(Hidden(Layers, SubSeq(hist, 1, Len(hist) - k + i + 1)))]
  BY DEF Model!LastLogits, Model!Logits, Logits, Model!Prefix
<1>3. Cardinality(0 .. k - 1) = k
  BY <1>1, FS_Interval
<1>4. rows[k - 1] = Logits(Hidden(Layers, SubSeq(hist, 1, Len(hist))))
  <2>1. k - 1 \in 0 .. k - 1 /\ Len(hist) - k + (k - 1) + 1 = Len(hist)
    BY <1>1
  <2>. QED
    BY <1>2, <2>1
<1>5. SubSeq(hist, 1, Len(hist)) = hist
  OBVIOUS
<1>. QED
  BY <1>2, <1>3, <1>4, <1>5

(* A token appended to the generated ones.                                 *)
LEMMA Appended ==
  ASSUME NEW prompt \in Seq(Tokens), NEW ids \in Seq(Tokens), NEW token \in Tokens
  PROVE  /\ Append(ids, token) \in Seq(Tokens)
         /\ Len(Append(ids, token)) = Len(ids) + 1
         /\ Last(Append(ids, token)) = token
         /\ Front(Append(ids, token)) = ids
         /\ \A n \in 1 .. Len(ids) : /\ Append(ids, token)[n] = ids[n]
                                     /\ SubSeq(Append(ids, token), 1, n - 1) = SubSeq(ids, 1, n - 1)
         /\ Append(ids, token)[Len(ids) + 1] = token
         /\ SubSeq(Append(ids, token), 1, Len(ids)) = ids
<1> DEFINE longer == Append(ids, token)
<1>1. /\ longer \in Seq(Tokens) /\ Len(longer) = Len(ids) + 1 /\ Len(ids) \in Nat
      /\ longer[Len(ids) + 1] = token /\ \A n \in 1 .. Len(ids) : longer[n] = ids[n]
  BY AppendProperties, LenProperties
<1>2. Last(longer) = token
  BY <1>1 DEF Last
<1>3. \A n \in 0 .. Len(ids) : SubSeq(longer, 1, n) = SubSeq(ids, 1, n)
  BY <1>1
<1>4. SubSeq(ids, 1, Len(ids)) = ids
  OBVIOUS
<1>5. Front(longer) = ids
  <2>1. Len(longer) - 1 = Len(ids) /\ Len(ids) \in 0 .. Len(ids)
    BY <1>1
  <2>2. SubSeq(longer, 1, Len(ids)) = ids
    BY <1>3, <1>4, <2>1
  <2>. QED
    BY <2>1, <2>2 DEF Front
<1>6. /\ \A n \in 1 .. Len(ids) : n - 1 \in 0 .. Len(ids)
      /\ Len(ids) \in 0 .. Len(ids)
  BY <1>1
<1>. HIDE DEF longer
<1>7. /\ \A n \in 1 .. Len(ids) : SubSeq(longer, 1, n - 1) = SubSeq(ids, 1, n - 1)
      /\ SubSeq(longer, 1, Len(ids)) = ids
  BY <1>3, <1>4, <1>6
<1>. QED
  BY <1>1, <1>2, <1>5, <1>7 DEF longer

LEMMA Extended ==
  ASSUME NEW prompt \in Seq(Tokens), NEW ids \in Seq(Tokens), ids # <<>>
  PROVE  /\ (prompt \o Front(ids)) \o <<Last(ids)>> = prompt \o ids
         /\ prompt \o Front(ids) \in Seq(Tokens)
         /\ prompt \o ids \in Seq(Tokens)
         /\ Len(prompt \o Front(ids)) = Len(prompt) + Len(ids) - 1
         /\ Len(prompt \o ids) = Len(prompt) + Len(ids)
         /\ Last(ids) \in Tokens
         /\ Len(prompt) \in Nat /\ Len(ids) \in Nat /\ Len(ids) > 0
<1> DEFINE front == Front(ids)
           last  == Last(ids)
<1>1. Len(prompt) \in Nat /\ Len(ids) \in Nat /\ Len(ids) > 0
  OBVIOUS
<1>2. last \in Tokens
  BY <1>1, ElementOfSeq DEF Last
<1>3. front \in Seq(Tokens) /\ Len(front) = Len(ids) - 1
  <2> DEFINE n == Len(ids) - 1
  <2>1. n \in Int /\ 1 \in Int /\ \A i \in 1 .. n : ids[i] \in Tokens
    BY <1>1, ElementOfSeq
  <2>2. front = SubSeq(ids, 1, n)
    BY DEF Front
  <2>3. n >= 0
    BY <1>1
  <2>. HIDE DEF n, front
  <2>4. front \in Seq(Tokens) /\ Len(front) = IF 1 <= n THEN n - 1 + 1 ELSE 0
    BY <2>1, <2>2, SubSeqProperties
  <2>5. Len(front) = n
    BY <2>1, <2>3, <2>4
  <2>. QED
    BY <2>4, <2>5 DEF n
<1>4. front \o <<last>> = ids
  BY <1>1, <1>2 DEF Front, Last
<1>. HIDE DEF front, last
<1>5. (prompt \o front) \o <<last>> = prompt \o (front \o <<last>>)
  BY <1>2, <1>3
<1>6. /\ prompt \o front \in Seq(Tokens) /\ Len(prompt \o front) = Len(prompt) + Len(front)
      /\ prompt \o ids \in Seq(Tokens) /\ Len(prompt \o ids) = Len(prompt) + Len(ids)
  BY <1>3, ConcatProperties
<1>7. Len(prompt \o front) = Len(prompt) + Len(ids) - 1
  BY <1>1, <1>3, <1>6
<1>. QED
  BY <1>1, <1>2, <1>4, <1>5, <1>6, <1>7 DEF front, last

----------------------------------------------------------------------------
(* The inductive invariant, place by place. *)

RunTypes ==
  /\ history \in Seq(Tokens)
  /\ tokens \in Seq(Tokens)
  /\ pending \in BOOLEAN
  /\ pc \in {"absent", "load", "prefill", "decode", "generate", "open tokens",
             "write tokens", "write logits", "exited"}
  /\ exit_status \in {"none", "ok", "error", "aborted", "killed"}
  /\ (exit_status = "none") <=> (pc # "exited")
  /\ args \in Arguments
  /\ generated \in Seq(Tokens)
  /\ generated # <<>> => args.max_new \in Nat /\ Len(generated) <= args.max_new
  /\ failures \subseteq {"load", "memory", "write", "killed"}

Parsed == args.max_new \in -1 .. MaxNew /\ ~Unparsable(args.tokens)

PromptDone ==
  /\ Parsed
  /\ Prompt # <<>>
  /\ Len(Prompt) <= MaxPositions
  /\ logits = Model!LastLogits(Prompt, Len(Prompt))

(* What a call has returned that was to extend past by ts. *)
ReturnedFrom(past, ts) ==
  \/ /\ response.status = "logits"
     /\ ts # <<>> /\ Len(past) + Len(ts) <= MaxPositions
     /\ history = past \o ts /\ health = "sound"
     /\ response.logits = Model!LastLogits(history, Len(ts))
  \/ /\ response.status = "invalid_argument"
     /\ ts = <<>> \/ Len(past) + Len(ts) > MaxPositions
  \/ response.status = "bad_alloc" /\ "memory" \in failures

AtStart ==
  /\ pc = "absent" => ~pending /\ history = <<>> /\ generated = <<>>
  /\ pc = "load" => ~pending /\ history = <<>> /\ generated = <<>>
                             /\ args.max_new \in -1 .. MaxNew

AtPrefill ==
  pc = "prefill" =>
    /\ Parsed
    /\ generated = <<>>
    /\ pending => tokens = Prompt /\ history = <<>> /\ health = "sound"
    /\ ~pending => ReturnedFrom(<<>>, Prompt)

AtDecode ==
  pc = "decode" =>
    /\ PromptDone
    /\ generated # <<>>
    /\ Len(generated) < args.max_new
    /\ Len(Prompt) + Len(generated) - 1 <= MaxPositions
    /\ pending => /\ tokens = <<Last(generated)>>
                  /\ history = Prompt \o Front(generated)
                  /\ health = "sound"
    /\ ~pending => ReturnedFrom(Prompt \o Front(generated), <<Last(generated)>>)

AtGenerate ==
  pc = "generate" =>
    /\ PromptDone
    /\ ~pending
    /\ Len(generated) < args.max_new
    /\ Len(Prompt) + Len(generated) <= MaxPositions
    /\ history = Prompt \o generated
    /\ health = "sound"
    /\ \E k \in 1 .. Len(history) : step_logits = Model!LastLogits(history, k)

AllGenerated ==
  /\ Len(generated) = IF args.max_new > 0 THEN args.max_new ELSE 0
  /\ args.max_new > 0 => Len(Prompt) + args.max_new - 1 <= MaxPositions

AtEnd ==
  /\ pc \in {"open tokens", "write tokens", "write logits"} => PromptDone /\ AllGenerated
  /\ pc \in {"open tokens", "write tokens"} => args.max_new > 0 /\ args.tokens_out
  /\ exit_status = "ok" => PromptDone /\ AllGenerated

LogitsWritten ==
  exit_status = "ok" /\ "write" \notin failures /\ args.logits =>
    logits_file = Whole(Model!LastLogits(Prompt, Len(Prompt)))

ErrorsHaveReasons ==
  exit_status = "error" /\ failures \subseteq {"write"} => ~Fits

RunInv ==
  /\ RunTypes
  /\ AtStart
  /\ AtPrefill
  /\ AtDecode
  /\ AtGenerate
  /\ AtEnd
  /\ GeneratedIsGreedy
  /\ LogitsWritten
  /\ ErrorsHaveReasons

LEMMA InitRunInv == Init => RunInv
<1>1. SUFFICES ASSUME Init PROVE RunInv
  OBVIOUS
<1>. USE <1>1
<1>2. /\ history = <<>> /\ tokens = <<>> /\ pending = FALSE /\ pc = "absent"
      /\ exit_status = "none" /\ args = NoArgs /\ generated = <<>> /\ failures = {}
  BY DEF Init, Model!Init
<1>3. NoArgs \in Arguments
  <2>1. <<Blank>> \in [1 .. 1 -> Fields]
    BY DEF Fields
  <2>2. <<Blank>> \in Texts
    BY <2>1, Limits DEF Texts
  <2>. QED
    BY <2>2, Limits DEF NoArgs, Arguments
<1>4. RunTypes
  <2>1. args \in Arguments
    BY <1>2, <1>3
  <2>2. /\ history \in Seq(Tokens) /\ tokens \in Seq(Tokens) /\ generated \in Seq(Tokens)
        /\ failures \subseteq {"load", "memory", "write", "killed"}
    BY <1>2
  <2>. QED
    BY <1>2, <2>1, <2>2 DEF RunTypes
<1>. QED
  BY <1>2, <1>4 DEF RunInv, AtStart, AtPrefill, AtDecode, AtGenerate, AtEnd,
     GeneratedIsGreedy, LogitsWritten, ErrorsHaveReasons

----------------------------------------------------------------------------
(* The steps. *)

LEMMA ExecInv ==
  ASSUME RunInv, NEW arguments \in Arguments, Exec(arguments)
  PROVE  RunInv'
<1>. USE DEF RunInv, Exec, Exit, Goto, object
<1>1. /\ arguments.max_new \in (-1 .. MaxNew) \cup {OutOfRange}
      /\ generated = <<>> /\ ~pending /\ history = <<>>
  BY DEF Arguments, AtStart
<1>2. RunTypes'
  BY <1>1 DEF RunTypes
<1>3. AtStart' /\ AtPrefill' /\ AtDecode' /\ AtGenerate' /\ AtEnd'
  BY <1>1 DEF AtStart, AtPrefill, AtDecode, AtGenerate, AtEnd, RunTypes
<1>4. GeneratedIsGreedy'
  BY <1>1 DEF GeneratedIsGreedy
<1>5. LogitsWritten' /\ ErrorsHaveReasons'
  BY DEF LogitsWritten, ErrorsHaveReasons, RunTypes
<1>. QED
  BY <1>2, <1>3, <1>4, <1>5

LEMMA CallPrefillInv ==
  ASSUME RunInv, CallPrefill
  PROVE  RunInv'
<1>. USE DEF RunInv, CallPrefill, Goto, locals, files, Model!Prefill
<1>1. /\ pc = "load" /\ pc' = "prefill" /\ exit_status' = exit_status
      /\ args' = args /\ generated' = generated /\ failures' = failures
      /\ logits' = logits /\ step_logits' = step_logits /\ logits_file' = logits_file
      /\ ~Unparsable(args.tokens) /\ pending' = TRUE /\ tokens' = Items(args.tokens)
      /\ history' = <<>> /\ health' = "sound"
  OBVIOUS
<1>2. generated = <<>> /\ args.max_new \in -1 .. MaxNew
  BY <1>1 DEF AtStart
<1>3. Items(args.tokens) \in Seq(Tokens)
  BY <1>1, ParsedTokens DEF RunTypes, Arguments
<1>4. RunTypes'
  BY <1>1, <1>3 DEF RunTypes
<1>5. AtStart' /\ AtPrefill' /\ AtDecode' /\ AtGenerate' /\ AtEnd'
  BY <1>1, <1>2 DEF AtStart, AtPrefill, AtDecode, AtGenerate, AtEnd, RunTypes, Parsed, Prompt
<1>6. GeneratedIsGreedy'
  BY <1>1, <1>2 DEF GeneratedIsGreedy
<1>7. LogitsWritten' /\ ErrorsHaveReasons'
  BY <1>1 DEF LogitsWritten, ErrorsHaveReasons, RunTypes
<1>. QED
  BY <1>4, <1>5, <1>6, <1>7

LEMMA RejectPromptInv ==
  ASSUME RunInv, RejectPrompt
  PROVE  RunInv'
<1>. USE DEF RunInv, RejectPrompt, Exit, object, locals, files
<1>1. RunTypes'
  BY DEF RunTypes
<1>2. AtStart' /\ AtPrefill' /\ AtDecode' /\ AtGenerate' /\ AtEnd'
  BY DEF AtStart, AtPrefill, AtDecode, AtGenerate, AtEnd, RunTypes
<1>3. GeneratedIsGreedy' /\ LogitsWritten' /\ ErrorsHaveReasons'
  BY DEF GeneratedIsGreedy, LogitsWritten, ErrorsHaveReasons, Fits, Prompt
<1>. QED
  BY <1>1, <1>2, <1>3

(* What the object answers, from the token history.                        *)
LEMMA AnswerReturns ==
  ASSUME NEW past \in Seq(Tokens), NEW ts \in Seq(Tokens),
         history = past, tokens = ts, health = "sound",
         Model!Answer \/ Model!Reject, failures' = failures
  PROVE  ReturnedFrom(past, ts)'
<1>1. CASE Model!Answer
  <2>1. /\ ts # <<>> /\ Len(past) + Len(ts) <= MaxPositions /\ history' = past \o ts
        /\ health' = "sound"
        /\ response' = [status |-> "logits", logits |-> Model!LastLogits(history', Len(ts))]
    BY <1>1 DEF Model!Answer, Model!Servable, Model!Answered
  <2>. QED
    BY <2>1 DEF ReturnedFrom
<1>2. CASE Model!Reject
  <2>1. response'.status = "invalid_argument" /\ ~(ts # <<>> /\ Len(past) + Len(ts) <= MaxPositions)
    BY <1>2 DEF Model!Reject, Model!Servable, Model!InvalidArgument
  <2>2. Len(past) \in Nat /\ Len(ts) \in Nat
    BY LenProperties
  <2>. QED
    BY <2>1, <2>2, Limits DEF ReturnedFrom
<1>. QED
  BY <1>1, <1>2

LEMMA ModelReturnsInv ==
  ASSUME RunInv, ModelReturns
  PROVE  RunInv'
<1>. USE DEF RunInv
<1>1. /\ pc \in {"prefill", "decode"} /\ pending /\ pending' = FALSE /\ tokens' = <<>>
      /\ UNCHANGED <<pc, args, logits, step_logits, generated, token_file, logits_file, exit_status>>
      /\ history' = history \/ history' = history \o tokens
      /\ failures' = failures \/ failures' = failures \cup {"memory"}
  BY DEF ModelReturns, locals, files, Model!Answer, Model!Reject, Model!OutOfMemory, Model!Returns
<1>2. RunTypes'
  <2>1. history \in Seq(Tokens) /\ tokens \in Seq(Tokens)
    BY DEF RunTypes
  <2>2. history \o tokens \in Seq(Tokens)
    BY <2>1, ConcatProperties
  <2>3. history' \in Seq(Tokens)
    BY <1>1, <2>1, <2>2, Zenon
  <2>4. tokens' \in Seq(Tokens)
    BY <1>1
  <2>. QED
    BY <1>1, <2>3, <2>4 DEF RunTypes
<1>3. ASSUME NEW past \in Seq(Tokens), NEW ts \in Seq(Tokens),
             history = past, tokens = ts, health = "sound"
      PROVE  ReturnedFrom(past, ts)'
  <2>1. CASE (Model!Answer \/ Model!Reject) /\ failures' = failures
    BY <1>3, <2>1, AnswerReturns
  <2>2. CASE Model!OutOfMemory /\ failures' = failures \cup {"memory"}
    BY <2>2 DEF Model!OutOfMemory, Model!BadAlloc, ReturnedFrom
  <2>. QED
    BY <2>1, <2>2 DEF ModelReturns
<1>4. AtPrefill'
  <2>1. SUFFICES ASSUME pc = "prefill" PROVE AtPrefill'
    BY <1>1 DEF AtPrefill
  <2>2. Parsed /\ generated = <<>> /\ tokens = Prompt /\ history = <<>> /\ health = "sound"
    BY <1>1, <2>1 DEF AtPrefill
  <2>3. tokens \in Seq(Tokens) /\ history \in Seq(Tokens)
    BY DEF RunTypes
  <2>4. ReturnedFrom(<<>>, Prompt)'
    <3>1. Prompt \in Seq(Tokens) /\ <<>> \in Seq(Tokens)
      BY <2>2, <2>3
    <3>. QED
      BY <1>1, <1>3, <2>2, <3>1 DEF ReturnedFrom, Prompt
  <2>. QED
    BY <1>1, <2>2, <2>4 DEF AtPrefill, Parsed
<1>5. AtDecode'
  <2>1. SUFFICES ASSUME pc = "decode" PROVE AtDecode'
    BY <1>1 DEF AtDecode
  <2> DEFINE past == Prompt \o Front(generated)
             ts   == <<Last(generated)>>
  <2>2. /\ PromptDone /\ generated # <<>> /\ Len(generated) < args.max_new
        /\ Len(Prompt) + Len(generated) - 1 <= MaxPositions
        /\ tokens = ts /\ history = past /\ health = "sound"
    BY <1>1, <2>1 DEF AtDecode
  <2>3. past \in Seq(Tokens) /\ ts \in Seq(Tokens)
    BY <2>2 DEF RunTypes
  <2>4. past' = past /\ ts' = ts
    BY <1>1 DEF Prompt
  <2>5. ReturnedFrom(past, ts)'
    <3>. HIDE DEF past, ts
    <3>. QED
      BY <1>3, <2>2, <2>3, <2>4 DEF ReturnedFrom
  <2>. QED
    BY <1>1, <2>1, <2>2, <2>5 DEF AtDecode, PromptDone, Parsed, Prompt
<1>6. AtStart' /\ AtGenerate' /\ AtEnd'
  BY <1>1 DEF AtStart, AtGenerate, AtEnd, RunTypes
<1>7. GeneratedIsGreedy'
  BY <1>1 DEF GeneratedIsGreedy, Prompt
<1>8. LogitsWritten' /\ ErrorsHaveReasons'
  BY <1>1 DEF LogitsWritten, ErrorsHaveReasons, RunTypes
<1>. QED
  BY <1>2, <1>4, <1>5, <1>6, <1>7, <1>8

LEMMA TakePrefillInv ==
  ASSUME RunInv, TakePrefill
  PROVE  RunInv'
<1>. USE DEF RunInv
<1>1. /\ pc = "prefill" /\ ~pending /\ response.status = "logits"
      /\ logits' = response.logits /\ step_logits' = response.logits
      /\ pc' = IF args.max_new > 0 THEN "generate" ELSE "write logits"
      /\ UNCHANGED <<exit_status, history, health, pending, tokens, response, args,
                     generated, token_file, logits_file, failures>>
  BY DEF TakePrefill, Returned, Goto, object, files
<1>2. /\ Parsed /\ generated = <<>> /\ Prompt # <<>> /\ Len(<<>>) + Len(Prompt) <= MaxPositions
      /\ history = <<>> \o Prompt /\ health = "sound"
      /\ response.logits = Model!LastLogits(history, Len(Prompt))
  BY <1>1 DEF AtPrefill, ReturnedFrom
<1>3. Prompt \in Seq(Tokens) /\ args.max_new \in -1 .. MaxNew
  BY <1>2, ParsedTokens DEF Parsed, Prompt, RunTypes, Arguments
<1>4. /\ Len(Prompt) \in Nat /\ Len(Prompt) > 0 /\ Len(Prompt) <= MaxPositions
      /\ history = Prompt
  BY <1>2, <1>3
<1>5. PromptDone'
  BY <1>1, <1>2, <1>4 DEF PromptDone, Parsed, Prompt
<1>6. Len(generated) = 0
  BY <1>2
<1>7. AtGenerate'
  <2>1. SUFFICES ASSUME args.max_new > 0 PROVE AtGenerate'
    BY <1>1 DEF AtGenerate
  <2>2. Prompt \o <<>> = Prompt
    BY <1>3
  <2>3. Len(Prompt) \in 1 .. Len(history)
    BY <1>4
  <2>5. step_logits' = Model!LastLogits(history, Len(Prompt))
    BY <1>1, <1>2
  <2>4. history = Prompt \o generated /\ Len(generated) < args.max_new
        /\ Len(Prompt) + Len(generated) <= MaxPositions
    BY <1>2, <1>4, <1>6, <2>1, <2>2
  <2>. QED
    BY <1>1, <1>2, <1>5, <2>3, <2>4, <2>5 DEF AtGenerate, Prompt
<1>8. AtEnd'
  <2>1. SUFFICES ASSUME ~(args.max_new > 0) PROVE AtEnd'
    BY <1>1 DEF AtEnd, RunTypes
  <2>2. AllGenerated'
    BY <1>1, <1>6, <2>1 DEF AllGenerated
  <2>. QED
    BY <1>1, <1>5, <2>1, <2>2 DEF AtEnd, RunTypes
<1>9. RunTypes'
  BY <1>1 DEF RunTypes
<1>10. AtStart' /\ AtPrefill' /\ AtDecode'
  BY <1>1 DEF AtStart, AtPrefill, AtDecode
<1>11. GeneratedIsGreedy' /\ LogitsWritten' /\ ErrorsHaveReasons'
  BY <1>1 DEF GeneratedIsGreedy, LogitsWritten, ErrorsHaveReasons, RunTypes, Prompt
<1>. QED
  BY <1>7, <1>8, <1>9, <1>10, <1>11

LEMMA TakeDecodeInv ==
  ASSUME RunInv, TakeDecode
  PROVE  RunInv'
<1>. USE DEF RunInv
<1>1. /\ pc = "decode" /\ ~pending /\ response.status = "logits"
      /\ step_logits' = response.logits /\ pc' = "generate"
      /\ UNCHANGED <<exit_status, history, health, pending, tokens, response, args, logits,
                     generated, token_file, logits_file, failures>>
  BY DEF TakeDecode, Returned, Goto, object, files
<1> DEFINE past == Prompt \o Front(generated)
           ts   == <<Last(generated)>>
<1>2. /\ PromptDone /\ generated # <<>> /\ Len(generated) < args.max_new
      /\ Len(past) + Len(ts) <= MaxPositions /\ history = past \o ts /\ health = "sound"
      /\ response.logits = Model!LastLogits(history, Len(ts))
  <2>. HIDE DEF past, ts
  <2>. QED
    BY <1>1 DEF AtDecode, ReturnedFrom, past, ts
<1>3. Prompt \in Seq(Tokens) /\ generated \in Seq(Tokens)
  BY <1>2, ParsedTokens DEF PromptDone, Parsed, Prompt, RunTypes, Arguments
<1>4. /\ past \o ts = Prompt \o generated
      /\ Len(past) = Len(Prompt) + Len(generated) - 1
      /\ Len(Prompt \o generated) = Len(Prompt) + Len(generated)
      /\ Len(Prompt) \in Nat /\ Len(generated) \in Nat /\ Len(generated) > 0
  BY <1>2, <1>3, Extended
<1>5. Len(ts) = 1
  OBVIOUS
<1>. HIDE DEF past, ts
<1>6. /\ history = Prompt \o generated
      /\ Len(Prompt) + Len(generated) <= MaxPositions
      /\ 1 \in 1 .. Len(history)
      /\ step_logits' = Model!LastLogits(history, 1)
  BY <1>1, <1>2, <1>4, <1>5
<1>7. PromptDone'
  BY <1>1, <1>2 DEF PromptDone, Parsed, Prompt
<1>8. AtGenerate'
  BY <1>1, <1>2, <1>6, <1>7 DEF AtGenerate, Prompt
<1>9. RunTypes' /\ AtStart' /\ AtPrefill' /\ AtDecode'
  BY <1>1 DEF RunTypes, AtStart, AtPrefill, AtDecode
<1>10. AtEnd'
  BY <1>1 DEF AtEnd, RunTypes
<1>11. GeneratedIsGreedy' /\ LogitsWritten' /\ ErrorsHaveReasons'
  BY <1>1 DEF GeneratedIsGreedy, LogitsWritten, ErrorsHaveReasons, RunTypes, Prompt
<1>. QED
  BY <1>8, <1>9, <1>10, <1>11

LEMMA CatchExceptionInv ==
  ASSUME RunInv, CatchException
  PROVE  RunInv'
<1>. USE DEF RunInv
<1>1. /\ pc \in {"prefill", "decode"} /\ ~pending /\ response.status # "logits"
      /\ pc' = "exited" /\ exit_status' = "error"
      /\ UNCHANGED <<history, health, pending, tokens, response, args, logits, step_logits,
                     generated, token_file, logits_file, failures>>
  BY DEF CatchException, Returned, Threw, Exit, object, locals, files
<1>2. RunTypes' /\ AtStart' /\ AtPrefill' /\ AtDecode' /\ AtGenerate' /\ AtEnd'
  BY <1>1 DEF RunTypes, AtStart, AtPrefill, AtDecode, AtGenerate, AtEnd
<1>3. GeneratedIsGreedy' /\ LogitsWritten'
  BY <1>1 DEF GeneratedIsGreedy, LogitsWritten, Prompt
<1>4. Fits => "memory" \in failures
  <2>1. CASE pc = "prefill"
    <3>1. Parsed /\ (Prompt = <<>> \/ Len(<<>>) + Len(Prompt) > MaxPositions \/ "memory" \in failures)
      BY <1>1, <2>1 DEF AtPrefill, ReturnedFrom
    <3>2. Prompt \in Seq(Tokens)
      BY <3>1, ParsedTokens DEF Parsed, Prompt, RunTypes, Arguments
    <3>3. Len(Prompt) \in Nat /\ Len(<<>>) = 0
      BY <3>2
    <3>. QED
      BY <3>1, <3>3, Limits DEF Fits
  <2>2. CASE pc = "decode"
    <3> DEFINE past == Prompt \o Front(generated)
               ts   == <<Last(generated)>>
    <3>1. /\ PromptDone /\ generated # <<>> /\ Len(generated) < args.max_new
          /\ ts = <<>> \/ Len(past) + Len(ts) > MaxPositions \/ "memory" \in failures
      <4>. HIDE DEF past, ts
      <4>. QED
        BY <1>1, <2>2 DEF AtDecode, ReturnedFrom, past, ts
    <3>2. Prompt \in Seq(Tokens) /\ generated \in Seq(Tokens) /\ args.max_new \in -1 .. MaxNew
      BY <3>1, ParsedTokens DEF PromptDone, Parsed, Prompt, RunTypes, Arguments
    <3>3. /\ Len(past) = Len(Prompt) + Len(generated) - 1
          /\ Len(Prompt) \in Nat /\ Len(generated) \in Nat /\ Len(generated) > 0
      BY <3>1, <3>2, Extended
    <3>4. Len(ts) = 1 /\ ts # <<>>
      OBVIOUS
    <3>. HIDE DEF past, ts
    <3>5. "memory" \notin failures => Len(Prompt) + Len(generated) > MaxPositions
      BY <3>1, <3>3, <3>4
    <3>. QED
      BY <3>1, <3>2, <3>3, <3>5, Limits DEF Fits
  <2>. QED
    BY <1>1, <2>1, <2>2
<1>5. ErrorsHaveReasons'
  BY <1>1, <1>4 DEF ErrorsHaveReasons, Fits, Prompt
<1>. QED
  BY <1>2, <1>3, <1>5

(* The token chosen from the last row of logits is the greedy one.         *)
LEMMA GreedyToken ==
  ASSUME RunInv, pc = "generate"
  PROVE  /\ NextToken = Argmax(Logits(Hidden(Layers, Prompt \o generated)))
         /\ NextToken \in Tokens
         /\ Prompt \in Seq(Tokens) /\ generated \in Seq(Tokens)
         /\ Len(Prompt) \in Nat /\ Len(generated) \in Nat
         /\ args.max_new \in -1 .. MaxNew
<1>. USE DEF RunInv
<1>1. /\ PromptDone /\ Len(Prompt) + Len(generated) <= MaxPositions
      /\ history = Prompt \o generated
      /\ \E k \in 1 .. Len(history) : step_logits = Model!LastLogits(history, k)
  BY DEF AtGenerate
<1>2. Prompt \in Seq(Tokens) /\ generated \in Seq(Tokens) /\ args.max_new \in -1 .. MaxNew
      /\ Prompt # <<>>
  BY <1>1, ParsedTokens DEF PromptDone, Parsed, Prompt, RunTypes, Arguments
<1>3. /\ Prompt \o generated \in Seq(Tokens)
      /\ Len(Prompt \o generated) = Len(Prompt) + Len(generated)
      /\ Len(Prompt) \in Nat /\ Len(generated) \in Nat /\ Len(Prompt) > 0
  BY <1>2, ConcatProperties
<1>4. PICK k \in 1 .. Len(history) : step_logits = Model!LastLogits(history, k)
  BY <1>1
<1>5. history \in Seq(Tokens)
  BY DEF RunTypes
<1>6. step_logits[Cardinality(DOMAIN step_logits) - 1] = Logits(Hidden(Layers, history))
  BY <1>4, <1>5, LastRow
<1>7. NextToken = Argmax(Logits(Hidden(Layers, history)))
  BY <1>6 DEF NextToken
<1>8. history \in Histories
  <2>1. Len(history) \in 1 .. MaxPositions
    BY <1>1, <1>3, Limits
  <2>2. history \in [1 .. Len(history) -> Tokens]
    BY <1>5
  <2>. QED
    BY <2>1, <2>2 DEF Histories
<1>. QED
  BY <1>1, <1>2, <1>3, <1>7, <1>8, ArgmaxAssumption

(* Both steps that choose a token.                                         *)
LEMMA GeneratedGrows ==
  ASSUME RunInv, pc = "generate", args' = args,
         generated' = Append(generated, NextToken)
  PROVE  /\ GeneratedIsGreedy'
         /\ generated' \in Seq(Tokens) /\ generated' # <<>>
         /\ Len(generated') = Len(generated) + 1
         /\ Len(generated') <= args.max_new
         /\ Last(generated') = NextToken /\ Front(generated') = generated
<1> DEFINE token  == NextToken
           longer == Append(generated, token)
<1>1. /\ token = Argmax(Logits(Hidden(Layers, Prompt \o generated)))
      /\ token \in Tokens /\ Prompt \in Seq(Tokens) /\ generated \in Seq(Tokens)
      /\ Len(generated) \in Nat /\ args.max_new \in -1 .. MaxNew
  BY GreedyToken
<1>. HIDE DEF token
<1>2. /\ longer \in Seq(Tokens) /\ Len(longer) = Len(generated) + 1
      /\ Last(longer) = token /\ Front(longer) = generated
      /\ \A n \in 1 .. Len(generated) :
           /\ longer[n] = generated[n]
           /\ SubSeq(longer, 1, n - 1) = SubSeq(generated, 1, n - 1)
      /\ longer[Len(generated) + 1] = token
      /\ SubSeq(longer, 1, Len(generated)) = generated
  BY <1>1, Appended
<1>3. generated' = longer /\ Prompt' = Prompt
  BY DEF token, Prompt
<1>. HIDE DEF longer
<1>4. ASSUME NEW n \in 1 .. Len(longer)
      PROVE  longer[n] = Argmax(Logits(Hidden(Layers, Prompt \o SubSeq(longer, 1, n - 1))))
  <2>1. CASE n = Len(generated) + 1
    <3>1. n - 1 = Len(generated)
      BY <1>1, <2>1
    <3>. QED
      BY <1>1, <1>2, <2>1, <3>1
  <2>2. CASE n # Len(generated) + 1
    <3>1. n \in 1 .. Len(generated)
      BY <1>1, <1>2, <2>2
    <3>2. generated[n] =
            Argmax(Logits(Hidden(Layers, Prompt \o SubSeq(generated, 1, n - 1))))
      BY <3>1 DEF RunInv, GeneratedIsGreedy
    <3>. QED
      BY <1>2, <3>1, <3>2
  <2>. QED
    BY <2>1, <2>2
<1>5. GeneratedIsGreedy'
  BY <1>3, <1>4 DEF GeneratedIsGreedy
<1>6. Len(generated) < args.max_new
  BY DEF RunInv, AtGenerate
<1>7. longer # <<>> /\ Len(longer) <= args.max_new
  BY <1>1, <1>2, <1>6
<1>. QED
  BY <1>2, <1>3, <1>5, <1>7 DEF token

LEMMA GenerateAndDecodeInv ==
  ASSUME RunInv, GenerateAndDecode
  PROVE  RunInv'
<1>1. /\ pc = "generate" /\ pc' = "decode" /\ Len(generated) + 1 < args.max_new
      /\ generated' = Append(generated, NextToken)
      /\ pending' = TRUE /\ tokens' = <<NextToken>>
      /\ UNCHANGED <<exit_status, history, health, args, logits, step_logits, token_file,
                     logits_file, failures>>
  BY DEF GenerateAndDecode, DecodeWanted, Goto, files, Model!Decode
<1>2. /\ NextToken \in Tokens /\ Len(Prompt) \in Nat /\ Len(generated) \in Nat
      /\ args.max_new \in -1 .. MaxNew /\ args.max_new \in Nat
  BY <1>1, GreedyToken
<1>3. /\ GeneratedIsGreedy'
      /\ generated' \in Seq(Tokens) /\ generated' # <<>>
      /\ Len(generated') = Len(generated) + 1 /\ Len(generated') <= args.max_new
      /\ Last(generated') = NextToken /\ Front(generated') = generated
  BY <1>1, GeneratedGrows
<1>. USE DEF RunInv
<1>4. /\ PromptDone /\ Len(Prompt) + Len(generated) <= MaxPositions
      /\ history = Prompt \o generated /\ health = "sound"
  BY <1>1 DEF AtGenerate
<1>5. RunTypes'
  <2>1. tokens' \in Seq(Tokens)
    BY <1>1, <1>2
  <2>. QED
    BY <1>1, <1>2, <1>3, <2>1 DEF RunTypes
<1>6. PromptDone'
  BY <1>1, <1>4 DEF PromptDone, Parsed, Prompt
<1>7. AtDecode'
  <2>1. Prompt' = Prompt
    BY <1>1 DEF Prompt
  <2>2. Len(generated') < args.max_new /\ Len(Prompt) + Len(generated') - 1 <= MaxPositions
    BY <1>1, <1>2, <1>3, <1>4, Limits
  <2>. QED
    BY <1>1, <1>3, <1>4, <1>6, <2>1, <2>2 DEF AtDecode
<1>8. AtStart' /\ AtPrefill' /\ AtGenerate'
  BY <1>1 DEF AtStart, AtPrefill, AtGenerate
<1>9. AtEnd' /\ LogitsWritten' /\ ErrorsHaveReasons'
  BY <1>1 DEF AtEnd, LogitsWritten, ErrorsHaveReasons, RunTypes
<1>. QED
  BY <1>3, <1>5, <1>7, <1>8, <1>9

LEMMA GenerateLastInv ==
  ASSUME RunInv, GenerateLast
  PROVE  RunInv'
<1>1. /\ pc = "generate" /\ ~(Len(generated) + 1 < args.max_new)
      /\ pc' = IF args.tokens_out THEN "open tokens" ELSE "write logits"
      /\ generated' = Append(generated, NextToken)
      /\ UNCHANGED <<exit_status, history, health, pending, tokens, args, logits,
                     step_logits, token_file, logits_file, failures>>
  BY DEF GenerateLast, DecodeWanted, Goto, files, object
<1>2. /\ Len(Prompt) \in Nat /\ Len(generated) \in Nat
      /\ args.max_new \in -1 .. MaxNew
  BY <1>1, GreedyToken
<1>3. /\ GeneratedIsGreedy'
      /\ generated' \in Seq(Tokens) /\ generated' # <<>>
      /\ Len(generated') = Len(generated) + 1 /\ Len(generated') <= args.max_new
  BY <1>1, GeneratedGrows
<1>. USE DEF RunInv
<1>4. /\ PromptDone /\ Len(Prompt) + Len(generated) <= MaxPositions
      /\ Len(generated) < args.max_new
  BY <1>1 DEF AtGenerate
<1>5. RunTypes'
  <2>1. args.max_new \in Nat
    BY <1>2, <1>4
  <2>. QED
    BY <1>1, <1>3, <2>1 DEF RunTypes
<1>6. PromptDone'
  BY <1>1, <1>4 DEF PromptDone, Parsed, Prompt
<1>7. args.max_new > 0 /\ Len(generated') = args.max_new
      /\ Len(Prompt) + args.max_new - 1 <= MaxPositions
  <2> DEFINE m == args.max_new
             n == Len(generated)
             p == Len(Prompt)
  <2>1. n \in Nat /\ m \in -1 .. MaxNew /\ p \in Nat
    BY <1>2
  <2>2. MaxPositions \in Nat /\ MaxNew \in Nat /\ Len(generated') = n + 1
    BY <1>3, Limits
  <2>3. ~(n + 1 < m)
    BY <1>1
  <2>4. n < m /\ p + n <= MaxPositions
    BY <1>4
  <2>. HIDE DEF m, n, p
  <2>5. m > 0 /\ n + 1 = m /\ p + m - 1 <= MaxPositions
    BY <2>1, <2>2, <2>3, <2>4
  <2>. QED
    BY <2>2, <2>5 DEF m, p
<1>8. AllGenerated'
  BY <1>1, <1>7 DEF AllGenerated, Prompt
<1>9. AtEnd'
  BY <1>1, <1>6, <1>7, <1>8 DEF AtEnd, RunTypes
<1>10. AtStart' /\ AtPrefill' /\ AtDecode' /\ AtGenerate'
  BY <1>1 DEF AtStart, AtPrefill, AtDecode, AtGenerate
<1>11. LogitsWritten' /\ ErrorsHaveReasons'
  BY <1>1 DEF LogitsWritten, ErrorsHaveReasons, RunTypes
<1>. QED
  BY <1>3, <1>5, <1>9, <1>10, <1>11

(* The output files and the end.                                           *)
LEMMA OutputsInv ==
  ASSUME RunInv, OpenTokens \/ WriteTokens
  PROVE  RunInv'
<1>1. /\ pc \in {"open tokens", "write tokens"} /\ pc' \in {"write tokens", "write logits"}
      /\ failures' = failures \/ failures' = failures \cup {"write"}
      /\ UNCHANGED <<exit_status, history, health, pending, tokens, response, args, logits,
                     step_logits, generated, logits_file>>
  BY DEF OpenTokens, WriteTokens, Goto, object, locals
<1>. USE DEF RunInv
<1>2. PromptDone' /\ AllGenerated' /\ args.max_new > 0 /\ args.tokens_out
  BY <1>1 DEF AtEnd, PromptDone, AllGenerated, Parsed, Prompt
<1>3. RunTypes' /\ AtStart' /\ AtPrefill' /\ AtDecode' /\ AtGenerate'
  BY <1>1 DEF RunTypes, AtStart, AtPrefill, AtDecode, AtGenerate
<1>4. AtEnd' /\ LogitsWritten' /\ ErrorsHaveReasons'
  BY <1>1, <1>2 DEF AtEnd, LogitsWritten, ErrorsHaveReasons, RunTypes
<1>5. GeneratedIsGreedy'
  BY <1>1 DEF GeneratedIsGreedy, Prompt
<1>. QED
  BY <1>3, <1>4, <1>5

LEMMA WriteLogitsInv ==
  ASSUME RunInv, WriteLogits
  PROVE  RunInv'
<1>1. /\ pc = "write logits" /\ pc' = "exited" /\ exit_status' = "ok"
      /\ failures' = failures \/ failures' = failures \cup {"write"}
      /\ args.logits /\ "write" \notin failures' => logits_file' = Whole(logits)
      /\ UNCHANGED <<history, health, pending, tokens, response, args, logits,
                     step_logits, generated, token_file>>
  BY DEF WriteLogits, Exit, object, locals, PromptLogits
<1>. USE DEF RunInv
<1>2. PromptDone /\ PromptDone' /\ AllGenerated'
  BY <1>1 DEF AtEnd, PromptDone, AllGenerated, Parsed, Prompt
<1>3. RunTypes' /\ AtStart' /\ AtPrefill' /\ AtDecode' /\ AtGenerate'
  BY <1>1 DEF RunTypes, AtStart, AtPrefill, AtDecode, AtGenerate
<1>4. AtEnd' /\ ErrorsHaveReasons'
  BY <1>1, <1>2 DEF AtEnd, ErrorsHaveReasons
<1>5. GeneratedIsGreedy'
  BY <1>1 DEF GeneratedIsGreedy, Prompt
<1>6. LogitsWritten'
  BY <1>1, <1>2 DEF LogitsWritten, PromptDone, Prompt
<1>. QED
  BY <1>3, <1>4, <1>5, <1>6

LEMMA FailureInv ==
  ASSUME RunInv, Failure
  PROVE  RunInv'
<1>1. /\ pc \notin {"absent", "exited"} /\ pc' = "exited" /\ exit_status' \in {"error", "killed"}
      /\ \E f \in {"load", "memory", "killed"} : failures' = failures \cup {f}
      /\ UNCHANGED <<history, health, pending, tokens, response, args, logits,
                     step_logits, generated>>
  BY DEF Failure, LoadFails, OutOfMemory, Killed, Returned, Exit, object, locals
<1>. USE DEF RunInv
<1>2. RunTypes' /\ AtStart' /\ AtPrefill' /\ AtDecode' /\ AtGenerate'
  BY <1>1 DEF RunTypes, AtStart, AtPrefill, AtDecode, AtGenerate
<1>3. AtEnd' /\ ErrorsHaveReasons' /\ LogitsWritten'
  BY <1>1 DEF AtEnd, ErrorsHaveReasons, LogitsWritten
<1>4. GeneratedIsGreedy'
  BY <1>1 DEF GeneratedIsGreedy, Prompt
<1>. QED
  BY <1>2, <1>3, <1>4

LEMMA ProgressInv ==
  ASSUME RunInv, Progress \/ Failure
  PROVE  RunInv'
BY CallPrefillInv, RejectPromptInv, ModelReturnsInv, TakePrefillInv, TakeDecodeInv,
   CatchExceptionInv, GenerateAndDecodeInv, GenerateLastInv, OutputsInv, WriteLogitsInv,
   FailureInv DEF Progress

(* The files of the parameter's content do not matter to RunInv.           *)
LEMMA StutterInv ==
  ASSUME RunInv, UNCHANGED <<object, pc, locals, logits_file, exit_status, failures>>
  PROVE  RunInv'
BY DEF object, locals, RunInv, RunTypes, AtStart, AtPrefill, AtDecode, AtGenerate, AtEnd,
   GeneratedIsGreedy, LogitsWritten, ErrorsHaveReasons, ReturnedFrom, PromptDone, Parsed,
   AllGenerated, Fits, Prompt

LEMMA RunNextInv == RunInv /\ [Next]_vars => RunInv'
<1>1. CASE UNCHANGED vars
  BY <1>1, StutterInv DEF vars, files
<1>. QED
  BY <1>1, ExecInv, ProgressInv DEF Next

(* Where a run of qwen3_run stands, what the model object has taken in and *)
(* returned, and what was generated, fit together in every reachable       *)
(* state.                                                                  *)
THEOREM RunInvariance == Spec => []RunInv
<1>. QED
  BY InitRunInv, RunNextInv, PTL DEF Spec

(* The loop of main.cpp generates greedily: each token is the argmax of    *)
(* the cache-free decoder for the prompt and the tokens before it.         *)
THEOREM Greedy == Spec => []GeneratedIsGreedy
<1>1. RunInv => GeneratedIsGreedy
  BY DEF RunInv
<1>. QED
  BY <1>1, RunInvariance, PTL

(* A run that loses nothing but writes succeeds exactly if prompt and      *)
(* generated tokens have positions.                                        *)
THEOREM SuccessIfFits == Spec => []UndisturbedRunsSucceedIfTheyFit
<1>1. RunInv => UndisturbedRunsSucceedIfTheyFit
  <2>1. SUFFICES ASSUME RunInv PROVE UndisturbedRunsSucceedIfTheyFit
    OBVIOUS
  <2>2. exit_status = "ok" => Fits
    BY <2>1 DEF RunInv, AtEnd, PromptDone, AllGenerated, Parsed, Fits
  <2>3. exit_status = "error" /\ failures \subseteq {"write"} => ~Fits
    BY <2>1 DEF RunInv, ErrorsHaveReasons
  <2>. QED
    BY <2>2, <2>3 DEF UndisturbedRunsSucceedIfTheyFit
<1>. QED
  BY <1>1, RunInvariance, PTL

----------------------------------------------------------------------------
(* The token file, which starts as before: absent, or empty when a script  *)
(* has made it.                                                            *)

FileTypes == token_file \in Seq(Tokens \cup {Blank})

TokenFile(before) ==
  /\ pc \in {"absent", "load", "prefill", "decode", "generate", "open tokens"} =>
       token_file = before
  /\ "write" \notin failures /\ (pc = "write logits" \/ exit_status = "ok") =>
       token_file = IF args.max_new > 0 /\ args.tokens_out THEN generated ELSE before
  /\ token_file # before =>
       /\ Len(generated) = args.max_new
       /\ token_file \in {<<Blank>>, generated} \cup CutOff(generated)

LEMMA WriteTokensFile ==
  ASSUME RunInv
  PROVE  pc = "write tokens" =>
           /\ generated \in Seq(Tokens) /\ generated # <<>> /\ Joined(generated) = generated
           /\ Len(generated) = args.max_new /\ args.max_new > 0 /\ args.tokens_out
<1>1. pc = "write tokens" =>
        /\ generated \in Seq(Tokens) /\ Len(generated) = args.max_new /\ args.max_new > 0
        /\ args.tokens_out
  BY DEF RunInv, RunTypes, AtEnd, AllGenerated
<1>2. Len(generated) = args.max_new /\ args.max_new > 0 => generated # <<>>
  <2>1. Len(<<>>) = 0
    OBVIOUS
  <2>. QED
    BY <2>1
<1>3. generated # <<>> => Joined(generated) = generated
  BY DEF Joined
<1>. QED
  BY <1>1, <1>2, <1>3

LEMMA EmptyText == Joined(<<>>) = <<Blank>> /\ <<Blank>> \in Seq(Tokens \cup {Blank})
BY DEF Joined

LEMMA FileTypesKept ==
  ASSUME RunInv, FileTypes, Progress \/ Failure
  PROVE  FileTypes'
<1>1. CASE UNCHANGED token_file
  BY <1>1 DEF FileTypes
<1>2. CASE OpenTokens
  BY <1>2, EmptyText DEF OpenTokens, FileTypes
<1>3. CASE WriteTokens
  <2>1. generated \in Seq(Tokens) /\ Joined(generated) \in Seq(Tokens \cup {Blank})
    BY <1>3, WriteTokensFile, JoinedTokens DEF WriteTokens
  <2>. QED
    BY <1>3, <2>1, CutOffTokens DEF WriteTokens, FileTypes
<1>4. CASE Killed
  <2>1. generated \in Seq(Tokens) /\ Joined(generated) \in Seq(Tokens \cup {Blank})
    BY JoinedTokens DEF RunInv, RunTypes
  <2>. QED
    BY <1>4, <2>1, CutOffTokens DEF Killed, FileTypes, files
<1>. QED
  BY <1>1, <1>2, <1>3, <1>4 DEF Progress, Failure, CallPrefill, RejectPrompt, ModelReturns,
     TakePrefill, TakeDecode, CatchException, GenerateAndDecode, GenerateLast, WriteLogits,
     LoadFails, OutOfMemory, files

LEMMA TokenFileKept ==
  ASSUME RunInv, NEW before, TokenFile(before), Progress \/ Failure
  PROVE  TokenFile(before)'
<1>. USE DEF RunInv
<1>1. CASE OpenTokens
  <2>1. /\ pc = "open tokens" /\ exit_status' = exit_status
        /\ generated' = generated /\ args' = args
        /\ \/ pc' = "write tokens" /\ token_file' = <<Blank>>
           \/ pc' = "write logits" /\ "write" \in failures' /\ token_file' = token_file
    BY <1>1, EmptyText DEF OpenTokens, Goto, locals
  <2>2. exit_status = "none" /\ Len(generated) = args.max_new
    BY <2>1 DEF RunTypes, AtEnd, AllGenerated
  <2>. QED
    BY <2>1, <2>2 DEF TokenFile
<1>2. CASE WriteTokens
  <2>1. /\ pc = "write tokens" /\ pc' = "write logits"
        /\ generated' = generated /\ args' = args
        /\ \/ token_file' = Joined(generated)
           \/ token_file' \in CutOff(generated) /\ "write" \in failures'
    BY <1>2 DEF WriteTokens, Goto, locals
  <2>2. token_file' \in {generated} \cup CutOff(generated)
        /\ ("write" \notin failures' => token_file' = generated)
        /\ Len(generated) = args.max_new /\ args.max_new > 0 /\ args.tokens_out
    BY <2>1, WriteTokensFile
  <2>. QED
    BY <2>1, <2>2 DEF TokenFile
<1>3. CASE WriteLogits
  <2>1. /\ pc = "write logits" /\ pc' = "exited" /\ token_file' = token_file
        /\ generated' = generated /\ args' = args /\ failures \subseteq failures'
    BY <1>3 DEF WriteLogits, Exit, locals
  <2>. QED
    BY <2>1 DEF TokenFile
<1>4. CASE Failure
  <2>1. /\ pc' = "exited" /\ exit_status' # "ok" /\ generated' = generated /\ args' = args
        /\ \/ token_file' = token_file
           \/ pc = "write tokens" /\ token_file' \in CutOff(generated) \cup {Joined(generated)}
    BY <1>4 DEF Failure, LoadFails, OutOfMemory, Killed, Exit, locals, files
  <2>2. pc = "write tokens" => Len(generated) = args.max_new /\ Joined(generated) = generated
    BY WriteTokensFile
  <2>. QED
    BY <2>1, <2>2 DEF TokenFile
<1>5. CASE CallPrefill \/ ModelReturns \/ TakeDecode \/ GenerateAndDecode
  <2>1. /\ pc \in {"load", "prefill", "decode", "generate"}
        /\ pc' \in {"prefill", "decode", "generate"} /\ token_file' = token_file
        /\ exit_status' = exit_status
    BY <1>5 DEF CallPrefill, ModelReturns, TakeDecode, GenerateAndDecode, Returned, Goto, files
  <2>2. exit_status = "none" /\ token_file = before
    BY <2>1 DEF RunTypes, TokenFile
  <2>. QED
    BY <2>1, <2>2 DEF TokenFile
<1>6. CASE RejectPrompt \/ CatchException
  <2>1. /\ pc \in {"load", "prefill", "decode"} /\ pc' = "exited"
        /\ exit_status' = "error" /\ token_file' = token_file
    BY <1>6 DEF RejectPrompt, CatchException, Returned, Exit, files
  <2>. QED
    BY <2>1 DEF TokenFile
<1>7. CASE TakePrefill
  <2>1. /\ pc = "prefill" /\ pc' = IF args.max_new > 0 THEN "generate" ELSE "write logits"
        /\ args' = args /\ token_file' = token_file /\ exit_status' = exit_status
    BY <1>7 DEF TakePrefill, Goto, files
  <2>2. exit_status = "none" /\ token_file = before
    BY <2>1 DEF RunTypes, TokenFile
  <2>. QED
    BY <2>1, <2>2 DEF TokenFile
<1>8. CASE GenerateLast
  <2>1. /\ pc = "generate" /\ args' = args /\ token_file' = token_file
        /\ pc' = IF args.tokens_out THEN "open tokens" ELSE "write logits"
        /\ exit_status' = exit_status
    BY <1>8 DEF GenerateLast, Goto, files
  <2>2. exit_status = "none" /\ token_file = before
    BY <2>1 DEF RunTypes, TokenFile
  <2>. QED
    BY <2>1, <2>2 DEF TokenFile
<1>. QED
  BY <1>1, <1>2, <1>3, <1>4, <1>5, <1>6, <1>7, <1>8 DEF Progress

LEMMA TokenFileExec ==
  ASSUME RunInv, NEW before, TokenFile(before), NEW arguments, Exec(arguments)
  PROVE  TokenFile(before)'
<1>1. pc = "absent" /\ pc' # "write logits" /\ exit_status' # "ok" /\ token_file' = token_file
      /\ exit_status = "none"
  BY DEF Exec, Exit, Goto, files, RunInv, RunTypes
<1>. QED
  BY <1>1 DEF TokenFile

RunFilesInv == RunInv /\ FileTypes /\ TokenFile(NoFile)

(* The same with the token file, which no earlier run has left.            *)
THEOREM RunFilesInvariance == Spec => []RunFilesInv
<1>1. Init => RunFilesInv
  <2>1. SUFFICES ASSUME Init PROVE FileTypes /\ TokenFile(NoFile)
    BY InitRunInv DEF RunFilesInv
  <2>2. pc = "absent" /\ token_file = NoFile /\ exit_status = "none"
    BY <2>1 DEF Init
  <2>. QED
    BY <2>2 DEF FileTypes, TokenFile, NoFile
<1>2. RunFilesInv /\ [Next]_vars => RunFilesInv'
  <2>1. SUFFICES ASSUME RunFilesInv, [Next]_vars PROVE FileTypes' /\ TokenFile(NoFile)'
    BY RunNextInv DEF RunFilesInv
  <2>2. RunInv /\ FileTypes /\ TokenFile(NoFile)
    BY <2>1 DEF RunFilesInv
  <2>3. CASE \E arguments \in Arguments : Exec(arguments)
    BY <2>2, <2>3, TokenFileExec DEF Exec, files, FileTypes
  <2>4. CASE Progress \/ Failure
    BY <2>2, <2>4, FileTypesKept, TokenFileKept
  <2>5. CASE UNCHANGED vars
    BY <2>2, <2>5 DEF vars, files, locals, FileTypes, TokenFile
  <2>. QED
    BY <2>1, <2>3, <2>4, <2>5 DEF Next
<1>. QED
  BY <1>1, <1>2, PTL DEF Spec

LEMMA TypesFollow ==
  ASSUME RunInv, FileTypes
  PROVE  TypeOK
<1>. USE DEF RunInv
<1>1. \A i \in DOMAIN generated : generated[i] \in Tokens
  BY ElementOfSeq, LenProperties DEF RunTypes
<1>2. \A i \in DOMAIN token_file : token_file[i] \in Tokens \cup {Blank}
  BY ElementOfSeq, LenProperties DEF FileTypes
<1>3. args \in Arguments \cup {NoArgs}
  BY DEF RunTypes
<1>4. generated # <<>> => Len(generated) <= args.max_new
  BY DEF RunTypes
<1>. QED
  BY <1>1, <1>2, <1>3, <1>4 DEF TypeOK, RunTypes

(* Type correctness of a run: what is generated and written are tokens,    *)
(* never more than were asked for, and the exit status comes at the end.   *)
THEOREM TypeCorrect == Spec => []TypeOK
<1>1. RunFilesInv => TypeOK
  BY TypesFollow DEF RunFilesInv
<1>. QED
  BY <1>1, RunFilesInvariance, PTL

(* Output files are written when everything is there, and hold it when the *)
(* run reports success and no write failed.                                *)
THEOREM OutputsComplete == Spec => []OutputsAreComplete
<1>1. RunFilesInv => OutputsAreComplete
  <2>1. SUFFICES ASSUME RunFilesInv PROVE OutputsAreComplete
    OBVIOUS
  <2>. USE <2>1 DEF RunFilesInv, RunInv
  <2>2. token_file # NoFile => Len(generated) = args.max_new
    BY DEF TokenFile
  <2>3. exit_status = "ok" /\ "write" \notin failures =>
          /\ args.logits => logits_file = Whole(Model!LastLogits(Prompt, Len(Prompt)))
          /\ args.max_new > 0 => Len(generated) = args.max_new
          /\ args.max_new > 0 /\ args.tokens_out => token_file = generated
    BY DEF LogitsWritten, AtEnd, AllGenerated, TokenFile
  <2>. QED
    BY <2>2, <2>3 DEF OutputsAreComplete
<1>. QED
  BY <1>1, RunFilesInvariance, PTL

----------------------------------------------------------------------------
(* The script around the program. *)

(* Reading a token file gives the tokens, an empty field at the end none.  *)
LEMMA ReadBack ==
  ASSUME FileTypes, NEW text \in Seq(Tokens), token_file \in {text, Append(text, Blank)}
  PROVE  ReadIds = text
<1> DEFINE Steps(f, m) == f = [n \in 0 .. m |-> IF n = 0 THEN <<>>
                                                ELSE IF token_file[n] = Blank THEN f[n - 1]
                                                ELSE Append(f[n - 1], token_file[n])]
           Possible == {m \in Nat : \E f : Steps(f, m)}
<1>1. 0 \in Possible
  <2>1. Steps([n \in 0 .. 0 |-> <<>>], 0)
    OBVIOUS
  <2>. HIDE DEF Steps
  <2>. QED
    BY <2>1
<1>2. ASSUME NEW m \in Nat, m \in Possible PROVE m + 1 \in Possible
  <2>1. PICK f : Steps(f, m)
    BY <1>2
  <2> DEFINE g == [n \in 0 .. m + 1 |->
                     IF n = m + 1
                     THEN IF token_file[m + 1] = Blank THEN f[m] ELSE Append(f[m], token_file[m + 1])
                     ELSE f[n]]
  <2>2. ASSUME NEW n \in 0 .. m + 1
        PROVE  g[n] = IF n = 0 THEN <<>>
                      ELSE IF token_file[n] = Blank THEN g[n - 1]
                      ELSE Append(g[n - 1], token_file[n])
    <3>1. CASE n = m + 1
      <4>1. n - 1 = m /\ n # 0 /\ m \in 0 .. m + 1 /\ m # m + 1
        BY <3>1
      <4>2. g[n - 1] = f[m]
        BY <4>1
      <4>3. g[n] = IF token_file[n] = Blank THEN f[m] ELSE Append(f[m], token_file[n])
        BY <3>1
      <4>. HIDE DEF g
      <4>. QED
        BY <4>1, <4>2, <4>3
    <3>2. CASE n # m + 1
      <4>1. n \in 0 .. m /\ (n # 0 => n - 1 \in 0 .. m /\ n - 1 \in 0 .. m + 1 /\ n - 1 # m + 1)
        BY <3>2
      <4>2. f[n] = IF n = 0 THEN <<>>
                   ELSE IF token_file[n] = Blank THEN f[n - 1]
                   ELSE Append(f[n - 1], token_file[n])
        BY <2>1, <4>1
      <4>3. g[n] = f[n] /\ (n # 0 => g[n - 1] = f[n - 1])
        BY <3>2, <4>1
      <4>. HIDE DEF g
      <4>. QED
        BY <4>2, <4>3
    <3>. QED
      BY <3>1, <3>2
  <2>3. Steps(g, m + 1)
    BY <2>2
  <2>. HIDE DEF g, Steps
  <2>. QED
    BY <2>3
<1>3. Len(token_file) \in Nat
  BY LenProperties DEF FileTypes
<1>4. Len(token_file) \in Possible
  <2>. HIDE DEF Possible
  <2>. QED
    BY <1>1, <1>2, <1>3, SetInduction
<1> DEFINE F == CHOOSE f : Steps(f, Len(token_file))
<1>5. Steps(F, Len(token_file))
  BY <1>4
<1>6. ReadIds = F[Len(token_file)]
  BY <1>3 DEF ReadIds
<1>. HIDE DEF F
<1>7. \A n \in 0 .. Len(token_file) : F[n] = IF n = 0 THEN <<>>
                                       ELSE IF token_file[n] = Blank THEN F[n - 1]
                                       ELSE Append(F[n - 1], token_file[n])
  BY <1>5
<1>. HIDE DEF Steps, Possible
<1>8. F[0] = <<>>
  BY <1>3, <1>7
<1>9. Len(text) \in Nat /\ Len(text) <= Len(token_file)
  BY LenProperties
<1> DEFINE Read == {n \in Nat : n <= Len(text) => F[n] = SubSeq(text, 1, n)}
<1>10. 0 \in Read
  <2>1. SubSeq(text, 1, 0) = <<>>
    BY SubSeqEmpty
  <2>. QED
    BY <1>8, <2>1
<1>11. ASSUME NEW n \in Nat, n \in Read PROVE n + 1 \in Read
  <2>1. CASE n + 1 <= Len(text)
    <3>1. n + 1 \in 0 .. Len(token_file) /\ n + 1 \in 1 .. Len(text) /\ n + 1 # 0
          /\ (n + 1) - 1 = n /\ n <= Len(text)
      BY <1>3, <1>9, <2>1
    <3>2. token_file[n + 1] = text[n + 1] /\ text[n + 1] # Blank
      BY <3>1, Limits, ElementOfSeq
    <3>3. F[n + 1] = Append(F[n], text[n + 1])
      BY <1>7, <3>1, <3>2
    <3>4. F[n] = SubSeq(text, 1, n)
      BY <1>11, <3>1
    <3>5. Append(SubSeq(text, 1, n), text[n + 1]) = SubSeq(text, 1, n + 1)
      BY <3>1
    <3>. QED
      BY <3>3, <3>4, <3>5
  <2>2. CASE ~(n + 1 <= Len(text))
    BY <2>2
  <2>. QED
    BY <2>1, <2>2
<1>12. Nat \subseteq Read
  <2>. HIDE DEF Read
  <2>. QED
    BY <1>10, <1>11, SetInduction
<1>13. F[Len(text)] = text
  <2>1. F[Len(text)] = SubSeq(text, 1, Len(text))
    BY <1>9, <1>12
  <2>2. SubSeq(text, 1, Len(text)) = text
    OBVIOUS
  <2>. QED
    BY <2>1, <2>2
<1>14. CASE token_file = text
  BY <1>6, <1>13, <1>14
<1>15. CASE token_file = Append(text, Blank)
  <2>1. Len(token_file) = Len(text) + 1 /\ token_file[Len(text) + 1] = Blank
    BY <1>15
  <2>2. Len(text) + 1 \in 0 .. Len(token_file) /\ Len(text) + 1 # 0
        /\ (Len(text) + 1) - 1 = Len(text)
    BY <1>9, <2>1
  <2>3. F[Len(text) + 1] = F[Len(text)]
    BY <1>7, <2>1, <2>2
  <2>. QED
    BY <1>6, <1>13, <2>1, <2>3
<1>. QED
  BY <1>14, <1>15

LEMMA EmptyFile ==
  ASSUME FileTypes, token_file = <<Blank>>
  PROVE  ReadIds = <<>>
<1>1. <<>> \in Seq(Tokens) /\ <<Blank>> = Append(<<>>, Blank)
  OBVIOUS
<1>. QED
  BY <1>1, ReadBack

(* Tokens that agree with the generated ones, the last one excepted: what  *)
(* a file that was cut off gives.                                          *)
BeginsAsGenerated(ids) ==
  /\ ids \in Seq(Tokens)
  /\ Len(ids) <= Len(generated)
  /\ \A n \in 1 .. Len(ids) : n < Len(ids) => ids[n] = generated[n]

LEMMA CutFilesBegin ==
  ASSUME FileTypes, generated \in Seq(Tokens), token_file \in CutOff(generated)
  PROVE  BeginsAsGenerated(ReadIds)
<1>1. CASE \E n \in 1 .. Len(generated) : token_file = SubSeq(generated, 1, n)
  <2>1. PICK n \in 1 .. Len(generated) : token_file = SubSeq(generated, 1, n)
    BY <1>1
  <2>2. token_file \in Seq(Tokens) /\ Len(token_file) = n
        /\ \A m \in 1 .. n : token_file[m] = generated[m]
    BY <2>1
  <2>3. ReadIds = token_file
    BY <2>2, ReadBack
  <2>. QED
    BY <2>2, <2>3 DEF BeginsAsGenerated
<1>2. CASE \E n \in 0 .. Len(generated) - 1, field \in Tokens \cup {Blank} :
             token_file = Append(SubSeq(generated, 1, n), field)
  <2>1. PICK n \in 0 .. Len(generated) - 1, field \in Tokens \cup {Blank} :
               token_file = Append(SubSeq(generated, 1, n), field)
    BY <1>2
  <2> DEFINE whole == SubSeq(generated, 1, n)
  <2>2. /\ whole \in Seq(Tokens) /\ Len(whole) = n
        /\ \A m \in 1 .. n : whole[m] = generated[m]
    BY <2>1
  <2>3. n \in Nat /\ n < Len(generated) /\ Len(generated) \in Nat
    BY <2>1, LenProperties
  <2>4. token_file = Append(whole, field)
    BY <2>1
  <2>. HIDE DEF whole
  <2>5. CASE field = Blank
    <3>1. ReadIds = whole
      BY <2>2, <2>4, <2>5, ReadBack
    <3>. QED
      BY <2>2, <2>3, <3>1 DEF BeginsAsGenerated
  <2>6. CASE field \in Tokens
    <3>1. token_file \in Seq(Tokens) /\ Len(token_file) = n + 1
          /\ \A m \in 1 .. n : token_file[m] = generated[m]
      BY <2>2, <2>3, <2>4, <2>6
    <3>2. ReadIds = token_file
      BY <3>1, ReadBack
    <3>. QED
      BY <2>3, <3>1, <3>2 DEF BeginsAsGenerated
  <2>. QED
    BY <2>5, <2>6
<1>. QED
  BY <1>1, <1>2 DEF CutOff

(* The files of a finished program the script has read.                    *)
PrintedTokens ==
  /\ pc = "exited"
  /\ AllGenerated
  /\ args.max_new \in -1 .. MaxNew
  /\ "write" \notin failures => output.ids = generated
  /\ BeginsAsGenerated(output.ids)

RunnerInv ==
  /\ RunInv
  /\ FileTypes
  /\ at \in {"start", "made", "waiting", "done", "raised", "left", "killed"}
  /\ temp <=> at \in {"made", "waiting", "left", "killed"}
  /\ at = "start" => pc = "absent"
  /\ at = "made" => pc = "absent" /\ TokenFile(<<Blank>>)
  /\ at = "waiting" => TokenFile(<<Blank>>) /\ args.tokens_out
  /\ at # "done" => output = NotPrinted
  /\ at = "done" => output.printed /\ PrintedTokens

LEMMA RunnerInitInv == RunnerInit => RunnerInv
<1>1. SUFFICES ASSUME RunnerInit PROVE RunnerInv
  OBVIOUS
<1>2. RunInv
  BY <1>1, InitRunInv DEF RunnerInit
<1>3. FileTypes /\ pc = "absent"
  BY <1>1 DEF RunnerInit, Init, FileTypes, NoFile
<1>. QED
  BY <1>1, <1>2, <1>3 DEF RunnerInit, RunnerInv

(* The steps of the program under the script.                              *)
LEMMA BinaryInv ==
  ASSUME RunnerInv, BinaryStep \/ BinaryFailure
  PROVE  RunnerInv'
<1>. USE DEF RunnerInv
<1>1. Progress \/ Failure
  BY DEF BinaryStep, BinaryFailure
<1>2. at' = at /\ temp' = temp /\ output' = output
  BY DEF BinaryStep, BinaryFailure, script
<1>3. pc \notin {"absent", "exited"} /\ args' = args
  BY <1>1 DEF Progress, Failure, CallPrefill, RejectPrompt, ModelReturns, TakePrefill,
     TakeDecode, CatchException, GenerateAndDecode, GenerateLast, OpenTokens, WriteTokens,
     WriteLogits, LoadFails, OutOfMemory, Killed, Returned, locals
<1>4. RunInv' /\ FileTypes'
  BY <1>1, ProgressInv, FileTypesKept
<1>5. at = "waiting" => TokenFile(<<Blank>>)'
  BY <1>1, TokenFileKept
<1>6. at \notin {"start", "made", "done"}
  BY <1>3 DEF PrintedTokens
<1>. QED
  BY <1>2, <1>3, <1>4, <1>5, <1>6

LEMMA MakeTempFileInv ==
  ASSUME RunnerInv, MakeTempFile
  PROVE  RunnerInv'
<1>. USE DEF RunnerInv
<1>1. RunInv'
  BY StutterInv DEF MakeTempFile
<1>2. FileTypes' /\ token_file' = <<Blank>>
  BY EmptyText DEF MakeTempFile, FileTypes
<1>3. pc' = "absent" /\ exit_status' = "none"
  BY DEF MakeTempFile, RunInv, RunTypes
<1>4. TokenFile(<<Blank>>)'
  BY <1>2, <1>3 DEF TokenFile
<1>. QED
  BY <1>1, <1>2, <1>3, <1>4 DEF MakeTempFile

LEMMA StartBinaryInv ==
  ASSUME RunnerInv, NEW ids \in PromptIds, NEW max_new \in (-1 .. MaxNew) \cup {OutOfRange},
         StartBinary(ids, max_new)
  PROVE  RunnerInv'
<1> DEFINE arguments == [tokens |-> Joined(ids), max_new |-> max_new,
                         tokens_out |-> TRUE, logits |-> FALSE]
<1>. USE DEF RunnerInv
<1>1. /\ Exec(arguments) /\ at = "made" /\ at' = "waiting" /\ temp' = temp /\ output' = output
      /\ args' = arguments /\ token_file' = token_file
  BY DEF StartBinary, Exec, files
<1>2. arguments \in Arguments
  <2>1. PICK n \in 0 .. MaxPrompt : ids \in [1 .. n -> Tokens]
    BY DEF PromptIds
  <2>2. CASE n = 0
    <3>1. ids = <<>>
      BY <2>1, <2>2
    <3>2. Joined(ids) \in [1 .. 1 -> Fields]
      BY <3>1 DEF Joined, Fields
    <3>3. Joined(ids) \in Texts
      BY <3>2, Limits DEF Texts
    <3>. HIDE DEF Joined
    <3>. QED
      BY <3>3 DEF Arguments
  <2>3. CASE n # 0
    <3>1. n \in 1 .. MaxPrompt /\ ids # <<>>
      BY <2>1, <2>3, Limits
    <3>2. Joined(ids) \in [1 .. n -> Fields]
      BY <2>1, <3>1 DEF Joined, Fields
    <3>3. Joined(ids) \in Texts
      BY <3>1, <3>2 DEF Texts
    <3>. QED
      BY <3>3 DEF Arguments
  <2>. QED
    BY <2>2, <2>3
<1>3. arguments.tokens_out
  OBVIOUS
<1>. HIDE DEF arguments
<1>4. RunInv' /\ TokenFile(<<Blank>>)'
  BY <1>1, <1>2, ExecInv, TokenFileExec
<1>. QED
  BY <1>1, <1>3, <1>4 DEF FileTypes

LEMMA PrintOutputInv ==
  ASSUME RunnerInv, PrintOutput
  PROVE  RunnerInv'
<1>. USE DEF RunnerInv
<1>1. /\ at = "waiting" /\ at' = "done" /\ temp' = FALSE /\ token_file' = NoFile
      /\ pc = "exited" /\ exit_status = "ok"
      /\ UNCHANGED <<object, pc, locals, logits_file, exit_status, failures>>
      /\ output' = Printed(ReadIds)
  BY DEF PrintOutput, RunSucceeded, Unlink
<1>2. RunInv' /\ FileTypes'
  BY <1>1, StutterInv DEF FileTypes, NoFile
<1>3. AllGenerated /\ args.max_new \in -1 .. MaxNew /\ generated \in Seq(Tokens)
  BY <1>1 DEF RunInv, AtEnd, PromptDone, Parsed, RunTypes
<1>4. "write" \notin failures => ReadIds = generated
  <2>1. SUFFICES ASSUME "write" \notin failures PROVE ReadIds = generated
    OBVIOUS
  <2>2. token_file = IF args.max_new > 0 THEN generated ELSE <<Blank>>
    BY <1>1, <2>1 DEF TokenFile
  <2>3. CASE args.max_new > 0
    BY <1>3, <2>2, <2>3, ReadBack
  <2>4. CASE ~(args.max_new > 0)
    <3>1. generated = <<>>
      BY <1>3, <2>4 DEF AllGenerated
    <3>. QED
      BY <2>2, <2>4, <3>1, EmptyFile
  <2>. QED
    BY <2>3, <2>4
<1>5. BeginsAsGenerated(ReadIds)
  <2>1. token_file \in {<<Blank>>, generated} \cup CutOff(generated)
    BY <1>1 DEF TokenFile
  <2>2. CASE token_file = <<Blank>>
    BY <1>3, <2>2, EmptyFile, LenProperties DEF BeginsAsGenerated
  <2>3. CASE token_file = generated
    BY <1>3, <2>3, ReadBack DEF BeginsAsGenerated
  <2>4. CASE token_file \in CutOff(generated)
    BY <1>3, <2>4, CutFilesBegin
  <2>. QED
    BY <2>1, <2>2, <2>3, <2>4
<1>6. PrintedTokens'
  <2>1. output'.ids = ReadIds
    BY <1>1 DEF Printed
  <2>. QED
    BY <1>1, <1>3, <1>4, <1>5, <2>1
    DEF PrintedTokens, AllGenerated, BeginsAsGenerated, locals, Prompt
<1>7. output'.printed
  BY <1>1 DEF Printed
<1>. QED
  BY <1>1, <1>2, <1>6, <1>7

LEMMA RaiseErrorInv ==
  ASSUME RunnerInv, RaiseError
  PROVE  RunnerInv'
<1>. USE DEF RunnerInv
<1>1. /\ at \in {"made", "waiting"} /\ at' = "raised" /\ temp' = FALSE /\ token_file' = NoFile
      /\ UNCHANGED <<object, pc, locals, logits_file, exit_status, failures>> /\ output' = output
  BY DEF RaiseError, Unlink
<1>2. RunInv' /\ FileTypes'
  BY <1>1, StutterInv DEF FileTypes, NoFile
<1>. QED
  BY <1>1, <1>2

LEMMA InterruptedInv ==
  ASSUME RunnerInv, Interrupted
  PROVE  RunnerInv'
<1>. USE DEF RunnerInv
<1>1. /\ at = "waiting" /\ at' = "raised" /\ temp' = FALSE /\ token_file' = NoFile
      /\ pc' = "exited" /\ exit_status' = "killed" /\ failures' = failures \cup {"killed"}
      /\ UNCHANGED <<history, health, pending, tokens, response, args, logits,
                     step_logits, generated, logits_file, output>>
  BY DEF Interrupted, Exit, object, locals
<1>2. FileTypes'
  BY <1>1 DEF FileTypes, NoFile
<1>3. RunInv'
  <2>. USE DEF RunInv
  <2>1. RunTypes' /\ AtStart' /\ AtPrefill' /\ AtDecode' /\ AtGenerate'
    BY <1>1 DEF RunTypes, AtStart, AtPrefill, AtDecode, AtGenerate
  <2>2. AtEnd' /\ ErrorsHaveReasons' /\ LogitsWritten'
    BY <1>1 DEF AtEnd, ErrorsHaveReasons, LogitsWritten
  <2>3. GeneratedIsGreedy'
    BY <1>1 DEF GeneratedIsGreedy, Prompt
  <2>. QED
    BY <2>1, <2>2, <2>3
<1>. QED
  BY <1>1, <1>2, <1>3

LEMMA InterruptedOutsideTryInv ==
  ASSUME RunnerInv, InterruptedOutsideTry
  PROVE  RunnerInv'
<1>. USE DEF RunnerInv
<1>1. /\ at \in {"made", "waiting"} /\ at' = "left" /\ temp' = temp /\ output' = output
      /\ UNCHANGED <<object, pc, locals, logits_file, exit_status, failures, token_file>>
  BY DEF InterruptedOutsideTry, vars, files
<1>2. RunInv' /\ FileTypes'
  BY <1>1, StutterInv DEF FileTypes
<1>. QED
  BY <1>1, <1>2

LEMMA ScriptKilledInv ==
  ASSUME RunnerInv, ScriptKilled
  PROVE  RunnerInv'
<1>. USE DEF RunnerInv
<1>1. /\ at \in {"made", "waiting"} /\ at' = "killed" /\ temp' = temp /\ output' = output
      /\ UNCHANGED <<object, pc, locals, logits_file, exit_status, failures, token_file>>
  BY DEF ScriptKilled, vars, files
<1>2. RunInv' /\ FileTypes'
  BY <1>1, StutterInv DEF FileTypes
<1>. QED
  BY <1>1, <1>2

LEMMA RunnerStutterInv ==
  ASSUME RunnerInv, UNCHANGED all
  PROVE  RunnerInv'
<1>. USE DEF RunnerInv
<1>1. /\ at' = at /\ temp' = temp /\ output' = output
      /\ UNCHANGED <<object, pc, locals, logits_file, exit_status, failures, token_file>>
  BY DEF all, vars, files, script
<1>2. RunInv' /\ FileTypes'
  BY <1>1, StutterInv DEF FileTypes
<1>3. TokenFile(<<Blank>>) => TokenFile(<<Blank>>)'
  BY <1>1 DEF TokenFile, locals
<1>4. PrintedTokens => PrintedTokens'
  BY <1>1 DEF PrintedTokens, AllGenerated, BeginsAsGenerated, locals, Prompt
<1>5. args' = args
  BY <1>1 DEF locals
<1>. QED
  BY <1>1, <1>2, <1>3, <1>4, <1>5

(* The script and the program it runs, in any interleaving: the file the   *)
(* program writes is the empty one the script made, and what is printed is *)
(* what the program generated, unless it lost the file.                    *)
THEOREM RunnerInvariance == RunnerSpec => []RunnerInv
<1>1. RunnerInv /\ [RunnerNext]_all => RunnerInv'
  BY BinaryInv, MakeTempFileInv, StartBinaryInv, PrintOutputInv, RaiseErrorInv,
     InterruptedInv, InterruptedOutsideTryInv, ScriptKilledInv, RunnerStutterInv DEF RunnerNext, ScriptStep
<1>. QED
  BY <1>1, RunnerInitInv, PTL DEF RunnerSpec

(* Type correctness of the script, and of the program under it.            *)
THEOREM RunnerTypes == RunnerSpec => []RunnerTypeOK
<1>1. RunnerInv => RunnerTypeOK
  BY TypesFollow DEF RunnerInv, RunnerTypeOK, NotPrinted
<1>. QED
  BY <1>1, RunnerInvariance, PTL

(* run_qwen3.py prints the greedy continuation of the prompt, as many      *)
(* tokens as were asked for, whatever is killed or fails meanwhile; of a   *)
(* file the program lost or cut without noticing, the beginning, in which  *)
(* only the last token may be wrong.                                       *)
THEOREM PrintedGreedy == RunnerSpec => []PrintedIsGreedy
<1>1. RunnerInv => PrintedIsGreedy
  <2>1. SUFFICES ASSUME RunnerInv, output.printed PROVE PrintedIsGreedy
    BY DEF PrintedIsGreedy
  <2>2. PrintedTokens
    BY <2>1 DEF RunnerInv, NotPrinted
  <2>3. AllGenerated /\ args.max_new \in -1 .. MaxNew /\ GeneratedIsGreedy
    BY <2>1, <2>2 DEF PrintedTokens, RunnerInv, RunInv
  <2>4. Len(generated) = TokensWanted
    BY <2>3, Limits DEF AllGenerated, TokensWanted
  <2>5. generated \in Seq(Tokens) /\ BeginsAsGenerated(output.ids)
        /\ ("write" \notin failures => output.ids = generated)
    BY <2>1, <2>2 DEF PrintedTokens, RunnerInv, RunInv, RunTypes
  <2> DEFINE ids == output.ids
  <2>6. ASSUME NEW n \in 1 .. Len(ids), "write" \notin failures \/ n < Len(ids)
        PROVE  ids[n] = Argmax(Logits(Hidden(Layers, Prompt \o SubSeq(ids, 1, n - 1))))
    <3>1. n \in 1 .. Len(generated)
      BY <2>5, LenProperties DEF BeginsAsGenerated
    <3>2. ids[n] = generated[n] /\ SubSeq(ids, 1, n - 1) = SubSeq(generated, 1, n - 1)
      <4>1. CASE "write" \notin failures
        BY <2>5, <4>1
      <4>2. CASE n < Len(ids)
        <5>1. Len(ids) \in Nat /\ Len(generated) \in Nat /\ ids \in Seq(Tokens)
              /\ Len(ids) <= Len(generated)
              /\ \A m \in 1 .. Len(ids) : m < Len(ids) => ids[m] = generated[m]
          BY <2>5, LenProperties DEF BeginsAsGenerated
        <5> HIDE DEF ids
        <5>2. \A m \in 1 .. n : ids[m] = generated[m]
          BY <4>2, <5>1
        <5>3. SubSeq(ids, 1, n - 1) = SubSeq(generated, 1, n - 1)
          BY <2>5, <3>1, <4>2, <5>1, <5>2
        <5>. QED
          BY <5>2, <5>3
      <4>. QED
        BY <2>6, <4>1, <4>2
    <3>. QED
      BY <2>3, <3>1, <3>2 DEF GeneratedIsGreedy
  <2>7. Len(ids) <= TokensWanted /\ ("write" \notin failures => Len(ids) = TokensWanted)
    BY <2>4, <2>5 DEF BeginsAsGenerated
  <2>. QED
    BY <2>6, <2>7 DEF PrintedIsGreedy
<1>. QED
  BY <1>1, RunnerInvariance, PTL

----------------------------------------------------------------------------
(* The program and its model.  Qwen3Run runs over TokenHistory; these      *)
(* theorems say that main keeps to its operations.                         *)

(* What std::getline delivers is no longer than the text.                  *)
LEMMA ItemsAreAPrompt ==
  ASSUME NEW text \in Texts, ~Unparsable(text)
  PROVE  Items(text) \in Model!Prompts
<1> DEFINE items == Items(text)
<1>1. items \in Seq(Tokens)
  BY ParsedTokens
<1>2. Len(items) <= MaxPrompt
  <2>1. PICK n \in 1 .. MaxPrompt : text \in [1 .. n -> Fields]
    BY DEF Texts
  <2>2. text \in Seq(Fields) /\ Len(text) = n
    BY <2>1, Limits
  <2>3. Len(Front(text)) = Len(text) - 1
    BY <2>1, <2>2, Limits DEF Front
  <2>. QED
    BY <2>1, <2>2, <2>3, Limits DEF Items
<1>. HIDE DEF items
<1>3. items \in [1 .. Len(items) -> Tokens] /\ Len(items) \in 0 .. MaxPrompt
  BY <1>1, <1>2, Limits, LenProperties
<1>. QED
  BY <1>3 DEF Model!Prompts, items

LEMMA ProgressUsesModel ==
  ASSUME RunInv, Progress \/ Failure
  PROVE  [Model!Next]_object
<1>1. CASE CallPrefill
  <2>1. Items(args.tokens) \in Model!Prompts
    BY <1>1, ItemsAreAPrompt DEF CallPrefill, RunInv, RunTypes, Arguments
  <2>2. Model!Prefill(Items(args.tokens))
    BY <1>1 DEF CallPrefill
  <2>. QED
    BY <2>1, <2>2 DEF Model!Next
<1>2. CASE GenerateAndDecode
  <2>1. NextToken \in Tokens
    BY <1>2, GreedyToken DEF GenerateAndDecode
  <2>2. Model!Decode(NextToken)
    BY <1>2 DEF GenerateAndDecode
  <2>. QED
    BY <2>1, <2>2 DEF Model!Next
<1>3. CASE ModelReturns
  BY <1>3 DEF ModelReturns, Model!Next
<1>4. CASE RejectPrompt \/ TakePrefill \/ TakeDecode \/ CatchException \/ GenerateLast
  BY <1>4 DEF RejectPrompt, TakePrefill, TakeDecode, CatchException, GenerateLast
<1>5. CASE OpenTokens \/ WriteTokens \/ WriteLogits
  BY <1>5 DEF OpenTokens, WriteTokens, WriteLogits
<1>6. CASE Failure
  BY <1>6 DEF Failure, LoadFails, OutOfMemory, Killed
<1>. QED
  BY <1>1, <1>2, <1>3, <1>4, <1>5, <1>6 DEF Progress

LEMMA ExecUsesModel ==
  ASSUME NEW arguments, Exec(arguments)
  PROVE  UNCHANGED object
BY DEF Exec

LEMMA StartsAsModel == Init => Model!Init
BY DEF Init

(* main uses its model object as TokenHistory has it: only through         *)
(* prefill and decode, one call at a time, with prompts and tokens of the  *)
(* vocabulary, whatever fails around it.                                   *)
THEOREM UsesModel == Spec => Model!Spec
<1>1. RunInv /\ [Next]_vars => [Model!Next]_object
  BY ProgressUsesModel, ExecUsesModel DEF Next, vars
<1>. QED
  BY <1>1, StartsAsModel, RunInvariance, PTL DEF Spec, Model!Spec, Model!vars, object

(* The same under the script, which starts the program, interrupts it and  *)
(* takes its file away at any moment.                                      *)
THEOREM RunnerUsesModel == RunnerSpec => Model!Spec
<1>1. RunnerInv /\ [RunnerNext]_all => [Model!Next]_object
  <2>1. SUFFICES ASSUME RunnerInv, [RunnerNext]_all PROVE [Model!Next]_object
    OBVIOUS
  <2>2. CASE BinaryStep \/ BinaryFailure
    BY <2>1, <2>2, ProgressUsesModel DEF BinaryStep, BinaryFailure, RunnerInv
  <2>3. CASE ScriptStep
    <3>1. CASE \E ids \in PromptIds, max_new \in (-1 .. MaxNew) \cup {OutOfRange} :
                 StartBinary(ids, max_new)
      BY <3>1, ExecUsesModel DEF StartBinary
    <3>2. CASE MakeTempFile \/ PrintOutput \/ RaiseError
      BY <3>2 DEF MakeTempFile, PrintOutput, RaiseError, Unlink
    <3>. QED
      BY <2>3, <3>1, <3>2 DEF ScriptStep
  <2>4. CASE Interrupted \/ InterruptedOutsideTry \/ ScriptKilled \/ UNCHANGED all
    BY <2>4 DEF Interrupted, InterruptedOutsideTry, ScriptKilled, all, vars
  <2>. QED
    BY <2>1, <2>2, <2>3, <2>4 DEF RunnerNext
<1>2. RunnerInit => Model!Init
  BY StartsAsModel DEF RunnerInit
<1>. QED
  BY <1>1, <1>2, RunnerInvariance, PTL DEF RunnerSpec, Model!Spec, Model!vars, object

(* main never calls its model again after a failure: every call finds it   *)
(* sound, so that the recovery TokenHistory allows is never needed here.   *)
CallsFindItSound == pending => health = "sound"

THEOREM CallsASoundModel == Spec => []CallsFindItSound
<1>1. Init => CallsFindItSound
  BY DEF Init, Model!Init, CallsFindItSound
<1>2. RunInv /\ CallsFindItSound /\ [Next]_vars => CallsFindItSound'
  <2>1. SUFFICES ASSUME RunInv, CallsFindItSound, [Next]_vars PROVE CallsFindItSound'
    OBVIOUS
  <2>2. CASE UNCHANGED object
    BY <2>1, <2>2 DEF object, CallsFindItSound
  <2>3. CASE CallPrefill
    BY <2>3 DEF CallPrefill, Model!Prefill, CallsFindItSound
  <2>4. CASE GenerateAndDecode
    BY <2>1, <2>4 DEF GenerateAndDecode, Model!Decode, RunInv, AtGenerate, CallsFindItSound
  <2>5. CASE ModelReturns
    BY <2>5 DEF ModelReturns, Model!Answer, Model!Reject, Model!OutOfMemory, Model!Returns,
                CallsFindItSound
  <2>6. CASE RejectPrompt \/ TakePrefill \/ TakeDecode \/ CatchException \/ GenerateLast
             \/ OpenTokens \/ WriteTokens \/ WriteLogits \/ Failure
    BY <2>2, <2>6 DEF RejectPrompt, TakePrefill, TakeDecode, CatchException, GenerateLast,
                      OpenTokens, WriteTokens, WriteLogits, Failure, LoadFails, OutOfMemory, Killed
  <2>. QED
    BY <2>1, <2>2, <2>3, <2>4, <2>5, <2>6, ExecUsesModel DEF Next, Progress, vars
<1>. QED
  BY <1>1, <1>2, RunInvariance, PTL DEF Spec
=============================================================================
