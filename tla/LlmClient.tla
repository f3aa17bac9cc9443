----------------------------- MODULE LlmClient -----------------------------
(***************************************************************************)
(* call_model of ibex_sbfl_llm: one question to a language model, asked    *)
(* again after transient failures, with a weaker output mode where the     *)
(* endpoint refuses one, and with a repair prompt after an answer that     *)
(* does not fit.  A message is its role; an answer is what the validation  *)
(* makes of it.                                                            *)
(***************************************************************************)
EXTENDS Integers, Sequences

CONSTANT retries                \* --retries
ASSUME RetriesAssumption == retries \in Nat

VARIABLES
  protocol,             \* api_protocol: which provider is asked
  modes,                \* provider.structured_modes(structured_output)
  mode_index,           \* from 1
  input_items,          \* the roles of the messages so far
  attempts, transient_failures, validation_failures,
  call                  \* "idle", "request", "answer" (text has come), "ok" or "failed"

clientVars == <<protocol, modes, mode_index, input_items, attempts, transient_failures, validation_failures, call>>

Protocols == {"anthropic", "zai", "openai-responses", "openai-chat-completions"}
StructuredModes == {"json_schema", "json_object", "prompt_only"}

\* resolve_api_protocol; a model is known by the prefix of its name.
resolve_api_protocol(prefix, requested) ==
  IF requested # "auto" THEN requested
  ELSE CASE prefix = "claude-" -> "anthropic"
         [] prefix = "glm-" -> "zai"
         [] prefix = "gpt-" -> "openai-responses"
         [] OTHER -> "openai-chat-completions"

\* structured_modes of the three providers.
claude_modes == [strict |-> <<"json_schema">>, auto |-> <<"json_schema", "prompt_only">>, off |-> <<"prompt_only">>]
glm_modes == [strict |-> <<"json_object">>, auto |-> <<"json_object", "prompt_only">>, off |-> <<"prompt_only">>]
gpt_modes == [strict |-> <<"json_schema">>, auto |-> <<"json_schema", "json_object", "prompt_only">>,
              off |-> <<"prompt_only">>]
structured_modes(api_protocol, structured_output) ==
  IF api_protocol = "anthropic" THEN claude_modes[structured_output]
  ELSE IF api_protocol = "zai" THEN glm_modes[structured_output]
  ELSE gpt_modes[structured_output]

\* What the providers' create puts into a request: the system prompt is a message of its
\* own for two of the interfaces and a field of the payload for the others.
gpt_create(items) ==
  IF protocol = "openai-chat-completions" THEN <<"system">> \o items ELSE items
claude_create(items) == items
glm_create(items) == <<"system">> \o items
create(items) ==
  IF protocol = "anthropic" THEN claude_create(items)
  ELSE IF protocol = "zai" THEN glm_create(items)
  ELSE gpt_create(items)

ClientTypeOK ==
  /\ protocol \in Protocols
  /\ modes \in Seq(StructuredModes) /\ input_items \in Seq({"user", "assistant"})
  /\ mode_index \in Nat \ {0} /\ attempts \in Nat
  /\ transient_failures \in Nat /\ validation_failures \in Nat
  /\ call \in {"idle", "request", "answer", "ok", "failed"}

ClientInit ==
  /\ protocol = "openai-responses" /\ modes = <<>> /\ mode_index = 1 /\ input_items = <<>>
  /\ attempts = 0 /\ transient_failures = 0 /\ validation_failures = 0 /\ call = "idle"

-----------------------------------------------------------------------------
\* Up to the loop.
StartCall(api_protocol, structured_output) ==
  /\ protocol' = api_protocol
  /\ modes' = structured_modes(api_protocol, structured_output)
  /\ mode_index' = 1 /\ input_items' = <<"user">>
  /\ attempts' = 0 /\ transient_failures' = 0 /\ validation_failures' = 0
  /\ call' = "request"

\* provider.create returns; attempts was counted before.
Answered ==
  /\ call = "request" /\ call' = "answer" /\ attempts' = attempts + 1
  /\ UNCHANGED <<protocol, modes, mode_index, input_items, transient_failures, validation_failures>>

\* What provider.create may raise: an HTTP status (0: none), whether its text is about the
\* output mode, and whether its type names a timeout, a connection or a rate limit.
Errors == [status : {0, 400, 429, 500}, about_mode : BOOLEAN, lost : BOOLEAN]
structured_output_unsupported(e) == e.status \in {400, 404, 422} /\ e.about_mode
transient(e) == IF e.status # 0 THEN e.status = 429 \/ e.status >= 500 ELSE e.lost

\* A weaker output mode is left and the endpoint refused this one.
OtherMode(e) == mode_index < Len(modes) /\ structured_output_unsupported(e)
Again(e) == transient(e) /\ transient_failures < retries

ModeRefused(e) ==
  /\ call = "request" /\ attempts' = attempts + 1 /\ OtherMode(e)
  /\ mode_index' = mode_index + 1
  /\ UNCHANGED <<protocol, modes, input_items, transient_failures, validation_failures, call>>

\* faulty variant: transient failures are not counted
TransientUncounted(e) ==
  /\ call = "request" /\ attempts' = attempts + 1 /\ ~OtherMode(e) /\ transient(e)
  /\ attempts <= 3 * (retries + 2)
  /\ UNCHANGED <<protocol, modes, mode_index, input_items, transient_failures, validation_failures, call>>
\* Asked again after a delay.
Transient(e) ==
  /\ call = "request" /\ attempts' = attempts + 1 /\ ~OtherMode(e) /\ Again(e)
  /\ transient_failures' = transient_failures + 1
  /\ UNCHANGED <<protocol, modes, mode_index, input_items, validation_failures, call>>

\* Every other error, and those for which nothing is left.
RequestFailed(e) ==
  /\ call = "request" /\ attempts' = attempts + 1 /\ ~OtherMode(e) /\ ~Again(e)
  /\ call' = "failed"
  /\ UNCHANGED <<protocol, modes, mode_index, input_items, transient_failures, validation_failures>>

\* The answer has no text.
EmptyAnswer ==
  /\ call = "answer" /\ call' = "failed"
  /\ UNCHANGED <<protocol, modes, mode_index, input_items, attempts, transient_failures, validation_failures>>

\* The text of an answer: where its JSON object is, whether it fits the schema, and the
\* candidates it scores, in its order.
extract_json_object(text) == text.json \in {"whole", "fenced", "embedded"}
validate_assessments(text, ids) ==
  /\ extract_json_object(text) /\ text.fits
  /\ \A i, j \in DOMAIN text.ids : text.ids[i] = text.ids[j] => i = j
  /\ {text.ids[i] : i \in DOMAIN text.ids} = ids

\* faulty variant: the refused answer is not put into the conversation
RepairWithoutAnswer ==
  /\ call = "answer"
  /\ IF validation_failures >= retries
     THEN call' = "failed" /\ UNCHANGED <<input_items, validation_failures>>
     ELSE /\ validation_failures' = validation_failures + 1
          /\ input_items' = Append(input_items, "user") /\ call' = "request"
  /\ UNCHANGED <<protocol, modes, mode_index, attempts, transient_failures>>
\* The answer is refused: it and a repair prompt are appended.
InvalidAnswer ==
  /\ call = "answer"
  /\ IF validation_failures >= retries
     THEN call' = "failed" /\ UNCHANGED <<input_items, validation_failures>>
     ELSE /\ validation_failures' = validation_failures + 1
          /\ input_items' = input_items \o <<"assistant", "user">>
          /\ call' = "request"
  /\ UNCHANGED <<protocol, modes, mode_index, attempts, transient_failures>>

\* The answer is accepted.
ValidAnswer ==
  /\ call = "answer" /\ call' = "ok"
  /\ UNCHANGED <<protocol, modes, mode_index, input_items, attempts, transient_failures, validation_failures>>

\* The caller's frame is gone.
EndCall ==
  /\ protocol' = "openai-responses" /\ modes' = <<>> /\ mode_index' = 1 /\ input_items' = <<>>
  /\ attempts' = 0 /\ transient_failures' = 0 /\ validation_failures' = 0 /\ call' = "idle"

\* A request and what becomes of it.
Request == Answered \/ EmptyAnswer \/ \E e \in Errors : ModeRefused(e) \/ Transient(e) \/ RequestFailed(e)

\* The client under any caller.
ClientNext ==
  \/ \E p \in Protocols, so \in {"strict", "auto", "off"} : call = "idle" /\ StartCall(p, so)
  \/ Request \/ InvalidAnswer \/ ValidAnswer \/ EndCall
ClientSpec == ClientInit /\ [][ClientNext]_clientVars

-----------------------------------------------------------------------------
(* Properties                                                              *)

\* Transient failures, repairs and refused modes have budgets of their own, and the number
\* of requests is bounded by their sum, in whatever order they come (call_model).
RequestBound == attempts <= 2 * retries + (IF Len(modes) = 0 THEN 1 ELSE Len(modes))

Talks(m) ==
  LET s == IF m[1] = "system" THEN 1 ELSE 0
  IN  /\ (Len(m) - s) % 2 = 1
      /\ \A i \in 1 .. Len(m) - s : m[i + s] = IF i % 2 = 1 THEN "user" ELSE "assistant"

\* What a provider is sent is a conversation: after the system prompt, where the interface
\* takes it as a message, user and assistant take turns; the user begins and has the last
\* word, also after transient failures between two repairs.
InTurn == call = "request" => Talks(create(input_items))

============================================================================
