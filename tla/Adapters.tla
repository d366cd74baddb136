------------------------------ MODULE Adapters -------------------------------
(***************************************************************************)
(* The pure part of the chapters: s04's provider adapters                  *)
(* (s04_multi_provider/adapters.py) and s06's token counting               *)
(* (s06_token_counting/tokenizer.py).  A text is its length in characters  *)
(* and in the encoder's tokens; a model is the prefix its name has.        *)
(***************************************************************************)
EXTENDS Integers, Sequences, Totals

CONSTANTS None,
          ClaudeMaxTokens   \* the 1024 of ClaudeProvider.to_upstream

Roles == {"system", "user", "assistant"}

Families == {"gpt-", "o", "claude-", "gemini-", "unknown"}

PickProvider(family) ==
    CASE family \in {"gpt-", "o"} -> "openai"
      [] family = "claude-"       -> "claude"
      [] family = "gemini-"       -> "gemini"
      [] family = "unknown"         -> None

-----------------------------------------------------------------------------
(* What goes upstream, as far as a provider takes it: the turns, the       *)
(* completion's limit and a system prompt beside the turns.                *)
OpenAIBody(req) ==
    [turns |-> req.messages, limit |-> req.maxTokens, system |-> req.system]

(* Faults for the mutation runs: the client's limit lost, the turns in a   *)
(* provider's roles without the system prompt.                             *)
UnlimitedClaudeBody(req) ==
    [turns |-> req.messages, limit |-> ClaudeMaxTokens, system |-> req.system]

ClaudeBody(req) ==
    [turns  |-> req.messages,
     limit  |-> IF req.maxTokens = None THEN ClaudeMaxTokens ELSE req.maxTokens,
     system |-> req.system]

GeminiTurn(message) ==
    [role |-> IF message.role = "assistant" THEN "model" ELSE "user", text |-> message.text]

SpokenGeminiBody(req) ==
    [turns  |-> [i \in DOMAIN req.messages |-> GeminiTurn(req.messages[i])],
     limit  |-> None,
     system |-> None]

IsBlank(text) == text = None \/ text.chars = 0

(* Gemini gets the system prompt as a first turn of the user and no limit. *)
GeminiBody(req) ==
    [turns  |-> (IF IsBlank(req.system) THEN <<>> ELSE <<[role |-> "user", text |-> req.system]>>)
                  \o [i \in DOMAIN req.messages |-> GeminiTurn(req.messages[i])],
     limit  |-> None,
     system |-> None]

ToUpstream(provider, req) ==
    CASE provider = "openai" -> OpenAIBody(req)
      [] provider = "claude" -> ClaudeBody(req)
      [] provider = "gemini" -> GeminiBody(req)

-----------------------------------------------------------------------------
(* What an upstream counts; a count it leaves out is None.  (Counts of     *)
(* null are Relays' and ChatCompletions' subject.)                         *)
OrZero(n) == IF n = None THEN 0 ELSE n

ClaudeUsage(usage) ==
    LET input == OrZero(usage.prompt)
        output == OrZero(usage.completion)
    IN  [prompt |-> input, completion |-> output, total |-> input + output]

GeminiUsage(usage) ==
    [prompt     |-> OrZero(usage.prompt),
     completion |-> OrZero(usage.completion),
     total      |-> OrZero(usage.total)]

UsageFromUpstream(provider, usage) ==
    CASE provider = "openai" -> usage
      [] provider = "claude" -> ClaudeUsage(usage)
      [] provider = "gemini" -> GeminiUsage(usage)

-----------------------------------------------------------------------------
AtLeast(n, m) == IF m < n THEN n ELSE m

(* Where the encoder counts at all: it raises on its special tokens.       *)
CountOpenAI(messages) ==
    2 + Total([i \in DOMAIN messages |-> 4 + messages[i].text.tokens], Len(messages))

CountEstimate(messages) ==
    AtLeast(1, Total([i \in DOMAIN messages |-> messages[i].text.chars], Len(messages)) \div 4)

CountPrompt(family, messages) ==
    IF family \in {"gpt-", "o"} THEN CountOpenAI(messages) ELSE CountEstimate(messages)

(* The chapters' substitute for a completion's count.                      *)
CountLength(chars) == AtLeast(1, chars \div 4)
=============================================================================
