------------------------------ MODULE MCRelays -------------------------------
(* Buckets of one and a half to three requests, which a tick refills by    *)
(* nothing, by half a request or by one and a half.  Texts of one or two   *)
(* tokens; bodies for each provider, with and without a system prompt and  *)
(* a limit, limits of 0 and below among them; reports below, at and above  *)
(* the estimates.                                                          *)
EXTENDS Relays

MCDefault == [capacity |-> 5, refill |-> 1]
MCConfigs == {[capacity |-> 3, refill |-> 0], [capacity |-> 6, refill |-> 3]}

MCFollowed == [a \in Apps |-> IF a = "s07" THEN 2 ELSE 1]

Hi    == [chars |-> 2, tokens |-> 1]
Story == [chars |-> 9, tokens |-> 2]

Says(role, text) == [role |-> role, text |-> text]
Ask(family, messages, maxTokens, system, stream) ==
    [family |-> family, messages |-> messages, maxTokens |-> maxTokens,
     system |-> system, stream |-> stream]

MCBodies ==
    {Ask("gpt-", <<Says("user", Hi)>>, None, Story, TRUE),
     Ask("o", <<Says("user", Hi), Says("assistant", Story)>>, -8, None, FALSE),
     Ask("o", <<Says("user", Hi)>>, -8, None, FALSE),
     Ask("claude-", <<Says("user", Story), Says("assistant", Hi)>>, 1, Hi, FALSE),
     Ask("claude-", <<Says("user", Hi)>>, 0, None, FALSE),
     Ask("gemini-", <<Says("user", Story), Says("assistant", Hi)>>, 1, Hi, FALSE),
     Ask("unknown", <<Says("user", Hi)>>, None, None, FALSE)}

Report(prompt, completion, total) ==
    [prompt |-> prompt, completion |-> completion, total |-> total]

MCAnswers ==
    {[usage |-> Report(1, 1, 2), chars |-> 2],
     [usage |-> Report(1, 4, 5), chars |-> 9],
     [usage |-> Report(9, 4, 13), chars |-> 9],
     [usage |-> Report(2, None, None), chars |-> 9],
     [usage |-> Report(None, None, None), chars |-> None],
     [usage |-> Report(None, 0, 0), chars |-> 0]}
=============================================================================
