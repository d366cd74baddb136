-------------------------- MODULE MCChatCompletions --------------------------
(* Small instances of ChatCompletions.  With a default of 2 output tokens  *)
(* an estimate is 3, 4 or negative, and a reported usage costs 0, 3 or 6:  *)
(* below, at or above the estimate.  A deposit of 7 covers two estimates,  *)
(* or one estimate and its overage.                                        *)
EXTENDS ChatCompletions

CONSTANT u1

MCPromptTokens == {1}
MCMaxTokens == {None, 0, 3, -2}
MCUsageTokens == {None, 0, 3}
MCUpstreamErrors == {503}
OneUser == {u1}
MCDeposit == [u \in Users |-> 7]
=============================================================================
