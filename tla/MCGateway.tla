------------------------------ MODULE MCGateway ------------------------------
(* Two users' requests through the whole of s_full, with the estimates and *)
(* reports of MCChatCompletions.                                           *)
EXTENDS Gateway

CONSTANTS u1, u2

MCPromptTokens == {1}
MCMaxTokens == {None, 0, 3, -2}
MCUsageTokens == {None, 0, 3}
MCUpstreamErrors == {503}
TwoUsers == {u1, u2}
MCDeposit == [u \in Users |-> 7]
=============================================================================
