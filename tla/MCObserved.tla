----------------------------- MODULE MCObserved ------------------------------
(* Three requests over up to two channels.  An estimate is 3, 4 or         *)
(* negative, a success costs between 2 and 6, and a deposit of 7 covers    *)
(* two estimates.                                                          *)
EXTENDS Observed

CONSTANT u1

MCUsers == {u1}
MCDeposit == [u \in Users |-> 7]
MCPromptTokens == {1}
MCMaxTokens == {None, 0, 3, -2}
MCUsageTokens == {None, 3}
MCContentTokens == {1}
MCUpstreamErrors == {503}
MCPriorities == {0}
=============================================================================
