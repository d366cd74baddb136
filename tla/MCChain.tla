------------------------------- MODULE MCChain -------------------------------
(***************************************************************************)
(* One user's requests through the cache, the log and the handler.  With   *)
(* an estimate of 3 the deposit of 7 covers two of them; an answer costs   *)
(* 1 or 6, so less or more than the estimate.                              *)
(***************************************************************************)
EXTENDS Chain

CONSTANTS plain, other, streaming, u1

MCPayloads == {plain, other, streaming}

MCStreamed == {streaming}

MCUsers == {u1}

MCDeposit == [u \in MCUsers |-> 7]

MCPromptTokens == {1}

MCMaxTokens == {None}

MCUsageTokens == {None, 0}

MCContentTokens == {5}
=============================================================================
