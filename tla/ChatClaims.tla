----------------------------- MODULE ChatClaims -----------------------------
(***************************************************************************)
(* Sentences of the repository about /v1/chat/completions that the code    *)
(* does not keep.  Each is a formula over the steps of ChatCompletions and *)
(* is checked by a run of its own, which finds the step that breaks it.    *)
(***************************************************************************)
EXTENDS MCChatCompletions

(* The step of request r that gives its user amount back.                  *)
GivesBack(r, amount) ==
    balance' = [balance EXCEPT ![call[r].user] = @ + amount]

(* s_full/services/quota.py, settle: `Returns the actual amount charged.'  *)
(* What the call log and the client are told is what the balance paid.     *)
ReportedIsCharged ==
    [][\A r \in Requests : log'[r] # log[r] => GivesBack(r, estimate[r] - log'[r])]_vars

(* tests/test_s_full_smoke.py: `The pre-consume must be refunded (no       *)
(* silent loss)' when the answer to a posted call is an error.             *)
FailedCallsAreFree ==
    [][\A r \in Requests :
        pc[r] = "posted" /\ status'[r] # None /\ status'[r] >= 400 => GivesBack(r, estimate[r])]_vars

(* routes/chat.py, _relay_stream: `On abnormal termination [...] OR client *)
(* disconnect [...] refund the full estimate'.  A stream that ends before  *)
(* its first chunk is refunded too.                                        *)
UnstartedStreamsAreFree ==
    [][\A r \in Requests :
        pc[r] = "created" /\ pc'[r] \in Ended => GivesBack(r, estimate[r])]_vars

(* services/billing.py, settle: `safe fallback to pre_deducted when the    *)
(* upstream omits usage', whatever the provider.                           *)
OmittedUsageBillsEstimate ==
    [][\A r \in Requests :
        Completed(r, [prompt |-> None, completion |-> None])
            => UNCHANGED balance /\ log'[r] = estimate[r]]_vars
=============================================================================
