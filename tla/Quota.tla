-------------------------------- MODULE Quota --------------------------------
(***************************************************************************)
(* The arithmetic of s_full/services/quota.py and s_full/services/         *)
(* billing.py on one user's balance.  Every function of quota.py runs      *)
(* under one lock and touches one balance, so each is a function of that   *)
(* balance; the callers' order of calls is modelled where they are called. *)
(***************************************************************************)
EXTENDS Integers

CONSTANTS None,              \* Python's None: an absent field
          DefaultMaxTokens   \* the 256 of billing.pre_consume

ASSUME DefaultMaxTokensAssumption == DefaultMaxTokens \in Nat \ {0}

(* None is not a number: no integer field equals it.                       *)
ASSUME NoneAssumption == None \notin Int

RATE_PER_TOKEN == 1

(* What the upstream reports, field by field; a field may be missing.      *)
Usage == [prompt : Nat \cup {None}, completion : Nat \cup {None}]

-----------------------------------------------------------------------------
(* A faulty deduct, for the mutation runs: it does not look at the balance.*)
UncoveredDeduct(bal, amount) == amount >= 0

(* quota.deduct: True iff the balance covers a non-negative amount.        *)
CanDeduct(bal, amount) == amount >= 0 /\ bal >= amount

(* The balance quota.deduct leaves: a failing deduct changes nothing.      *)
Deducted(bal, amount) == IF CanDeduct(bal, amount) THEN bal - amount ELSE bal

Refunded(bal, amount) == bal + amount

(* quota.settle: an overage is deducted if the balance covers it and       *)
(* otherwise dropped, an unused part is refunded.                          *)
QuotaSettled(bal, preDeducted, actual) ==
    IF actual > preDeducted
    THEN Deducted(bal, actual - preDeducted)
    ELSE Refunded(bal, preDeducted - actual)

-----------------------------------------------------------------------------
(* billing.pre_consume's estimate.  None and 0 are both falsy in           *)
(* `max_tokens or 256'; a negative max_tokens is not.                      *)
Estimate(promptTokens, maxTokens) ==
    (promptTokens + IF maxTokens \in {None, 0} THEN DefaultMaxTokens ELSE maxTokens)
        * RATE_PER_TOKEN

(* billing.settle bills the estimate when either count is missing.         *)
IsIncomplete(usage) == usage.prompt = None \/ usage.completion = None

Cost(usage) == (usage.prompt + usage.completion) * RATE_PER_TOKEN

(* The value billing.settle returns: logged and reported as quota_charged. *)
QuotaCharged(estimate, usage) ==
    IF IsIncomplete(usage) THEN estimate ELSE Cost(usage)

(* The balance billing.settle leaves.                                      *)
Settled(bal, estimate, usage) ==
    IF IsIncomplete(usage) THEN bal ELSE QuotaSettled(bal, estimate, Cost(usage))
=============================================================================
