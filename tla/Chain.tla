-------------------------------- MODULE Chain --------------------------------
(***************************************************************************)
(* The chapters' gateway: the cache of s12 around the log of s11 around    *)
(* the chat handler of s08 (s08_rate_limiting/code.py), which s11 and s12  *)
(* reach through their mounts.  CachedChat leaves open how a forwarded     *)
(* call ends; here the handler decides it, and moves the user's quota      *)
(* (s07_pre_consume_settle/quota.py, the code that Quota translates).      *)
(***************************************************************************)
EXTENDS CachedChat

CONSTANTS DefaultMaxTokens,
          Users, Deposit, PromptTokens, MaxTokens,
          UsageTokens,     \* counts an upstream may report, None included
          ContentTokens    \* a quarter of an answer's length, at least 1

INSTANCE Quota

ASSUME ChainAssumption ==
    /\ DefaultMaxTokens \in Nat \ {0}
    /\ None \notin Users
    /\ None \notin Int
    /\ Deposit \in [Users -> Nat]
    /\ PromptTokens \subseteq Nat
    /\ MaxTokens \subseteq Int \cup {None}
    /\ UsageTokens \subseteq Nat \cup {None}
    /\ ContentTokens \subseteq Nat \ {0}

VARIABLES balance,    \* _balances of s07
          stage,      \* what the handler has done with the estimate
          user,       \* p.user_id
          estimate,
          prompt      \* prompt_tokens

handlerVars == <<balance, stage, user, estimate, prompt>>

chainVars == <<vars, handlerVars>>

(* Not deducted, or refunded before the post; deducted; and its ends, of   *)
(* which "unrendered" is settled too, but has no answer to show for it.    *)
Stages == {"none", "posted", "refunded", "settled", "unrendered", "stranded"}

ChainInit ==
    /\ Init
    /\ balance = Deposit
    /\ stage = [r \in Requests |-> "none"]
    /\ user = [r \in Requests |-> None]
    /\ estimate = [r \in Requests |-> 0]
    /\ prompt = [r \in Requests |-> 0]

-----------------------------------------------------------------------------
(* The handler runs between the middlewares' forwarding and the answer.    *)
Handling(r, s) == pc[r] = "forwarded" /\ stage[r] = s

Ends(r, how) ==
    /\ stage' = [stage EXCEPT ![r] = how]
    /\ UNCHANGED <<user, estimate, prompt>>

Refund(r) == balance' = [balance EXCEPT ![user[r]] = Refunded(@, estimate[r])]

(* max() with the local count; the completion as reported, or by length.   *)
Charge(r, reported, completion) ==
    ((IF reported = None \/ reported < prompt[r] THEN prompt[r] ELSE reported) + completion)
        * RATE_PER_TOKEN

-----------------------------------------------------------------------------
(* Faults for the mutation runs: a 400 without its refund, and a call that *)
(* is logged before its answer is there.                                   *)
KeptUnknownModel(r, u, n) ==
    /\ Handling(r, "none")
    /\ CanDeduct(balance[u], n)
    /\ balance' = [balance EXCEPT ![u] = Deducted(@, n)]
    /\ Fail(r)
    /\ UNCHANGED <<stage, user, estimate, prompt>>

LoggedEarly(r) ==
    /\ stage[r] \in {"posted", "settled"}
    /\ LogCall(r)
    /\ UNCHANGED handlerVars

-----------------------------------------------------------------------------
(* 401 of require_api_key, 422 of the validation, 429 of the limiter       *)
(* (TokenBucket's subject), the ValueError of a text the encoder refuses   *)
(* to count: nothing was deducted.                                         *)
TurnedAway(r) ==
    /\ Handling(r, "none")
    /\ Fail(r)
    /\ UNCHANGED handlerVars

(* 402, or the ValueError of a negative estimate.                          *)
InsufficientQuota(r, u, n) ==
    /\ Handling(r, "none")
    /\ ~CanDeduct(balance[u], n)
    /\ Fail(r)
    /\ UNCHANGED handlerVars

(* pick_provider raises: deducted, and refunded at once.                   *)
UnknownModel(r, u, n) ==
    /\ Handling(r, "none")
    /\ CanDeduct(balance[u], n)
    /\ balance' = [balance EXCEPT ![u] = Refunded(Deducted(@, n), n)]
    /\ Fail(r)
    /\ UNCHANGED <<stage, user, estimate, prompt>>

Post(r, u, p, n) ==
    /\ Handling(r, "none")
    /\ CanDeduct(balance[u], n)
    /\ balance' = [balance EXCEPT ![u] = Deducted(@, n)]
    /\ stage' = [stage EXCEPT ![r] = "posted"]
    /\ user' = [user EXCEPT ![r] = u]
    /\ estimate' = [estimate EXCEPT ![r] = n]
    /\ prompt' = [prompt EXCEPT ![r] = p]
    /\ UNCHANGED vars

(* httpx.HTTPError, the 30 s timeouts included, or a status of 400 or more.*)
UpstreamFails(r) ==
    /\ Handling(r, "posted")
    /\ Refund(r)
    /\ Ends(r, "refunded")
    /\ Fail(r)

(* A body that is not the JSON the handler reads: it raises on the way to  *)
(* settle.                                                                 *)
UnexpectedBody(r) ==
    /\ Handling(r, "posted")
    /\ Ends(r, "stranded")
    /\ Fail(r)
    /\ UNCHANGED balance

Settle(r, reported, completion) ==
    /\ Handling(r, "posted")
    /\ balance' = [balance EXCEPT ![user[r]] =
                     QuotaSettled(@, estimate[r], Charge(r, reported, completion))]

(* The answer is on its way to the middlewares.                            *)
Completed(r, reported, completion) ==
    /\ Settle(r, reported, completion)
    /\ Ends(r, "settled")
    /\ UNCHANGED vars

(* JSONResponse is built after settle and cannot write everything json     *)
(* reads: NaN is a ValueError, half of a surrogate pair an encoding error. *)
Unrendered(r, reported, completion) ==
    /\ Settle(r, reported, completion)
    /\ Ends(r, "unrendered")
    /\ Fail(r)

Handle(r) ==
    \/ TurnedAway(r)
    \/ \E u \in Users, p \in PromptTokens, m \in MaxTokens :
         \/ InsufficientQuota(r, u, Estimate(p, m))
         \/ UnknownModel(r, u, Estimate(p, m))
         \/ Post(r, u, p, Estimate(p, m))
    \/ UpstreamFails(r)
    \/ UnexpectedBody(r)
    \/ \E reported \in UsageTokens, completion \in (UsageTokens \ {None}) \cup ContentTokens :
         Completed(r, reported, completion) \/ Unrendered(r, reported, completion)

(* LogMiddleware gets the 200 that the handler returned after settling.    *)
LogAnswer(r) ==
    /\ stage[r] = "settled"
    /\ LogCall(r)
    /\ UNCHANGED handlerVars

(* Steps of the middlewares that do not meet the handler.                  *)
Around ==
    /\ \/ Flush
       \/ Shutdown
       \/ Tick
       \/ \E r \in Requests : Arrive(r) \/ KeepAnswer(r)
    /\ UNCHANGED handlerVars

ChainNext == Around \/ \E r \in Requests : Handle(r) \/ LogAnswer(r)

ChainSpec == ChainInit /\ [][ChainNext]_chainVars

(* The flush loop's sleep of 100 ms ends, and the middleware reads an      *)
(* answer that is already there.                                           *)
ChainFairSpec ==
    /\ ChainSpec
    /\ WF_chainVars(Flush /\ UNCHANGED handlerVars)
    /\ \A r \in Requests : WF_chainVars(LogAnswer(r))

-----------------------------------------------------------------------------
(* Type invariant: CachedChat's, and no balance is overdrawn.              *)
ChainTypeOK ==
    /\ TypeOK
    /\ balance \in [Users -> Nat]
    /\ stage \in [Requests -> Stages]
    /\ user \in [Requests -> Users \cup {None}]
    /\ estimate \in [Requests -> Nat]
    /\ prompt \in [Requests -> Nat]

(* Cache, log and quota agree.  The log has the calls that were settled    *)
(* and answered (once the answer has passed the log's middleware), once    *)
(* each, and no others.  A call in the cache was settled.  What is         *)
(* answered from the cache cost nothing, and a call that failed holds no   *)
(* estimate and is on no log, also when it was settled before its answer   *)
(* could not be written.                                                   *)
LoggedIsPaid == \A r \in Requests :
    /\ IF stage[r] = "settled" /\ pc[r] # "forwarded"
       THEN \E i \in 1..Len(Log) : Occurrences(r) = {i}
       ELSE Occurrences(r) = {}
    /\ pc[r] = "hit" => stage[r] = "none" /\ stage[answer[r]] = "settled"
    /\ pc[r] = "failed" => stage[r] \notin {"posted", "settled"}

(* What the ledger sees of a request.                                      *)
Phase == [r \in Requests |->
    IF stage[r] = "none" THEN "none"
    ELSE IF stage[r] = "posted" THEN "holding"
    ELSE IF stage[r] = "refunded" THEN "released" ELSE "captured"]

Held == [r \in Requests |-> IF stage[r] = "posted" THEN estimate[r] ELSE 0]

Quotas == INSTANCE Ledger WITH
    NoUser <- None, funds <- balance, owner <- user, phase <- Phase, held <- Held

(* The chapters' handler implements the same ledger as s_full's, whatever  *)
(* the middlewares around it do.                                           *)
ImplementsLedger == Quotas!Spec

(* Under s11 a call that a user has paid for and whose answer could be     *)
(* written out comes to be listed.                                         *)
PaidAnswersAreListed == \A r \in Requests :
    app = "s11" /\ stage[r] = "settled" ~> r \in Listed
=============================================================================
