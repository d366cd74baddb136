--------------------------- MODULE ChatCompletions ---------------------------
(***************************************************************************)
(* POST /v1/chat/completions of s_full: rate limit, pre-consume, upstream  *)
(* call, settlement and call log (s_full/routes/chat.py with services/     *)
(* quota.py, billing.py, rate_limit.py and the adapters).                  *)
(*                                                                         *)
(* The handler is a coroutine on one event loop: what it does between two  *)
(* awaits is one step, and steps of different requests interleave.  It     *)
(* awaits the upstream's answer (pc "posted"); a streaming request returns *)
(* a generator that Starlette starts later ("created"), that relays the    *)
(* upstream's chunks ("relaying") and that is closed by the event loop     *)
(* when the client leaves ("closing").                                     *)
(***************************************************************************)
EXTENDS Quota, Totals

CONSTANTS Users, NumRequests,
          Deposit,          \* [Users -> Nat]: set_balance / top_up before the run
          PromptTokens,     \* token counts a prompt may have
          MaxTokens,        \* values of the body's max_tokens, None included
          UsageTokens,      \* counts an upstream may report, None included
          UpstreamErrors,   \* HTTP error statuses of an upstream
          Capacity          \* a user's token bucket

Providers == {"openai", "claude", "gemini", "unknown"}

(* Requests are numbered in the order in which they arrive.                *)
Requests == 1..NumRequests

(* What a request's token, model and stream flag come down to.             *)
Calls == [user : Users, provider : Providers, stream : BOOLEAN]

ASSUME ChatAssumption ==
    /\ NumRequests \in Nat
    /\ None \notin Users
    /\ None \notin Calls
    /\ Deposit \in [Users -> Nat]
    /\ PromptTokens \subseteq Nat
    /\ MaxTokens \subseteq Int \cup {None}
    /\ UsageTokens \subseteq Nat \cup {None}
    /\ UpstreamErrors \subseteq 400..599
    /\ Capacity \in Nat \ {0}

VARIABLES balance,    \* quota._balances
          tokens,     \* rate_limit._buckets: whole requests a user may still make
          pc,         \* where the handler or its generator stands
          call,       \* caller and route of a request that reached the limiter
          estimate,   \* the handler's local: the amount pre-consumed
          status,     \* HTTP status sent to the client, None before
          log         \* quota_charged of the entry given to enqueue_log, or None

vars == <<balance, tokens, pc, call, estimate, status, log>>

-----------------------------------------------------------------------------
(* pc while the estimate is deducted and its fate open.                    *)
Holding == {"posted", "created", "relaying", "closing"}

(* pc at the end: nothing was kept ("refused", "refunded"), the call was   *)
(* settled, or the code left without deciding the estimate ("stranded").   *)
Ended == {"refused", "refunded", "settled", "stranded"}

Usages == [prompt : UsageTokens, completion : UsageTokens]

Statuses == {200, 400, 401, 402, 422, 429, 500, 502} \cup UpstreamErrors

Init ==
    /\ balance = Deposit
    /\ tokens = [u \in Users |-> Capacity]
    /\ pc = [r \in Requests |-> "idle"]
    /\ call = [r \in Requests |-> None]
    /\ estimate = [r \in Requests |-> 0]
    /\ status = [r \in Requests |-> None]
    /\ log = [r \in Requests |-> None]

-----------------------------------------------------------------------------
(* Adapters.  Only gemini lacks streaming; a model name that matches no    *)
(* prefix has no provider.                                                 *)
Routable(c) == c.provider # "unknown" /\ ~(c.stream /\ c.provider = "gemini")

OrZero(count) == IF count = None THEN 0 ELSE count

(* from_upstream.  OpenAI's body passes through; the others are rewritten  *)
(* with 0 for a count the upstream left out.  Gemini's lets a null through,*)
(* which settle takes for a count left out; Claude's adds the counts up    *)
(* and raises on one (UnexpectedShape).                                    *)
Counts(provider, count) ==
    (IF provider = "openai" THEN {} ELSE {OrZero(count)})
        \cup (IF provider = "claude" THEN {} ELSE {count})

Translated(provider, usage) ==
    [prompt : Counts(provider, usage.prompt), completion : Counts(provider, usage.completion)]

(* The usage found in the last data chunk of a stream.  Chunks are not     *)
(* translated, and Claude's do not have OpenAI's field names.              *)
StreamUsage(provider, usage) ==
    IF provider = "openai" THEN usage ELSE [prompt |-> None, completion |-> None]

(* rate_limit.take: the bucket after some time's refill, capped, pays one  *)
(* token if it has one.  The refill is stored in either case.              *)
Refilled(u, gained) ==
    IF tokens[u] + gained > Capacity THEN Capacity ELSE tokens[u] + gained

-----------------------------------------------------------------------------
(* Where the handler, or the generator, ends: pc and the client's status.  *)
End(r, how, code) ==
    /\ pc' = [pc EXCEPT ![r] = how]
    /\ status' = [status EXCEPT ![r] = code]

Refund(r) ==
    /\ balance' = [balance EXCEPT ![call[r].user] = Refunded(@, estimate[r])]
    /\ UNCHANGED <<tokens, call, estimate, log>>

(* billing.settle, then enqueue_log, with no await between them.           *)
SettleAndLog(r, usage) ==
    /\ balance' = [balance EXCEPT ![call[r].user] = Settled(@, estimate[r], usage)]
    /\ log' = [log EXCEPT ![r] = QuotaCharged(estimate[r], usage)]
    /\ UNCHANGED <<tokens, call, estimate>>

-----------------------------------------------------------------------------
(* Faults for the mutation runs, each a plausible slip in chat.py: a 400   *)
(* without its refund, a transport error retried without end, a refund     *)
(* inside the relay loop, which then goes on, and `except Exception' in    *)
(* the generator, which misses GeneratorExit.                              *)
KeptBadRequest(r, c, n) ==
    /\ pc[r] = "idle"
    /\ CanDeduct(balance[c.user], n)
    /\ ~Routable(c)
    /\ balance' = [balance EXCEPT ![c.user] = Deducted(@, n)]
    /\ call' = [call EXCEPT ![r] = c]
    /\ End(r, "refused", 400)
    /\ UNCHANGED <<tokens, estimate, log>>

RetriedForever(r) == pc[r] = "posted" /\ UNCHANGED vars

RefundedAndRelaying(r) ==
    /\ pc[r] = "relaying"
    /\ Refund(r)
    /\ UNCHANGED <<pc, status>>

UncaughtClose(r) ==
    /\ pc[r] = "closing"
    /\ pc' = [pc EXCEPT ![r] = "stranded"]
    /\ UNCHANGED <<balance, tokens, call, estimate, status, log>>

-----------------------------------------------------------------------------
(* 401 of require_api_key or 422 of the body's validation.                 *)
Unauthorized(r) ==
    /\ pc[r] = "idle"
    /\ \E code \in {401, 422} : End(r, "refused", code)
    /\ UNCHANGED <<balance, tokens, call, estimate, log>>

RateLimited(r, c) ==
    \E gained \in 0..Capacity :
        /\ pc[r] = "idle"
        /\ Refilled(c.user, gained) < 1
        /\ tokens' = [tokens EXCEPT ![c.user] = Refilled(c.user, gained)]
        /\ call' = [call EXCEPT ![r] = c]
        /\ End(r, "refused", 429)
        /\ UNCHANGED <<balance, estimate, log>>

(* A request that passed the limiter, with the estimate computed for it.   *)
Admitted(r, c, n) ==
    \E gained \in 0..Capacity :
        /\ pc[r] = "idle"
        /\ Refilled(c.user, gained) >= 1
        /\ tokens' = [tokens EXCEPT ![c.user] = Refilled(c.user, gained) - 1]
        /\ call' = [call EXCEPT ![r] = c]
        /\ estimate' = [estimate EXCEPT ![r] = n]
        /\ UNCHANGED log

(* quota.deduct raises ValueError on a negative amount, and nobody catches *)
(* it.                                                                     *)
NegativeEstimate(r, c, n) ==
    /\ n < 0
    /\ Admitted(r, c, 0)
    /\ End(r, "refused", 500)
    /\ UNCHANGED balance

(* The encoder refuses a text with special tokens: a ValueError that       *)
(* nobody catches, before anything is deducted.                            *)
Uncountable(r, c) ==
    /\ Admitted(r, c, 0)
    /\ End(r, "refused", 500)
    /\ UNCHANGED balance

InsufficientQuota(r, c, n) ==
    /\ n >= 0
    /\ ~CanDeduct(balance[c.user], n)
    /\ Admitted(r, c, 0)
    /\ End(r, "refused", 402)
    /\ UNCHANGED balance

(* Unknown model, or streaming from a provider without it: deducted and    *)
(* refunded before anyone else runs.                                       *)
BadRequest(r, c, n) ==
    /\ CanDeduct(balance[c.user], n)
    /\ ~Routable(c)
    /\ Admitted(r, c, n)
    /\ balance' = [balance EXCEPT ![c.user] = Refunded(Deducted(@, n), n)]
    /\ End(r, "refused", 400)

Forward(r, c, n) ==
    /\ CanDeduct(balance[c.user], n)
    /\ Routable(c)
    /\ Admitted(r, c, n)
    /\ balance' = [balance EXCEPT ![c.user] = Deducted(@, n)]
    /\ pc' = [pc EXCEPT ![r] = IF c.stream THEN "created" ELSE "posted"]
    /\ UNCHANGED status

Handle(r, c, n) ==
    \/ NegativeEstimate(r, c, n)
    \/ InsufficientQuota(r, c, n)
    \/ BadRequest(r, c, n)
    \/ Forward(r, c, n)

(* One HTTP request arrives and runs up to its first await.                *)
Arrive(r) ==
    /\ \A q \in 1..(r - 1) : pc[q] # "idle"
    /\ \/ Unauthorized(r)
       \/ \E c \in Calls :
            \/ RateLimited(r, c)
            \/ Uncountable(r, c)
            \/ \E p \in PromptTokens, m \in MaxTokens : Handle(r, c, Estimate(p, m))

-----------------------------------------------------------------------------
(* The non-streaming half: one of these follows the awaited post.          *)

(* httpx.HTTPError, the 30 s timeouts included.                            *)
TransportError(r) ==
    /\ pc[r] = "posted"
    /\ Refund(r)
    /\ End(r, "refunded", 502)

UpstreamStatus(r) ==
    /\ pc[r] = "posted"
    /\ Refund(r)
    /\ \E code \in UpstreamErrors : End(r, "refunded", code)

(* The body is not JSON.                                                   *)
MalformedBody(r) ==
    /\ pc[r] = "posted"
    /\ Refund(r)
    /\ End(r, "refunded", 502)

(* JSON of another shape (a list, usage: null): the adapter or settle      *)
(* raises AttributeError or TypeError, which the handler does not catch.   *)
UnexpectedShape(r) ==
    /\ pc[r] = "posted"
    /\ End(r, "stranded", 500)
    /\ UNCHANGED <<balance, tokens, call, estimate, log>>

Completed(r, usage) ==
    /\ pc[r] = "posted"
    /\ \E read \in Translated(call[r].provider, usage) : SettleAndLog(r, read)
    /\ End(r, "settled", 200)

(* JSONResponse is built last and cannot write everything json reads (NaN, *)
(* half of a surrogate pair): settled and logged, but the answer is a 500. *)
Unrendered(r, usage) ==
    /\ pc[r] = "posted"
    /\ \E read \in Translated(call[r].provider, usage) : SettleAndLog(r, read)
    /\ End(r, "settled", 500)

-----------------------------------------------------------------------------
(* The streaming half.                                                     *)

(* Starlette sends status 200 and takes the generator's first step.        *)
StartStream(r) ==
    /\ pc[r] = "created"
    /\ End(r, "relaying", 200)
    /\ UNCHANGED <<balance, tokens, call, estimate, log>>

(* The client leaves while Starlette sends the response's head: closing a  *)
(* generator that never ran runs none of its body.                         *)
Abandon(r) ==
    /\ pc[r] = "created"
    /\ pc' = [pc EXCEPT ![r] = "stranded"]
    /\ UNCHANGED <<balance, tokens, call, estimate, status, log>>

(* An exception inside the generator: transport error, upstream status of  *)
(* 400 or more, or a last data chunk that is no object.                    *)
StreamFails(r) ==
    /\ pc[r] = "relaying"
    /\ Refund(r)
    /\ pc' = [pc EXCEPT ![r] = "refunded"]
    /\ UNCHANGED status

Disconnect(r) ==
    /\ pc[r] = "relaying"
    /\ pc' = [pc EXCEPT ![r] = "closing"]
    /\ UNCHANGED <<balance, tokens, call, estimate, status, log>>

(* CancelledError or GeneratorExit reaches the suspended generator.        *)
CloseGenerator(r) ==
    /\ pc[r] = "closing"
    /\ Refund(r)
    /\ pc' = [pc EXCEPT ![r] = "refunded"]
    /\ UNCHANGED status

StreamCompleted(r, usage) ==
    /\ pc[r] = "relaying"
    /\ SettleAndLog(r, StreamUsage(call[r].provider, usage))
    /\ pc' = [pc EXCEPT ![r] = "settled"]
    /\ UNCHANGED status

-----------------------------------------------------------------------------
PostEnds(r) ==
    \/ TransportError(r)
    \/ UpstreamStatus(r)
    \/ MalformedBody(r)
    \/ UnexpectedShape(r)
    \/ \E usage \in Usages : Completed(r, usage) \/ Unrendered(r, usage)

StreamSteps(r) ==
    \/ StartStream(r)
    \/ Abandon(r)
    \/ StreamFails(r)
    \/ Disconnect(r)
    \/ CloseGenerator(r)
    \/ \E usage \in Usages : StreamCompleted(r, usage)

Next == \E r \in Requests : Arrive(r) \/ PostEnds(r) \/ StreamSteps(r)

Spec == Init /\ [][Next]_vars

-----------------------------------------------------------------------------
(* Type invariant.  A balance is never negative: no interleaving of        *)
(* pre-consumes, overages and refunds overdraws a user.                    *)
TypeOK ==
    /\ balance \in [Users -> Nat]
    /\ tokens \in [Users -> 0..Capacity]
    /\ pc \in [Requests -> {"idle"} \cup Holding \cup Ended]
    /\ call \in [Requests -> Calls \cup {None}]
    /\ estimate \in [Requests -> Nat]
    /\ status \in [Requests -> Statuses \cup {None}]
    /\ log \in [Requests -> Nat \cup {None}]

CallOf(u, r) == call[r] # None /\ call[r].user = u

(* What request r has cost user u: its estimate while its fate is open or  *)
(* when it was forgotten; once settled, at least the smaller of estimate   *)
(* and reported charge, and at most the reported charge.                   *)
Least(u) == [r \in Requests |->
    IF ~CallOf(u, r) THEN 0
    ELSE IF pc[r] \in Holding \cup {"stranded"} THEN estimate[r]
    ELSE IF pc[r] # "settled" THEN 0
    ELSE IF log[r] < estimate[r] THEN log[r] ELSE estimate[r]]

Most(u) == [r \in Requests |->
    IF ~CallOf(u, r) THEN 0
    ELSE IF pc[r] \in Holding \cup {"stranded"} THEN estimate[r]
    ELSE IF pc[r] = "settled" THEN log[r] ELSE 0]

(* The books balance at every moment: what is missing from a user's        *)
(* balance is what the open estimates, the forgotten ones and the call log *)
(* account for, never more than the log reports, and less only by          *)
(* overages the balance could not bear (quota.settle).  Refused and        *)
(* refunded calls cost nothing, and other users' calls cost u nothing.     *)
BooksBalance == \A u \in Users :
    /\ Total(Least(u), NumRequests) <= Deposit[u] - balance[u]
    /\ Deposit[u] - balance[u] <= Total(Most(u), NumRequests)

(* What the ledger sees of a request.                                      *)
Owner == [r \in Requests |-> IF pc[r] \in {"idle", "refused"} THEN None ELSE call[r].user]

Phase == [r \in Requests |->
    IF pc[r] \in {"idle", "refused"} THEN "none"
    ELSE IF pc[r] \in Holding THEN "holding"
    ELSE IF pc[r] = "refunded" THEN "released" ELSE "captured"]

Held == [r \in Requests |-> IF pc[r] \in Holding THEN estimate[r] ELSE 0]

Quotas == INSTANCE Ledger WITH
    NoUser <- None, funds <- balance, owner <- Owner, phase <- Phase, held <- Held

(* The handler implements the ledger: each request deducts once, ends once,*)
(* is refunded in full or charged what the balance can bear, and no other  *)
(* step moves any balance.                                                 *)
ImplementsLedger == Quotas!Spec

(* A posted call is answered even if the upstream never answers: the       *)
(* client's 30 s timeouts turn silence into a 502 and a refund.            *)
PostedCallsEnd == \A r \in Requests : pc[r] = "posted" ~> pc[r] \in Ended

(* A client that leaves a running stream gets its estimate back: the       *)
(* `except BaseException' of _relay_stream also sees GeneratorExit.        *)
DisconnectsAreRefunded == \A r \in Requests : pc[r] = "closing" ~> pc[r] = "refunded"
=============================================================================
