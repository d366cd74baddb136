------------------------------ MODULE Fallback -------------------------------
(***************************************************************************)
(* s13's POST /v1/chat/completions: one request tries the channels of      *)
(* s10's registry one after the other until one answers                    *)
(* (s13_retry_fallback/code.py on s10_channel_management/channels.py and   *)
(* s07_pre_consume_settle/quota.py, whose arithmetic is that of Quota).    *)
(*                                                                         *)
(* The registry is shared: administrators add channels while requests run, *)
(* and every request marks the channels it sees fail.  A request works on  *)
(* the copy of the registry it took when it arrived.                       *)
(***************************************************************************)
EXTENDS Quota, Totals, Sequences

CONSTANTS Users, NumRequests, Deposit, PromptTokens, MaxTokens,
          UsageTokens,      \* counts an upstream may report, None included
          ContentTokens,    \* a quarter of an answer's length, at least 1
          UpstreamErrors,
          Priorities,
          MaxChannels       \* bound on the registry

Requests == 1..NumRequests

ASSUME FallbackAssumption ==
    /\ NumRequests \in Nat
    /\ None \notin Users
    /\ Deposit \in [Users -> Nat]
    /\ PromptTokens \subseteq Nat
    /\ MaxTokens \subseteq Int \cup {None}
    /\ UsageTokens \subseteq Nat \cup {None}
    /\ ContentTokens \subseteq Nat \ {0}
    /\ UpstreamErrors \subseteq 400..599
    /\ Priorities \subseteq Int
    /\ MaxChannels \in Nat

VARIABLES priority,    \* per channel, in the order of registration
          healthy,     \* per channel
          balance,
          pc, user, estimate, prompt,
          snapshot,    \* the healthy channels of a request's copy
          at,          \* the one of them it is trying
          lastStatus,  \* the last error status an upstream answered
          status,      \* what the client got
          charged      \* what a request was settled for, or None

registry == <<priority, healthy>>
locals == <<user, estimate, prompt, snapshot, charged>>
vars == <<priority, healthy, balance, pc, user, estimate, prompt, snapshot, at,
          lastStatus, status, charged>>

-----------------------------------------------------------------------------
Channels == 1..Len(healthy)

Statuses == {200, 400, 401, 402, 422, 429, 500, 502, 503} \cup UpstreamErrors

Ended == {"refused", "refunded", "settled", "stranded"}

Init ==
    /\ priority = <<>>
    /\ healthy = <<>>
    /\ balance = Deposit
    /\ pc = [r \in Requests |-> "idle"]
    /\ user = [r \in Requests |-> None]
    /\ estimate = [r \in Requests |-> 0]
    /\ prompt = [r \in Requests |-> 0]
    /\ snapshot = [r \in Requests |-> {}]
    /\ at = [r \in Requests |-> 0]
    /\ lastStatus = [r \in Requests |-> None]
    /\ status = [r \in Requests |-> None]
    /\ charged = [r \in Requests |-> None]

(* POST /admin/channels: a new channel is enabled and healthy.             *)
CreateChannel(p) ==
    /\ Len(healthy) < MaxChannels
    /\ priority' = Append(priority, p)
    /\ healthy' = Append(healthy, TRUE)
    /\ UNCHANGED <<balance, pc, locals, at, lastStatus, status>>

-----------------------------------------------------------------------------
(* Channels are numbered as they are registered, which is the order of     *)
(* list_channels.  Nothing ever clears `enabled'.                          *)
HealthyChannels == {c \in Channels : healthy[c]}

(* A fault for the mutation runs: the channel registered last goes first.  *)
Last(cs) == CHOOSE c \in cs : \A d \in cs : d <= c

First(cs) == CHOOSE c \in cs : \A d \in cs : c <= d

End(r, how, code) ==
    /\ pc' = [pc EXCEPT ![r] = how]
    /\ status' = [status EXCEPT ![r] = code]

(* Answers that cost nothing: bad key, bad body, the rate limiter's 429    *)
(* (its bucket is TokenBucket's subject), a model without a provider, a    *)
(* text that the token counter raises on.                                  *)
Turned(r) ==
    /\ \E code \in {401, 422, 429, 400, 500} : End(r, "refused", code)
    /\ UNCHANGED <<registry, balance, locals, at, lastStatus>>

(* deduct raises ValueError on a negative estimate, or returns False.      *)
NotDeducted(r, u, n) ==
    /\ ~CanDeduct(balance[u], n)
    /\ End(r, "refused", IF n < 0 THEN 500 ELSE 402)
    /\ UNCHANGED <<registry, balance, locals, at, lastStatus>>

(* No channels, or none healthy: deducted, and refunded at once.           *)
NoCandidate(r, u, n) ==
    /\ CanDeduct(balance[u], n)
    /\ HealthyChannels = {}
    /\ balance' = [balance EXCEPT ![u] = Refunded(Deducted(@, n), n)]
    /\ End(r, "refused", IF Channels = {} THEN 503 ELSE 502)
    /\ UNCHANGED <<registry, locals, at, lastStatus>>

(* Deducts, copies the registry and posts to the first healthy channel.    *)
Try(r, u, p, n) ==
    /\ CanDeduct(balance[u], n)
    /\ HealthyChannels # {}
    /\ balance' = [balance EXCEPT ![u] = Deducted(@, n)]
    /\ pc' = [pc EXCEPT ![r] = "trying"]
    /\ user' = [user EXCEPT ![r] = u]
    /\ estimate' = [estimate EXCEPT ![r] = n]
    /\ prompt' = [prompt EXCEPT ![r] = p]
    /\ snapshot' = [snapshot EXCEPT ![r] = HealthyChannels]
    /\ at' = [at EXCEPT ![r] = First(HealthyChannels)]
    /\ UNCHANGED <<registry, lastStatus, status, charged>>

(* A request arrives and runs up to its first await.                       *)
Arrive(r) ==
    /\ pc[r] = "idle"
    /\ \A q \in 1..(r - 1) : pc[q] # "idle"
    /\ \/ Turned(r)
       \/ \E u \in Users, p \in PromptTokens, m \in MaxTokens :
            \/ NotDeducted(r, u, Estimate(p, m))
            \/ NoCandidate(r, u, Estimate(p, m))
            \/ Try(r, u, p, Estimate(p, m))

-----------------------------------------------------------------------------
(* The channels of its copy that r has still to try.                       *)
Untried(r) == {c \in snapshot[r] : c > at[r]}

(* Faults for the mutation runs: the mark forgotten, the last channel left *)
(* out, and a refund or another deduction for every failed channel.        *)
Unmarked(c) == healthy

OneTooFew(r) == \E c, d \in Untried(r) : c # d

RefundedMove(r) ==
    /\ at' = [at EXCEPT ![r] = First(Untried(r))]
    /\ balance' = [balance EXCEPT ![user[r]] = Refunded(@, estimate[r])]
    /\ UNCHANGED <<pc, status>>

DeductingMove(r) ==
    /\ at' = [at EXCEPT ![r] = First(Untried(r))]
    /\ balance' = [balance EXCEPT ![user[r]] = Deducted(@, estimate[r])]
    /\ UNCHANGED <<pc, status>>

-----------------------------------------------------------------------------
MarkedUnhealthy(c) == [healthy EXCEPT ![c] = FALSE]

HasNext(r) == Untried(r) # {}

MoveOn(r) ==
    /\ at' = [at EXCEPT ![r] = First(Untried(r))]
    /\ UNCHANGED <<balance, pc, status>>

Exhaust(r) ==
    /\ pc' = [pc EXCEPT ![r] = "exhausted"]
    /\ UNCHANGED <<balance, at, status>>

(* The channel being tried failed.                                         *)
Escalate(r, last) ==
    /\ pc[r] = "trying"
    /\ healthy' = MarkedUnhealthy(at[r])
    /\ lastStatus' = [lastStatus EXCEPT ![r] = last]
    /\ IF HasNext(r) THEN MoveOn(r) ELSE Exhaust(r)
    /\ UNCHANGED <<priority, locals>>

(* httpx.HTTPError, the 30 s timeouts included.                            *)
TransportError(r) == Escalate(r, lastStatus[r])

UpstreamStatus(r) == \E code \in UpstreamErrors : Escalate(r, code)

(* All channels failed and the client's connections are closed, which is   *)
(* awaited: the refund, and the last status seen.                          *)
GiveUp(r) ==
    /\ pc[r] = "exhausted"
    /\ balance' = [balance EXCEPT ![user[r]] = Refunded(@, estimate[r])]
    /\ End(r, "refunded", IF lastStatus[r] = None THEN 502 ELSE lastStatus[r])
    /\ UNCHANGED <<registry, locals, at, lastStatus>>

(* An answer below 400, a redirect included, whose body is not the JSON    *)
(* the handler reads: it raises on the way to settle.  The channel stays   *)
(* in service, though s13/code.py:3-5 has any non-2xx answer mark it.      *)
UnexpectedBody(r) ==
    /\ pc[r] = "trying"
    /\ End(r, "stranded", 500)
    /\ UNCHANGED <<registry, balance, locals, at, lastStatus>>

(* The local prompt count is a lower bound of the reported one.            *)
ActualPrompt(r, reported) ==
    IF reported = None \/ reported < prompt[r] THEN prompt[r] ELSE reported

(* The settlement comes before JSONResponse writes the answer out, which   *)
(* raises on NaN and on a lone surrogate: a 500 that was paid for.         *)
Succeed(r, reported, completion) ==
    LET actual == (ActualPrompt(r, reported) + completion) * RATE_PER_TOKEN
    IN  /\ pc[r] = "trying"
        /\ balance' = [balance EXCEPT ![user[r]] = QuotaSettled(@, estimate[r], actual)]
        /\ charged' = [charged EXCEPT ![r] = actual]
        /\ \E code \in {200, 500} : End(r, "settled", code)
        /\ UNCHANGED <<registry, user, estimate, prompt, snapshot, at, lastStatus>>

(* The completion is counted by the upstream, or else by its length.       *)
Completed(r) ==
    \E reported \in UsageTokens, completion \in (UsageTokens \ {None}) \cup ContentTokens :
        Succeed(r, reported, completion)

-----------------------------------------------------------------------------
Next ==
    \/ \E p \in Priorities : CreateChannel(p)
    \/ \E r \in Requests :
         \/ Arrive(r)
         \/ TransportError(r)
         \/ UpstreamStatus(r)
         \/ GiveUp(r)
         \/ UnexpectedBody(r)
         \/ Completed(r)

Spec == Init /\ [][Next]_vars

-----------------------------------------------------------------------------
(* Type invariant.  No balance is overdrawn, and a request being served is *)
(* always at a channel of its copy.                                        *)
TypeOK ==
    /\ priority \in Seq(Priorities)
    /\ healthy \in Seq(BOOLEAN)
    /\ Len(priority) = Len(healthy)
    /\ balance \in [Users -> Nat]
    /\ pc \in [Requests -> {"idle", "trying", "exhausted"} \cup Ended]
    /\ user \in [Requests -> Users \cup {None}]
    /\ estimate \in [Requests -> Nat]
    /\ prompt \in [Requests -> Nat]
    /\ snapshot \in [Requests -> SUBSET Channels]
    /\ at \in [Requests -> Channels \cup {0}]
    /\ \A r \in Requests : snapshot[r] # {} => at[r] \in snapshot[r]
    /\ lastStatus \in [Requests -> UpstreamErrors \cup {None}]
    /\ status \in [Requests -> Statuses \cup {None}]
    /\ charged \in [Requests -> Nat \cup {None}]

(* The channels request r has given up on.                                 *)
GivenUp(r) ==
    IF pc[r] \in {"exhausted", "refunded"} THEN snapshot[r] ELSE {c \in snapshot[r] : c < at[r]}

(* Health is what the requests saw: a channel is out of service exactly    *)
(* when some request failed on it, however many requests were in flight    *)
(* and whatever their copies said.  Failing is what the code takes for it: *)
(* no answer, or a status from 400 on.  Nothing brings a channel back: the *)
(* route that s13/README.md:43 has for it is in no chapter.                *)
HealthIsWhatFailed ==
    \A c \in Channels : ~healthy[c] <=> \E r \in Requests : c \in GivenUp(r)

(* The order of registration stands in for a priority: a request is with a *)
(* channel, or was served or lost by it, only while every channel that was *)
(* registered before that one is out of service, also when earlier         *)
(* channels fail in other requests and new ones come in meanwhile.         *)
BackupsWait == \A r \in Requests : snapshot[r] # {} =>
    \A c \in 1..(at[r] - 1) : ~healthy[c]

(* What request r has cost user u: its estimate until it is refunded and   *)
(* when an unexpected body ended it; once settled at most what it was      *)
(* settled for, and at least the smaller of that and the estimate.         *)
Most(u) == [r \in Requests |->
    IF user[r] # u THEN 0
    ELSE IF pc[r] \in {"trying", "exhausted", "stranded"} THEN estimate[r]
    ELSE IF pc[r] = "settled" THEN charged[r] ELSE 0]

Least(u) == [r \in Requests |->
    IF pc[r] = "settled" /\ estimate[r] < Most(u)[r]
    THEN estimate[r] ELSE Most(u)[r]]

(* The books of the failover: what is missing from a balance is what that  *)
(* user's requests account for, one estimate each however many channels    *)
(* they went through.  An unexpected body loses its own request's estimate *)
(* and nothing else.                                                       *)
SpendingAccounted == \A u \in Users :
    /\ Total(Least(u), NumRequests) <= Deposit[u] - balance[u]
    /\ Deposit[u] - balance[u] <= Total(Most(u), NumRequests)

(* What the ledger sees of a request.                                      *)
Owner == user

Phase == [r \in Requests |->
    IF pc[r] \in {"trying", "exhausted"} THEN "holding"
    ELSE IF pc[r] = "refunded" THEN "released"
    ELSE IF pc[r] \in {"settled", "stranded"} THEN "captured" ELSE "none"]

Held == [r \in Requests |-> IF Phase[r] = "holding" THEN estimate[r] ELSE 0]

Quotas == INSTANCE Ledger WITH
    NoUser <- None, funds <- balance, owner <- Owner, phase <- Phase, held <- Held

(* However many channels a request goes through, it deducts once and is    *)
(* refunded or settled once.                                               *)
ImplementsLedger == Quotas!Spec
=============================================================================
