------------------------------- MODULE Relays --------------------------------
(***************************************************************************)
(* The chat handlers of the first eight chapters, s01's relay to s08's     *)
(* rate-limited, billed one.  Each chapter is an application of its own;   *)
(* `app' says which of them runs.  What they share, asking one upstream    *)
(* and answering with what it says, is modelled once, and what a chapter   *)
(* adds is a condition on app: s04 adapters, s05 keys, s06 token counts,   *)
(* s07 quota, s08 the bucket of TokenBucket, whose module this one         *)
(* extends.  The requests are one user's.  In s08 the user also sends      *)
(* requests that are not followed: they take from the bucket and leave the *)
(* balance as it was, as those for an unknown model do.                    *)
(***************************************************************************)
EXTENDS TokenBucket

CONSTANTS DefaultMaxTokens,  \* the 256 of s07's and s08's estimate
          ClaudeMaxTokens,   \* the 1024 of ClaudeProvider.to_upstream
          User, Deposit,
          Apps,
          NumRequests,
          Followed,          \* bound: how many requests are followed, per app
          Bodies,            \* requests a client may send
          Answers,           \* objects an upstream may answer
          UpstreamErrors

INSTANCE Adapters

Q == INSTANCE Quota

Text == [chars : Nat, tokens : Nat]

(* A request as a client sends it.                                         *)
Body == [family : Families, messages : Seq([role : Roles, text : Text]),
         maxTokens : Int \cup {None}, system : Text \cup {None}, stream : BOOLEAN]

(* An upstream's JSON object: its counts and the length of the text of its *)
(* first choice, None if it has no choice.                                 *)
Answer == [usage : [prompt : Nat \cup {None}, completion : Nat \cup {None},
                    total : Nat \cup {None}],
           chars : Nat \cup {None}]

ASSUME RelayAssumption ==
    /\ None \notin Int \cup Body
    /\ DefaultMaxTokens \in Nat \ {0}
    /\ ClaudeMaxTokens \in Nat
    /\ User # None
    /\ Deposit \in Nat
    /\ NumRequests \in Nat
    /\ Followed \in [Apps -> 0..NumRequests]
    /\ Bodies \subseteq Body
    /\ Answers \subseteq Answer
    /\ UpstreamErrors \subseteq 400..599

VARIABLES app,
          balance,
          pc,
          call,       \* the body as the chapter's model read it
          sent,       \* what went upstream
          estimate,
          answer,     \* the upstream's object, once read
          told,       \* the usage the client is told
          charged,    \* the quota_charged the client is told, or None
          status

relayVars == <<app, balance, pc, call, sent, estimate, answer, told, charged, status>>
allVars == <<vars, relayVars>>

Requests == 1..NumRequests

Adapted == {"s04", "s05", "s06", "s07", "s08"}
Keyed == {"s05", "s06", "s07", "s08"}
Counted == {"s06", "s07", "s08"}
Billed == {"s07", "s08"}

Ended == {"refused", "failed", "stranded", "unrendered", "answered", "relayed", "cut"}

RelayInit ==
    /\ Init
    /\ app \in Apps
    /\ balance = Deposit
    /\ pc = [r \in Requests |-> "idle"]
    /\ call = [r \in Requests |-> None]
    /\ sent = [r \in Requests |-> None]
    /\ estimate = [r \in Requests |-> 0]
    /\ answer = [r \in Requests |-> None]
    /\ told = [r \in Requests |-> None]
    /\ charged = [r \in Requests |-> None]
    /\ status = [r \in Requests |-> None]

-----------------------------------------------------------------------------
(* Fields a chapter's request model does not have are dropped unread.      *)
Accepted(body) ==
    [family    |-> body.family,
     messages  |-> body.messages,
     maxTokens |-> IF app \in {"s02", "s04", "s05"} \cup Billed THEN body.maxTokens ELSE None,
     system    |-> IF app \in {"s04", "s05"} THEN body.system ELSE None,
     stream    |-> app \in {"s02", "s03"} /\ body.stream]

(* Before s04 there is one upstream and its protocol is the client's.      *)
Provider(body) == IF app \in Adapted THEN PickProvider(body.family) ELSE "openai"

LocalCount(body) == CountPrompt(body.family, body.messages)

Estimated(body) ==
    IF app \in Billed THEN Q!Estimate(LocalCount(body), body.maxTokens) ELSE 0

Goto(r, to, code) ==
    /\ pc' = [pc EXCEPT ![r] = to]
    /\ status' = [status EXCEPT ![r] = code]

(* 422 for a body its model rejects, 401 where keys are asked for.         *)
TurnedAway(r) ==
    /\ \E code \in {422} \cup IF app \in Keyed THEN {401} ELSE {} : Goto(r, "refused", code)
    /\ UNCHANGED <<vars, app, balance, call, sent, estimate, answer, told, charged>>

(* s08's take says no.                                                     *)
Limited(r) ==
    /\ app = "s08"
    /\ Deny
    /\ Goto(r, "refused", 429)
    /\ UNCHANGED <<app, balance, call, sent, estimate, answer, told, charged>>

Admitted == IF app = "s08" THEN Grant ELSE UNCHANGED vars

(* The encoder raises on a text that spells one of its special tokens.     *)
Uncountable(r) ==
    /\ app \in Counted
    /\ Admitted
    /\ Goto(r, "refused", 500)
    /\ UNCHANGED <<app, balance, call, sent, estimate, answer, told, charged>>

NotDeducted(r, body) ==
    /\ Admitted
    /\ app \in Billed
    /\ ~Q!CanDeduct(balance, Estimated(body))
    /\ Goto(r, "refused", IF Estimated(body) < 0 THEN 500 ELSE 402)
    /\ UNCHANGED <<app, balance, call, sent, estimate, answer, told, charged>>

(* s07 and s08 have deducted by then and refund.                           *)
UnknownModel(r, body) ==
    /\ Admitted
    /\ Q!CanDeduct(balance, Estimated(body))
    /\ Provider(body) = None
    /\ balance' = Q!Refunded(Q!Deducted(balance, Estimated(body)), Estimated(body))
    /\ Goto(r, "refused", 400)
    /\ UNCHANGED <<app, call, sent, estimate, answer, told, charged>>

(* Goes upstream.  s03 has sent a streaming client the head of a 200 when  *)
(* its generator asks.                                                     *)
Forward(r, body) ==
    /\ Admitted
    /\ Q!CanDeduct(balance, Estimated(body))
    /\ Provider(body) # None
    /\ balance' = Q!Deducted(balance, Estimated(body))
    /\ estimate' = [estimate EXCEPT ![r] = Estimated(body)]
    /\ call' = [call EXCEPT ![r] = body]
    /\ sent' = [sent EXCEPT ![r] = ToUpstream(Provider(body), body)]
    /\ IF app = "s03" /\ body.stream
       THEN Goto(r, "streaming", 200)
       ELSE Goto(r, "posted", None)
    /\ UNCHANGED <<app, answer, told, charged>>

Arrive(r) ==
    /\ pc[r] = "idle"
    /\ r <= Followed[app]
    /\ \A q \in 1..(r - 1) : pc[q] # "idle"
    /\ \/ TurnedAway(r)
       \/ Limited(r)
       \/ Uncountable(r)
       \/ \E body \in Bodies :
            \/ NotDeducted(r, Accepted(body))
            \/ UnknownModel(r, Accepted(body))
            \/ Forward(r, Accepted(body))

-----------------------------------------------------------------------------
(* A fault for the mutation runs: the refund left out.                     *)
KeptFailure(r, code) ==
    /\ pc[r] = "posted"
    /\ Goto(r, "failed", code)
    /\ UNCHANGED <<vars, app, balance, call, sent, estimate, answer, told, charged>>

(* A call that failed upstream: what was deducted for it is refunded.      *)
Fails(r, code) ==
    /\ pc[r] = "posted"
    /\ balance' = Q!Refunded(balance, estimate[r])
    /\ Goto(r, "failed", code)
    /\ UNCHANGED <<vars, app, call, sent, estimate, answer, told, charged>>

(* A fault for the mutation runs: s06 without the timeout.                 *)
UntimedPost(r) == app # "s06" /\ Fails(r, 502)

(* httpx.HTTPError, the 30 s timeouts included; s06 catches none.          *)
TransportError(r) == Fails(r, IF app = "s06" THEN 500 ELSE 502)

UpstreamStatus(r) == \E code \in UpstreamErrors : Fails(r, code)

(* Can the chapter read this object?  Adapters have a default for all they *)
(* look up.  What s02's response model rejects is Unreadable.              *)
Reads(r, a) ==
    \/ app \notin Counted
    \/ Provider(call[r]) # "openai"
    \/ a.chars # None
    \/ app = "s06" /\ a.usage.total \notin {None, 0}

(* JSON that is no object passes where nothing looks into it.              *)
ReadsAnything(r) == app = "s03" \/ (app \in {"s04", "s05"} /\ Provider(call[r]) = "openai")

(* Below 400 and no JSON, or JSON the handler cannot read (counts of null, *)
(* where it adds or compares them): it raises, in s07 and s08 on the way   *)
(* to settle.  In the other chapters also JSON that cannot be written out. *)
Unreadable(r) ==
    /\ pc[r] = "posted"
    /\ Goto(r, IF app \in Billed THEN "stranded" ELSE "failed", 500)
    /\ UNCHANGED <<vars, app, balance, call, sent, estimate, answer, told, charged>>

PassedOn(r) ==
    /\ pc[r] = "posted"
    /\ ReadsAnything(r)
    /\ Goto(r, "answered", 200)
    /\ UNCHANGED <<vars, app, balance, call, sent, estimate, answer, told, charged>>

-----------------------------------------------------------------------------
(* s06 fills in a usage without a total, and lifts the prompt of another.  *)
FilledIn(local, usage, chars) ==
    IF usage.total \in {None, 0}
    THEN [prompt |-> local, completion |-> CountLength(chars),
          total |-> local + CountLength(chars)]
    ELSE [usage EXCEPT !.prompt = AtLeast(local, OrZero(@))]

(* A fault for the mutation runs: the upstream's prompt count as it is.    *)
TrustedUsage(local, usage, chars) ==
    LET completion == IF usage.completion = None THEN CountLength(chars) ELSE usage.completion
    IN  [prompt |-> OrZero(usage.prompt), completion |-> completion,
         total |-> OrZero(usage.prompt) + completion]

(* s07 and s08 replace the usage by what they bill.                        *)
BilledUsage(local, usage, chars) ==
    LET prompt == AtLeast(local, OrZero(usage.prompt))
        completion == IF usage.completion = None THEN CountLength(chars) ELSE usage.completion
    IN  [prompt |-> prompt, completion |-> completion, total |-> prompt + completion]

ToldUsage(r, a) ==
    LET usage == UsageFromUpstream(Provider(call[r]), a.usage)
        chars == OrZero(a.chars)
    IN  CASE app \in Billed  -> BilledUsage(LocalCount(call[r]), usage, chars)
          [] app = "s06"     -> FilledIn(LocalCount(call[r]), usage, chars)
          [] app \notin Counted -> usage

Actual(r, a) == ToldUsage(r, a).total * Q!RATE_PER_TOKEN

(* quota.settle on what is held for the request.                           *)
Settlement(r, a) == Q!QuotaSettled(balance, estimate[r], Actual(r, a))

Completed(r, a) ==
    /\ pc[r] = "posted"
    /\ Reads(r, a)
    /\ answer' = [answer EXCEPT ![r] = a]
    /\ told' = [told EXCEPT ![r] = ToldUsage(r, a)]
    /\ IF app \in Billed
       THEN /\ balance' = Settlement(r, a)
            /\ charged' = [charged EXCEPT ![r] = Actual(r, a)]
       ELSE UNCHANGED <<balance, charged>>
    /\ Goto(r, "answered", 200)
    /\ UNCHANGED <<vars, app, call, sent, estimate>>

(* s07 and s08 settle before JSONResponse writes the answer out, which     *)
(* raises on NaN and on a lone surrogate: a 500 that was paid for.         *)
Unrendered(r, a) ==
    /\ pc[r] = "posted"
    /\ app \in Billed
    /\ Reads(r, a)
    /\ balance' = Settlement(r, a)
    /\ Goto(r, "unrendered", 500)
    /\ UNCHANGED <<vars, app, call, sent, estimate, answer, told, charged>>

(* s03's stream passes on the upstream's bytes, an error's body included,  *)
(* until they end, the connection breaks or the client leaves.  Its read   *)
(* has no timeout.                                                         *)
StreamEnds(r) ==
    /\ pc[r] = "streaming"
    /\ \E how \in {"relayed", "cut"} : pc' = [pc EXCEPT ![r] = how]
    /\ UNCHANGED <<vars, app, balance, call, sent, estimate, answer, told, charged, status>>

-----------------------------------------------------------------------------
RelayNext ==
    \/ \E r \in Requests :
         \/ Arrive(r)
         \/ TransportError(r)
         \/ UpstreamStatus(r)
         \/ Unreadable(r)
         \/ PassedOn(r)
         \/ \E a \in Answers : Completed(r, a) \/ Unrendered(r, a)
         \/ StreamEnds(r)
    \/ app = "s08" /\ Next /\ UNCHANGED relayVars

RelaySpec == RelayInit /\ [][RelayNext]_allVars

(* The awaited post ends by an answer or by the client's timeout.          *)
RelayFairSpec == RelaySpec /\ \A r \in Requests : WF_allVars(TransportError(r))
-----------------------------------------------------------------------------
(* Type invariant: the bucket's and the relays' part; what is answered has *)
(* a status.                                                               *)
RelayTypeOK ==
    /\ TypeOK
    /\ app \in Apps
    /\ balance \in Nat
    /\ pc \in [Requests -> {"idle", "posted", "streaming"} \cup Ended]
    /\ call \in [Requests -> Body \cup {None}]
    /\ estimate \in [Requests -> Nat]
    /\ answer \in [Requests -> Answer \cup {None}]
    /\ charged \in [Requests -> Nat \cup {None}]
    /\ status \in [Requests -> {None, 200} \cup 400..599]
    /\ \A r \in Requests :
          /\ status[r] = None <=> pc[r] \in {"idle", "posted"}
          /\ call[r] = None <=> pc[r] \in {"idle", "refused"}

(* What a client who states max_tokens has reserved is enough: the charge  *)
(* exceeds the estimate only if the upstream counts the prompt higher than *)
(* the chapter does, leaves the completion's count out or exceeds the      *)
(* limit it was sent.  A Gemini upstream is sent none (adapters.py:99).    *)
WithinReserve ==
    \A r \in Requests :
        charged[r] # None /\ call[r].maxTokens # None /\ charged[r] > estimate[r] =>
            \/ Provider(call[r]) = "gemini"
            \/ OrZero(answer[r].usage.prompt) > LocalCount(call[r])
            \/ answer[r].usage.completion = None
            \/ answer[r].usage.completion > sent[r].limit

(* A usage that s06 to s08 report covers the prompt as counted locally; a  *)
(* text comes with a completion of 0 only if the upstream said so or an    *)
(* adapter wrote 0 for a missing count; and what is billed is their sum.   *)
UsageIsCounted ==
    \A r \in Requests : app \in Counted /\ told[r] # None =>
        /\ told[r].prompt >= LocalCount(call[r])
        /\ told[r].completion = 0 =>
              \/ answer[r].usage.completion = 0
              \/ answer[r].usage.completion = None /\ Provider(call[r]) # "openai"
        /\ app \in Billed =>
              told[r].total = told[r].prompt + told[r].completion /\ charged[r] = told[r].total

(* Who spoke, and what: a conversation as a provider and as a client see   *)
(* it.                                                                     *)
Spoken(turns) ==
    [i \in DOMAIN turns |-> [reply |-> turns[i].role \in {"assistant", "model"},
                             text  |-> turns[i].text]]

Prompted(system, turns) ==
    (IF IsBlank(system) THEN <<>> ELSE <<[reply |-> FALSE, text |-> system]>>) \o Spoken(turns)

(* Whatever the provider, it is sent the conversation the client sent: the *)
(* system prompt, if the chapter knows one, before all turns, every turn   *)
(* in its place, and no reply taken for a prompt.                          *)
ConversationKept ==
    \A r \in Requests : sent[r] # None =>
        Prompted(sent[r].system, sent[r].turns) = Prompted(call[r].system, call[r].messages)

(* s07's and s08's handlers move their users' quota as Ledger says.  What  *)
(* an unreadable answer strands is held for good.                          *)
LedgerPhase(r) ==
    CASE app \notin Billed \/ pc[r] \in {"idle", "refused"} -> "none"
      [] app \in Billed /\ pc[r] \in {"posted", "stranded"} -> "holding"
      [] app \in Billed /\ pc[r] = "failed" -> "released"
      [] app \in Billed /\ pc[r] \in {"answered", "unrendered"} -> "captured"

Funds == [u \in {User} |-> balance]
Owner == [r \in Requests |-> IF LedgerPhase(r) = "none" THEN None ELSE User]
Phase == [r \in Requests |-> LedgerPhase(r)]
Held == [r \in Requests |-> IF LedgerPhase(r) = "holding" THEN estimate[r] ELSE 0]

Quotas ==
    INSTANCE Ledger WITH
        Users   <- {User},
        NoUser  <- None,
        Deposit <- [u \in {User} |-> Deposit],
        funds   <- Funds,
        owner   <- Owner,
        phase   <- Phase,
        held    <- Held

ImplementsLedger == Quotas!Spec

(* Whoever is made to wait for an upstream is answered in the end.         *)
PostedAreAnswered ==
    \A r \in Requests : pc[r] = "posted" ~> status[r] # None
=============================================================================
