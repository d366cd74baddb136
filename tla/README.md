# A TLA+ model of learn-new-api

`learn-new-api` builds an LLM gateway in sixteen chapters (`s01` ... `s16`, each
mounting or importing its predecessors) and once more as one application
(`s_full`).  This directory models the parts that keep state and can get it
wrong: quota, billing, rate limiting, failover, the call log, the response cache,
accounts and sessions, and the handlers of every chapter up to s13, stateless ones
included.  `PROJECT.json` lists, for every
definition, the source lines it stands for.

Paths below are relative to the repository's source root.

## 1. Inventory

### s_full, the consolidated application

| part | state | operations | interacts with |
|---|---|---|---|
| `routes/chat.py` | locals of one coroutine per request; one async generator per stream | `chat_completions`, `_relay_stream` | everything below; the upstream over httpx |
| `services/quota.py` | `_balances` under one `threading.Lock` | `deduct`, `refund`, `settle`, `get_balance`, `set_balance` | called by billing and chat |
| `services/billing.py` | none | `pre_consume`, `settle`, `top_up` | quota, users |
| `services/rate_limit.py` | `_caps`, `_buckets` under one lock; the monotonic clock | `take`, `configure` | called first by chat |
| `adapters/*` | none | `to_upstream`, `from_upstream`, `supports_streaming` | chat |
| `middleware/auth.py` | none (JWTs carry the state) | `require_api_key`, `issue_token` | every route |
| `middleware/trace.py` | two Prometheus metrics | `dispatch` | wraps every request |
| `models/log.py` | a buffer and a flushed list under one lock | `enqueue`, `drain_now`, `list`, `flush_loop` | chat writes, admin reads, `code.py` starts and stops the loop |
| `models/channel.py` | registry under one lock | `create_channel`, `list_channels` | admin only: chat never selects from it |
| `models/user.py`, `routes/auth.py` | a SQLite table | signup, login, `verify_password` | auth |
| `routes/admin.py` | none | reads of the log and the registry, `create_channel` | log, registry |
| `code.py` | flush task and stop event | startup, shutdown | log |

### The chapters

| part | what is new in it |
|---|---|
| s01-s04 | stateless relays: one upstream, the OpenAI protocol, an SSE relay, adapters for three providers |
| s05 | a table of API keys and a block list that nothing fills |
| s06 | token counting: an encoder's tokens for OpenAI's models, a quarter of the characters for others |
| s07 | the in-memory quota (same functions as s_full's) and a handler that pre-consumes and settles |
| s08 | the token bucket (same code as s_full's) |
| s09 | users in SQLite, JWTs, an in-memory list of revoked tokens |
| s10 | the channel registry: create, list, pick, mark unhealthy |
| s11 | the call log with its flush loop, a middleware that writes it, statistics |
| s12 | an exact-match response cache with expiry, as a middleware |
| s13 | failover over s10's channels, with s07's quota and s08's limiter |
| s14 | a dashboard over the stores of s10 and s11 |
| s15 | container files and a health route |
| s16 | request metrics and structured logging |

### How they run

One process, one event loop.  `async def` handlers are coroutines: between two
awaits nothing else runs on the loop.  `def` handlers (signup, login, admin) run
in Starlette's thread pool, truly beside the loop.  Every shared dictionary has
its own `threading.Lock`, held for one operation at a time.

### What is hard

* **Overlap.**  Several requests of one user have estimates deducted while
  others settle, and all of them move one balance.
* **Failure between deduction and settlement.**  The estimate is taken before
  the provider is known.  From there the chat handler has eleven ways out, and
  each must give back exactly what it owes, once.
* **Failure after settlement.**  An answer is written as JSON when it has been
  paid for, and writing may fail: what `json.loads` accepts (NaN, half of a
  surrogate pair) `JSONResponse` does not always write.
* **Streams.**  The generator that owes the refund is started after the handler
  returned, is suspended at a `yield` when the client leaves, and is ended by
  an exception thrown into it.
* **Three protocols.**  Each provider takes a conversation in a shape of its own
  and counts its usage under names of its own; an estimate is computed from what
  the client sent, a bill from what came back.
* **Stale copies.**  s13 works off a copy of the registry while other requests
  mark channels and administrators add them.
* **Clocks.**  `take` reads the clock twice; the cache reads it before its lock.
* **Restarts.**  Users and JWTs survive, balances, logs, block lists do not.

`PROJECT.json` lists these hazards at their lines.

### What makes each part correct

* chat and quota: a balance is never negative; a request holds its estimate
  once and ends it once; what is missing from a balance is accounted for.
* relays: every provider is sent the conversation the client sent; what a client
  is told is counted; a reserve that was computed from a limit is enough for who
  keeps to the limit; each call is answered or refunded.
* limiter: no window of time lets more through than a full bucket and the
  window's refill; nothing unused is charged.
* failover: a channel is out of service exactly if a request failed on it; the
  quota is refunded once however many channels failed; every call is answered.
* log: what is enqueued is listed once, in order, or lost by a crash only.
* cache: a hit is an upstream's answer to the same payload, at most a TTL old.
* users: one account per address; a token is accepted until it expires or is
  revoked.

## 2. The modules

```
s_full                                    chapters
------                                    --------
Quota    Totals      LogStore             Cache    LogStore          Quota
    \     /             |                     \    /                 /    \
 ChatCompletions        |                   CachedChat           |    Fallback
    |        \          |                      |    \            |       |
    |         \         |                      |     +---- Chain-+    Observed
    |          Gateway -+                      |
    |                                          |
 refines Ledger; Gateway                   refines Journal; Chain and Fallback
 refines Journal as well                   refine Ledger as well

Adapters (over Totals) and TokenBucket are the parts of Relays, the chapters
s01-s08, which refines TokenBucket and, on Quota's arithmetic, Ledger.
Registry stands alone; Accounts refines Sessions.
```

| specification | instance for TLC | proofs | claims |
|---|---|---|---|
| ChatCompletions | (through Gateway; MCChatCompletions for the claims) | GatewayProofs (with TotalsProofs) | ChatClaims |
| Gateway | MCGateway | GatewayProofs | |
| TokenBucket | (through Relays) | RelayProofs | |
| Relays (with Adapters) | MCRelays | RelayProofs (with TotalsProofs) | |
| CachedChat | (through Chain) | ChainProofs | CachedClaims |
| Chain | MCChain | ChainProofs | |
| Fallback | (through Observed) | FallbackProofs (with TotalsProofs) | |
| Observed | MCObserved | FallbackProofs | |
| Registry | MCRegistry | RegistryProofs | |
| Ledger | (through what refines it) | LedgerProofs (with TotalsProofs) | |
| Accounts | MCAccounts | AccountProofs | AccountClaims |

**Quota** is the arithmetic of `services/quota.py` and `services/billing.py` on
one balance.  Each function of quota.py holds one lock and touches one balance,
so each is an operator on a balance; what an interleaving can do is decided
where the operators are used.  `Estimate`, `IsIncomplete`, `Cost` and
`QuotaCharged` are billing's; None and 0 are treated as the code treats them
(`max_tokens or 256`, a missing count).

**Ledger** is the abstract promise: a request holds part of its user's funds,
and the hold ends once, released in full or captured at a price the funds can
bear.  Nothing else moves a balance.

**ChatCompletions** is `routes/chat.py` with all it calls.  One action is the
code between two awaits:

| state of a request (`pc`) | in the code |
|---|---|
| `idle` | not arrived |
| `posted` | awaiting `client.post` |
| `created` | the `StreamingResponse` was returned, its generator has not run |
| `relaying` | suspended in `_relay_stream` |
| `closing` | the client has left, the generator is still to be closed |
| `refused` | ended before the upstream was asked |
| `refunded`, `settled` | ended by a refund, or by settlement and a log entry |
| `stranded` | ended by a path that decides nothing about the estimate |

`Arrive` runs a request to its first await: `Unauthorized`, `RateLimited`,
`Uncountable` (the encoder refuses a text that spells one of its special tokens),
or one of `NegativeEstimate`, `InsufficientQuota`, `BadRequest` and `Forward`.  A
posted call ends by `TransportError`, `UpstreamStatus`, `MalformedBody`,
`UnexpectedShape`, `Completed` or `Unrendered` (settled and logged, and then the
answer cannot be written: a 500).  A count that is missing is 0 from the Claude and
Gemini adapters, one that is null stays null (`Counts`).  A stream goes through `StartStream` or
`Abandon`, then `StreamFails`, `Disconnect` and `CloseGenerator`, or
`StreamCompleted`.  The bucket is counted in whole requests here and gains any
amount between two calls; its exact behaviour is TokenBucket's subject.

**Gateway** is `s_full` as a whole.  The steps are ChatCompletions' (`Within`
takes one of them along); what the handler gives to `enqueue_log` goes into the
store of LogStore, `Flush` and `Shutdown` are the events of `s_full/code.py`, and
`Count` is the second half of the metrics middleware
(`s_full/middleware/trace.py`), which has waited for the head of the response.
The handler and the middleware belong to one application, so an exception that
is no HTTPException passes the middleware before it becomes a 500: `Raised` is
never counted.  A stream is counted when its head is there, while its generator
runs on, and one that is abandoned before its first step may be counted or not.

**TokenBucket** is `services/rate_limit.py`, for one user (users share nothing
but the lock) and with time.  `Grant` and `Deny` are the two outcomes of `take`,
including the bucket a new user gets; `Configure` is `configure`; `Wait` is
time.  Between `take`'s two clock readings up to `MaxLag` may pass.

**Adapters** is the pure part of the first chapters: `ToUpstream` and
`UsageFromUpstream` are the two directions of s04's adapters, `CountPrompt` and
`CountLength` are s06's counts.  A text is its length in characters and in
tokens, a model the prefix of its name.

**Relays** is the chat handlers of s01 to s08.  Each chapter is an application of
its own, and most of the eight handlers is the same code: `app` says which one
runs, and what a chapter adds is a condition on it.  `Accepted` is what the
chapter's request model reads of a body, `Reads` which upstream objects it can
digest.  `Arrive` runs to the first await: `TurnedAway` (422, 401), `Limited`,
`Uncountable`, `NotDeducted`, `UnknownModel` or `Forward`.  A posted call ends by
`TransportError`, `UpstreamStatus`, `Unreadable`, `PassedOn` (JSON nothing looks
into), `Completed` or, in s07 and s08, `Unrendered`; s03's stream ends by `StreamEnds`.  s08's `take` is
TokenBucket's `Grant` and `Deny`, so the bucket's exact time is behind the
handler, not an abstraction of it.

| state of a request (`pc`) | in the code |
|---|---|
| `posted` | awaiting the upstream |
| `streaming`, then `relayed` or `cut` | s03's generator passes bytes on; they ended, or broke off |
| `refused`, `failed`, `answered` | the client has an error from before or after the call, or the answer |
| `stranded` | a 500 of s07 or s08 after the deduction and before the settlement |
| `unrendered` | a 500 of s07 or s08 after the settlement |

**Fallback** is s13's handler on s10's registry.  `Try` deducts, copies the
registry and posts to the first healthy channel; `Escalate` is a failed attempt
with everything it does: the mark and the post to the next channel, or, with none
left, the wait for the client to close its connections (`exhausted`).  `GiveUp`
comes after that wait: the refund and the answer.  `snapshot` is the set of
healthy channels of the copy, `at` the number of the one that is tried.

**Observed** puts s16's metrics middleware around it.  From s13 up the mounted
applications leave the chat route to s13's own, so neither cache nor log is
passed.  Here the handler is in a mounted application, which answers an
exception with its own 500 before it lets it go on: every request is counted.

**Registry** is s10's registry with `pick_channel_for`, cut where it releases the
lock: `Look` collects the candidates, `Choose` draws among them, `NoneLeft` and
`UnknownModel` return None.  In this commit only tests call `pick_channel_for`: s13
walks the list itself.  The module is about what the function promises a handler
that would.  `known` and `down` remember, for the properties only, what the registry
looked like to `Look`.

**LogStore** is the buffer, the list and the life of the flush loop
(`s11_call_logs/log_store.py`, which `s_full/models/log.py` repeats, and the
startup and shutdown events of `s11_call_logs/code.py`).  **Cache** is
`s12_caching/cache.py`: `Fresh` is the test of `get`, `Drop` its removal of an
expired entry, `Put` is `set`.  Neither has a behaviour of its own: their
operators are what a handler calls.

**CachedChat** composes the two through their middlewares.  `app` is the
application the server runs.  Under `s11` a request is forwarded (`Bypass`) and
logged when its answer's body has been read (`LogCall`).  Under `s12` the cache
is asked first (`Hit`, `Miss`), and an answer that s11's middleware has logged
is read once more and kept (`KeepAnswer`); streamed requests bypass the cache but
not the log.  `Flush` is one round of the loop, `Shutdown` the shutdown event.
The model knows a response by the request whose upstream call produced it, so
`answer` says whose answer a hit was given.

| state of a request (`pc`) | in the code |
|---|---|
| `forwarded` | `call_next` is awaited |
| `logged` | s11's middleware is done, s12's still reads the body |
| `answered` | answered from upstream |
| `hit` | answered from the cache |
| `failed` | another status, or an exception |

**Chain** is the chapters' gateway: CachedChat leaves open how a forwarded call
ends, Chain has s08's handler decide it, which s11 and s12 reach through their
mounts.  `stage` is what the handler has done with the estimate: `none` (not
deducted, or refunded before the post), `posted`, `refunded`, `settled`,
`stranded`, `unrendered`.  `Completed` settles; `LogAnswer` is the later await at
which s11's middleware gets the 200 and logs it.  `Unrendered` settles too, but the
answer cannot be written: the middlewares get a 500, and no log has the call.

**Journal** is the abstract promise of the log: each entry is written once, and
readers see a beginning of what was written, which only grows.

**Accounts** is s09: `signup` and `login` run in threads and are cut where they
touch shared state (`StartSignup`, `InsertUser` or `DuplicateInsert`,
`FinishSignup`; `StartLogin`, then `WrongPassword` or `FinishLogin`).  `Logout`
revokes the token, `Restart` forgets handlers and revoked tokens and keeps the
table.  A token is the record of what it says, because the code's token is a
string computed from exactly that (another spelling of the same base64 would be
another string to the list of revoked tokens; clients are taken to send what they
were given); `Accepts` is `_current_user`.  s10's `_require_admin`
(`s10_channel_management/code.py:25-35`) decodes a token without asking that list,
and is not what `LoggedOutIsRejected` speaks of.  A request's
number also names the session it opened.

**Sessions** is the abstract promise of accounts: an address gets one account and
keeps it, the address and password of an account open a session that lasts `TTL`,
signing out ends it until a restart, and each of these is a single instant.  A
session is its account and its expiry, so two that agree in both are one and end
together: that is what the code's tokens make of them (`claim_login`).

**Totals** is the sum of a function over 1..n, as a recursive function.

The MC modules give the constants small values.  **ChatClaims**,
**CachedClaims** and **AccountClaims** hold sentences of the repository that the
code does not keep.
The operators introduced as faults (`UncoveredDeduct`, `KeptBadRequest`, ...)
are not part of any specification: each stands for a plausible slip, and
substituting it for the definition it mimics makes the property named for it in
`PROJECT.json` fail.

## 3. What is checked

| run | instance | distinct states | what it shows |
|---|---|---|---|
| `gateway` | 2 users, 2 requests, fair | 380,427 | s_full as a whole: types, books, refinement of Ledger, refinement of Journal, log and metrics against the bills, three liveness properties; one user's calls cost the other nothing |
| `relays` | eight applications, 7 bodies, 6 answers; bucket with clock 0..5, three limits, lag 0..1; fair | 421,099 | no overdraft, no overspent window, nothing missing that was not spent; conversations kept by all three adapters; reserve, reported usage and charge fit together; refinement of Ledger; posted calls are answered |
| `fallback` | 3 requests, 2 channels, fair | 857,235 | health, quota and s16's metrics under concurrent failover; every request let in is answered and counted |
| `chain` | 3 requests, 3 bodies, TTL 2, clock 0..3, fair | 1,288,592 | cache, log and quota together: fresh hits, an ordered log that agrees with the quota, refinement of Journal and of Ledger, paid and answered calls listed |
| `registry` | 3 channels of 2 providers, 1 pick | 83,429 | priorities, weights and failures are honoured by a pick that other threads overtake |
| `accounts` | 3 requests, 2 addresses, 2 passwords, TTL 1, clock 0..2 | 268,639 | one account per address, tokens of their owners, revoked tokens rejected, across restarts; refinement of Sessions |

and the runs that end in a violation:

| run | sentence | what happens |
|---|---|---|
| `claim_reported` | settle "Returns the actual amount charged." | with a second call holding the rest of the balance, an overage is dropped and reported as charged |
| `claim_failed` | an unusable 200 is refunded | JSON of another shape raises what the handler does not catch: 500, and the estimate is kept |
| `claim_unstarted` | on client disconnect the estimate is refunded | a generator closed before its first step runs none of its code |
| `claim_usage` | "safe fallback to pre_deducted when the upstream omits usage" | the Claude and Gemini adapters write 0 for a missing count; the call is billed 0 |
| `claim_listed` | under s12 the log fields land as usual | the flush loop belongs to s11's startup event, which a mounted application does not get: no row is ever listed |
| `claim_login` | a login's ticket works until it expires | tokens of one user and one second are one string: a login in the second of a logout answers 200 with the token that was just revoked |

### The properties

* `TypeOK` (each module; `ChainTypeOK`, `GatewayTypeOK` and `RelayTypeOK`, which
  include it): mostly that no order of operations makes a balance or a bucket
  negative.
* `BooksBalance`: at every moment, what a user's balance lacks of the deposit is
  what the user's requests account for: open and forgotten estimates in full,
  settled requests at most at the logged charge, and less only by an overage
  the balance could not bear.  Refused and refunded requests cost nothing.
* `ImplementsLedger` (chat, failover, chain and relays): the refinement of Ledger.
* `PostedCallsEnd`, `DisconnectsAreRefunded`: see fairness.
* `LogIsTheBill`: at every moment the log has one entry for each settled call and
  none for any other, streams that fail or are left after their 200 and answers
  that cannot be written included.
* `MetricsMatchBills`: a request counted as an error has cost nothing, a plain
  one counted as a success was billed.  It leaves open how often a stream
  counted as a success is billed: its outcome comes later.
* `BilledCallsAreListed`: see fairness; also for calls settled while the server
  shuts down.
* `LoggedIsPaid`: the log, buffer and list together, has the calls that were
  settled and answered, each once and as soon as the answer has passed the log's
  middleware, and no others; an answer from the cache costs nothing and repeats a
  call that was paid for; a call that failed is on no log and its handler has
  ended (refunded, stranded, or paid for a 500).  It is not true that what is paid
  is logged: see section 5 on answers that cannot be written.
* `PaidAnswersAreListed`: see fairness; of settled calls that are answered, and
  stated for s11 only, see `claim_listed`.
* `MetricsTellOutcomes`: a request counted as a success was charged; one that was
  charged is counted as 200 or 500; one counted as an upstream's failure cost
  nothing and found every channel of its copy failed.  A 500 says nothing: it may
  be the upstream's or the handler's own, before or after the settlement.
* `AdmittedAreCounted`: see fairness.
* `BackupsWait`: a request is with a channel, or was served or lost by it, only
  while every channel registered before it is out of service, although copies
  are stale and channels come in meanwhile.
* `SpendingAccounted`: s13's books, as `BooksBalance` is s_full's: one estimate
  however many channels a request went through; an unexpected body loses its own
  request's estimate and nothing else.
* `WithinReserve`: a client who stated `max_tokens` is charged more than the
  estimate only if the upstream counted the prompt higher, left out the
  completion's count or went over the limit it was sent.  It ties the estimate
  (before the call) to the body that went upstream and to the charge, with the
  0 and the negative limits among the cases.  Gemini is sent no limit.
* `UsageIsCounted`: a usage that s06 to s08 report covers the prompt as counted
  locally; a completion of 0 comes from the upstream or from an adapter, never
  from the fallback; what is billed is the reported total.
* `ConversationKept`: whatever its shape, the body that goes upstream says what
  the client's said, turn by turn, by the same speakers, the system prompt first.
* `PostedAreAnswered`: see fairness.
* `StandbysWait`: a pick returns a standby, or a channel of weight 0, only if
  nothing it should have preferred and that it could see is up, even now.
* `FailedStayOut`, `NoneMeansNone`: a channel that was down when the pick looked
  is not returned, and None is returned only if nothing could serve the model.
* `WindowBound`: from any request let through to any later one, the cost of
  all requests between fits into one full bucket and the window's refill.
* `MissingIsSpent`: the bucket is full, or what it lacks was spent since some
  request that was let through.  The bound allows for the refill that is lost
  between the two clock readings of each grant.
* `HealthIsWhatFailed`: a channel is unhealthy if and only if some request gave
  it up: by a transport error or a status from 400 on.  s13's docstring also counts
  other answers that are no 2xx, and its README has a route that brings a channel
  back; the code does neither (section 5).  So an outage of one attempt is
  permanent.
* `HitsAreFresh`: what a hit is given is an upstream's answer to the same body,
  at most a TTL old, and no later answer to that body was passed over, in
  whatever order concurrent misses come back.
* `NothingLeftBehind`: once the shutdown event has run the buffer is empty.  It
  holds because the server lets the requests in flight end first.
* `ImplementsJournal` (chain, and s_full behind its handler): the refinement of
  Journal: no entry is lost, repeated or overtaken between buffer and list.
* `OneAccountPerEmail`: racing signups leave one row per address and per id.
* `TokensNameTheirOwner`: a token names a row that still exists and whose address
  and password its holder gave, also after a restart.
* `LoggedOutIsRejected`: a revoked token stays rejected until the process ends.
* `ImplementsSessions`: the refinement of Sessions.  Whatever the threads do between
  look-up, hash, insert and answer, clients see single instants.

### Bounds, and why they are enough

With a default of 2 output tokens and a prompt of 1 an estimate is 3 (also with
`max_tokens` of 0, which the code takes for none) or 4, or negative with -2;
a report costs 0, 3 or 6, so it lies below, at
and above the estimate; a missing count is among the reports.  (In the failover
run a success costs 2, 4 or 6, since s13 counts at least the prompt itself.)
The deposit of 7 covers two estimates but not three, and an overage only while
no other request holds the rest: every branch of `settle` and `deduct` happens.
Two requests give every pair of overlapping endings, and an overage competing
with another request's estimate for what is left; beyond two the proofs of
ChatCompletions and Gateway hold for every number.  Requests arrive in the order
of their numbers, which loses nothing: they are otherwise alike.  Two channels
and three requests give a request that fails on a channel another has marked,
with a channel added after a copy was taken; one upstream status (503) is enough
to tell it from a transport error.  Three channels give a primary, a
standby and one of another provider or weight; picks only read the registry, so
one is enough.  Bucket capacities are one, two and a half and three requests,
with a refill of nothing, half a request and one and a half; five ticks fill
every bucket that refills.  One request is followed through each chapter, two
overlap in s07, where the deposit of 16 covers one estimate or two and an
overage may find the rest held.  The bodies have each provider, with and without
a system prompt and a limit, a limit of 0, a negative limit with an estimate above
and below 0, and an unknown model; the answers count below, at and above what was reserved, leave
counts or choices out, or say 0.  The cache's TTL of 2 leaves room for another answer between an
answer and a hit on it, so the last clause of `HitsAreFresh` has cases, and a
clock of 3 passes the expiry of an entry.  The chain's estimate is 3 and an
answer costs 1 or 6, so it lies below and above it; the deposit of 7 covers two
estimates, or one and an overage.  Two plain bodies keep apart what must not be
mixed, the streamed one goes around the cache.  Three requests are two
concurrent misses and a hit.  In the accounts run three requests are two racing
signups of an address and a login or a signup of another; with a TTL of 1 and a
clock of 2 tokens expire before and after their logout, and restarts happen at
every point.  `MaxClock`, `MaxLag`, `MaxChannels` and `NumRequests` are the
bounds' names.

The runs do not check for deadlock: when all requests have ended (and the bounded
clock, where there is one), the instance stops, as the program does without
clients.

### Fairness

* `TransportError` is weakly fair: `httpx.AsyncClient(timeout=30.0)` raises an
  `httpx.HTTPError` when the upstream stays silent, so an awaited post ends.  The
  first chapters have the same timeout; s06 catches nothing and answers 500.
  httpx measures the 30 s from one read to the next: an upstream that keeps sending
  a byte now and then may hold a post for longer.  `PostedCallsEnd`,
  `PostedAreAnswered` and `AdmittedAreCounted` are about upstreams that answer or
  fall silent, and say that the call ends, not what an upstream that had already
  worked for it charges.
  `PostedAreAnswered` leaves s03's streams out: their read has no timeout.
* `StartStream` is weakly fair: Starlette iterates a response it was given.
* `CloseGenerator` is weakly fair: the event loop throws into a generator whose
  task was cancelled, or finalises it.
* `GiveUp` is weakly fair: closing the client's connections, which is awaited
  before the refund, comes to an end.
* `LogAnswer` and `Count` are weakly fair: the middleware goes on once the
  response it waits for is there.  `AdmittedAreCounted` and `PaidAnswersAreListed`
  need it, `BilledCallsAreListed` does not: s_full's handler logs itself.
* `Flush` is weakly fair: the loop sleeps for 100 ms and goes on, whatever
  requests do; if the shutdown event comes first, it drains itself.
* Nothing else is fair.  In particular no stream is assumed to end: it has
  `read=None`, and an upstream that stops sending holds the estimate.

Starlette's and httpx's part in this (`StartStream`, `Abandon`, `Disconnect`) is
modelled from how `routes/chat.py` uses them.  Starlette does not pass startup
and shutdown events on to mounted applications, and uvicorn lets requests in
flight end before the shutdown event; CachedChat, Chain and Gateway rely on
both.  A mounted application has an error middleware of its own, on which
Observed relies.

## 4. What is proved

The proofs are checked by TLAPS, for every value of the constants that satisfies
the modules' assumptions: any sets of users, any number of requests, any
deposits, token counts, limits and lags.  The assumptions say that deposits,
counts and limits are numbers of the right kind and that `None` is none of them;
the code justifies each (`int` balances, `max_tokens: int | None`).  One is a
restriction: reported token counts are not negative.

| theorem | module | statement |
|---|---|---|
| `TypeCorrect` | GatewayProofs | `Spec => []TypeOK` |
| `BooksAlwaysBalance` | GatewayProofs | `Spec => []BooksBalance` |
| `ChatImplementsLedger` | GatewayProofs | `Spec => ImplementsLedger` |
| `ChatNobodyGains` | GatewayProofs | `Spec => []Holds!Covered /\ Holds!EndsOnce` |
| `TotalUpdate` | TotalsProofs | changing one entry changes the total by the difference |
| `LedgerCovers` | LedgerProofs | Ledger's `Spec => []Covered` |
| `HoldsEndOnce` | LedgerProofs | Ledger's `Spec => EndsOnce` |
| `BucketTypeCorrect` | RelayProofs | `Spec => []TypeOK` |
| `WindowsAreBounded` | RelayProofs | `Spec => []WindowBound` |
| `OnlySpentTokensAreMissing` | RelayProofs | `Spec => []MissingIsSpent` |
| `RelayTypeCorrect` | RelayProofs | `RelaySpec => []RelayTypeOK` |
| `RelaysRefineBucket` | RelayProofs | `RelaySpec => Spec` (TokenBucket's) |
| `RelayedWindowsAreBounded` | RelayProofs | `RelaySpec => []WindowBound` |
| `RelayedTokensAreSpent` | RelayProofs | `RelaySpec => []MissingIsSpent` |
| `ReservesSuffice` | RelayProofs | `RelaySpec => []WithinReserve` |
| `UsageIsAlwaysCounted` | RelayProofs | `RelaySpec => []UsageIsCounted` |
| `ConversationsAreKept` | RelayProofs | `RelaySpec => []ConversationKept` |
| `RelaysImplementLedger` | RelayProofs | `RelaySpec => ImplementsLedger` |
| `RelaysNobodyGains` | RelayProofs | `RelaySpec => []Holds!Covered /\ Holds!EndsOnce` |
| `FallbackTypeCorrect` | FallbackProofs | `Spec => []TypeOK` |
| `HealthIsAlwaysWhatFailed` | FallbackProofs | `Spec => []HealthIsWhatFailed` |
| `BackupsAlwaysWait` | FallbackProofs | `Spec => []BackupsWait` |
| `FailoversAdvance` | FallbackProofs | `Spec => FailoverAdvances` |
| `SpendingIsAccounted` | FallbackProofs | `Spec => []SpendingAccounted` |
| `FallbackImplementsLedger` | FallbackProofs | `Spec => ImplementsLedger` |
| `FallbackNobodyGains` | FallbackProofs | `Spec => []Holds!Covered /\ Holds!EndsOnce` |
| `ObservedRefinesFallback` | FallbackProofs | `ObservedSpec => Spec` (Fallback's) |
| `MetricsAlwaysTell` | FallbackProofs | `ObservedSpec => []MetricsTellOutcomes` |
| `ObservedKeepsFailover` | FallbackProofs | all of the above that is said of Fallback, of `ObservedSpec` |
| `GatewayTypeCorrect` | GatewayProofs | `GatewaySpec => []GatewayTypeOK` |
| `GatewayRefinesChat` | GatewayProofs | `GatewaySpec => Spec` (ChatCompletions') |
| `GatewayKeepsQuota` | GatewayProofs | books, Ledger and what follows from it, of `GatewaySpec` |
| `LogIsAlwaysTheBill` | GatewayProofs | `GatewaySpec => []LogIsTheBill` |
| `GatewayImplementsJournal` | GatewayProofs | `GatewaySpec => ImplementsJournal` |
| `MetricsAlwaysMatch` | GatewayProofs | `GatewaySpec => []MetricsMatchBills` |
| `ChainTypeCorrect` | ChainProofs | `ChainSpec => []ChainTypeOK` |
| `ChainRefinesCached` | ChainProofs | `ChainSpec => Spec` (CachedChat's) |
| `LoggedIsAlwaysPaid` | ChainProofs | `ChainSpec => []LoggedIsPaid` |
| `ChainImplementsLedger` | ChainProofs | `ChainSpec => ImplementsLedger` |
| `ChainNobodyGains` | ChainProofs | `ChainSpec => []Holds!Covered /\ Holds!EndsOnce` |
| `ChainKeepsCacheAndLog` | ChainProofs | freshness, log, shutdown and Journal, of `ChainSpec` |
| `CachedTypeCorrect` | ChainProofs | `Spec => []TypeOK` |
| `HitsAreAlwaysFresh` | ChainProofs | `Spec => []HitsAreFresh` |
| `EveryCallIsLoggedOnce` | ChainProofs | `Spec => []LoggedOnce` |
| `CachedImplementsJournal` | ChainProofs | `Spec => ImplementsJournal` |
| `ShutdownDrains` | ChainProofs | `Spec => []NothingLeftBehind` |
| `AccountTypeCorrect` | AccountProofs | `Spec => []TypeOK` |
| `AccountsAreUnique` | AccountProofs | `Spec => []OneAccountPerEmail` |
| `TokensAreTheirOwners` | AccountProofs | `Spec => []TokensNameTheirOwner` |
| `LoggedOutStaysOut` | AccountProofs | `Spec => []LoggedOutIsRejected` |
| `AccountsImplementSessions` | AccountProofs | `Spec => ImplementsSessions` |
| `ValidSessionsAreLetIn` | AccountProofs | `Spec => []AcceptsTheValid` |
| `RegistryTypeCorrect` | RegistryProofs | `Spec => []TypeOK` |
| `PicksAreAtomic` | RegistryProofs | `Spec => []PickedAsSeen` |
| `StandbysAlwaysWait` | RegistryProofs | `Spec => []StandbysWait` |
| `FailedAlwaysStayOut` | RegistryProofs | `Spec => []FailedStayOut` |
| `NoneAlwaysMeansNone` | RegistryProofs | `Spec => []NoneMeansNone` |

**Chat.**  `TypeOK` alone is not inductive: a refund applied to `call[r].user`
needs that a request past the limiter has a caller.  The invariant is `TypeOK`
with `CallKnown`, which says so.  The many actions are then classified by what
they do to the money: a step refuses a request, holds an estimate, keeps one
(`stranded`), releases one, settles one, or leaves all balances alone
(`MoneyStep`).  Both the books and the refinement are proved from the six
classes, not from the single actions.  For the books, each class changes one entry of `Least` and
`Most` and one balance, and `TotalUpdate` gives the new totals.

**Totals.**  A total is defined by recursion over its length.  The library's
induction theorems take an operator as a parameter and cannot be instantiated,
so induction is done over the set of lengths at which a fact fails, which would
have a least element (`WellFoundedInduction`).

**Ledger.**  `Covered` is what the ledger is worth to the operator: a user's funds
and open holds together never exceed the deposit, so no order of refunds and
settlements gives a user more than was paid in.  `Claims` makes a function of the
open holds, and each step changes one entry of it and one balance, so
`TotalUpdate` settles it.  `EndsOnce` is the action property that a hold which
was released or captured stays as it is.  Both are proved once, of Ledger.  The
four refinements carry them to the handlers (`ChatNobodyGains`,
`RelaysNobodyGains`, `FallbackNobodyGains`, `ChainNobodyGains`): each proof module
instantiates LedgerProofs with the mapping of its refinement (`Holds`), and
`SameLedger` says that this instance and the refined one are the same formula.

**Token bucket.**  `WindowBound` says nothing about the tokens left, and a
step's effect on it depends on them.  `Reserve` adds them: for every grant, the
cost of all grants since, with what the bucket still holds, fits into a full
bucket and the refill up to the bucket's time stamp.  A grant at `t1` turns
`Reserve` at the old stamp into `WindowBound` at `t1`, and the later stamp only
widens the bound.

**Relays.**  None of the properties mentions where a request is, only what is
remembered of it, so none is inductive.  `Memory` says what the memory is worth:
what was sent and reserved is what the body that was read says, what was told is
computed from the answer, and a charge is what was told.  With it `WithinReserve`,
`UsageIsCounted` and `ConversationKept` are facts about the operators of Adapters
and about the bill, for every body and answer (`BilledCounts`, `UsageRead`,
`GeminiSpeaks`).  A step refuses, posts, returns an estimate, keeps one,
answers, or is paid for and fails (`RelayStep`); the invariant and the refinement of
Ledger are proved from these six.  `RelaysRefineBucket` brings what is proved of the bucket to the
handler (`RelayedWindowsAreBounded`, `RelayedTokensAreSpent`).

**Failover.**  Every step is one of eight kinds, or stutters (`NextIsStep`): a channel is
registered, a request is refused, tries its first channel, moves to the next, has
tried its last, is refunded, is stranded or is settled.  `BackupsWait` needs to know of the channels
before the one that is tried; those in the copy have been given up, for the
others `CopyIsComplete` says that what a copy lacks was out of service, or was
registered after all that it has.  Because no step brings a channel back, this
survives the marks of other requests.  The books are summed by `TotalUpdate`, as in
ChatCompletions.  `FailoverAdvances` is what the end of a failover needs besides
fairness: a failed attempt takes its channel out of service, nothing brings a
channel back, and the request has exactly one channel fewer to try or, after the
last, only the refund before it.  For s16's metrics Observed is shown to take only Fallback's steps, so
everything proved of Fallback holds under them (`ObservedKeepsFailover`).

**Cache and log.**  `HitsAreFresh` says nothing about the cache itself, so nothing
about the next hit.  `LastAnswerKept` does: an entry is the last answer given to
its body and expires a TTL after it.  `NotLater` puts every answer at or before
the clock, and `LoggedAreCached` says that only bodies the cache looks up wait to
be kept.  For the log every step is one of two kinds (`LogSteps`): it leaves
buffer and list together as they are, a drain included, or it appends one entry
of a forwarded call, which had none.  `LoggedOnce` (one entry for each upstream
answer of status 200 and none for anything else) and the refinement of Journal
both follow from that.  That nothing is left behind needs that no request is in
flight once the loop is told to stop (`AllEnded`).

**Chain.**  Every step of Chain is a step of CachedChat or leaves its variables
alone (`ChainRefinesCached`), so what is proved of CachedChat holds of Chain.
`StageAt` ties the handler's stage to the middlewares' place: a request that has
left the handler with an answer is settled, one that is posted is still
forwarded, one that was paid for and could not be written has failed.  With
`LoggedOnce` it gives `LoggedIsPaid`.  For the refinement of
Ledger a step is one of three kinds (`QuotaSteps`): it holds an estimate, ends a
hold, or leaves the quota alone, as `UnknownModel` does, which deducts and refunds
in one step.

**Gateway.**  `GatewayRefinesChat` gives the results about ChatCompletions for the
whole of s_full (`GatewayKeepsQuota`).  `LoggedIffSettled` says that a request has an entry in `log` exactly if
it is settled, so only settlements enqueue, once: this is
`LogIsTheBill`, and with it a step writes to the journal, publishes, or does not
touch it (`GatewayImplementsJournal`).  `MetricsMatchBills` speaks of a
count that may be older than the request's state; `Heads` says what each status
means at any time after it was sent, `CountedHeads` that a count is such a status.

**Accounts.**  The properties speak of tokens, the steps of what a handler
remembers.  `Stages` says what it may rely on between two steps: the row it
inserted or found is still in the table, the token it returned is there, and the
token it revoked is in the list.  It holds because rows are never removed
(`TableStep`); with `IdsAreUsedUp` an insert also takes an id no row has.  The
proof has a lemma for the types, the table, the stages and the tokens, each with
a step per action.  For the refinement of Sessions the invariant also has
`RevokedWereHeld`, that the blacklist holds tokens which were returned to somebody.
An address has one row and a row one address and password, so two requests have
the same token just when they opened the same session (`SameTokenSameSession`);
then the insert is the sign-up, the answer of either handler the sign-in, logout
the sign-out, and every other step of a handler changes nothing a client could
tell.  A sign-in whose token was revoked in the same second finds its session
already ended (`FinishSignsIn`).  `AcceptsTheValid` follows: `Accepts` on tokens is
`Valid` on sessions.

**Registry.**  `pick_channel_for` chooses after it has released the lock, so its
properties speak of a registry that has moved on.  The invariant says what it
kept: the candidates it holds are those of the registry it looked at
(`SeenCandidates`), and channels marked by then are marked still
(`MarkedStayMarked`).  So what it returns is what a pick that held the lock
throughout could have returned at that moment (`PickedAsSeen`).  What is up even
now and was registered then was a candidate then, and the three properties
follow.

Model-checked only: the liveness properties `PostedCallsEnd`,
`DisconnectsAreRefunded`, `BilledCallsAreListed`, `PostedAreAnswered`,
`AdmittedAreCounted` and `PaidAnswersAreListed` (fairness and ENABLED are out of the
prover's reach), and the claims.  Every invariant and every refinement that a run
checks is also a theorem.

## 5. Not modelled, and what could come next

Parts that change a state and are left out:

* `billing.top_up` reads and writes a balance under two acquisitions of the lock,
  so a deduct in between would be undone.  No route calls it, so no behaviour of
  the program shows this; a route that calls it should come with a module.
* A restart of s_full: users in SQLite survive it and balances do not.  Accounts
  has restarts, ChatCompletions starts once; nothing that survives could disagree
  with a balance of 0.
* The registry of `s_full/models/channel.py` is a copy of s10's that only admin
  routes touch: chat never selects from it.  Registry and Fallback have s10's.

Parts that read and show (`routes/admin.py`, s14's dashboard, s11's statistics,
health and quota routes), the container files of s15 and the JSON helpers change
no state.

Abstracted for good: the characters of texts, the bytes of streams, sampling
parameters, JSON formatting, JWT cryptography and HTML.  Floating point in the
limiter is replaced by exact integers.  Several worker processes are not
modelled: all state is per process, and the chapters say so.

Where chapters and their texts differ, and no run is spent on it:

* s06's README (28, 125) has the total as the sum of prompt and completion; the
  code lifts the prompt and keeps the upstream's own total (`FilledIn`), and
  fills in only what comes without a total, so that the three fields are not
  always there (README 161).
* s03's README (136, 160) shows an upstream's error as a 502 or a 401; a streaming
  client has had a 200 by then, and gets the error's body as its stream.
* The length of the text stands in for a missing completion's count with OpenAI
  only: the Claude and Gemini adapters write 0, which s07 and s08 take as counted.
* A Claude request without `max_tokens` is sent a limit of 1024 where the estimate
  has 256, so its charge may exceed what was reserved.
* s13's docstring (`s13_retry_fallback/code.py:3-5`) and README (30, 88) have any
  answer that is no 2xx, and any transport error, mark the channel unhealthy.  The
  code marks on transport errors and from 400 on: a 3xx, or a 200 whose body is not
  the JSON the handler reads, raises, keeps the estimate and leaves the channel in
  service (`UnexpectedBody`).
* s13's README (43, 82, 98, 228, 233) brings a channel back with
  `/admin/channels/{id}/enable`, which s10 is said to have.  No Python file has that
  route, and nothing else sets `healthy` again (`HealthIsWhatFailed`).
* Every handler with a quota settles first and renders later
  (`s_full/routes/chat.py:212-218`, `s07_pre_consume_settle/code.py:119-122`,
  `s08_rate_limiting/code.py:111-114`, `s13_retry_fallback/code.py:134-141`).  When
  `JSONResponse` cannot write the translated answer the user has paid for a 500; in
  the chapters s11 does not log it, in s_full it is logged.  s07's README (22, 35)
  has a failed call refunded in full, and a test
  (`tests/test_s_full_smoke.py:281-282`) asks for a refund and a 502 for a useless
  body; the actions are `Unrendered`, and `Succeed` with a 500.
* tiktoken's `encode` raises a ValueError for text that spells one of its special
  tokens: from s06 on such a text is answered with a 500 before anything is
  deducted (`Uncountable`; in s13 one of `Turned`).
