---------------------------- MODULE GatewayProofs ----------------------------
(***************************************************************************)
(* Theorems about ChatCompletions and Gateway for any users, any number of *)
(* requests and any deposits, prompts, max_tokens, reports and bucket size.*)
(* The first half speaks of the chat handler, whatever is around it.  The  *)
(* gateway's steps are steps of ChatCompletions, so that the first half    *)
(* holds of it too; the second relates its log and its metrics to the      *)
(* handler's state.                                                        *)
(***************************************************************************)
EXTENDS Gateway, TotalsProofs, SequenceTheorems

(* What the handler's local variables and the shared stores say of one     *)
(* request: past the limiter its caller is known, and a settled request,   *)
(* and no other, has an entry in the call log.                             *)
CallKnown == \A r \in Requests :
    /\ pc[r] \in (Holding \cup Ended) \ {"refused"} => call[r] \in Calls
    /\ pc[r] = "settled" => log[r] \in Nat

IInv == TypeOK /\ CallKnown

-----------------------------------------------------------------------------
(* quota.py on one balance: a balance stays a natural number.              *)
LEMMA DeductedNat ==
    ASSUME NEW bal \in Nat, NEW n \in Int
    PROVE  /\ Deducted(bal, n) \in Nat
           /\ CanDeduct(bal, n) => n \in Nat
  BY DEF Deducted, CanDeduct

LEMMA RefundedNat ==
    ASSUME NEW bal \in Nat, NEW n \in Nat
    PROVE  Refunded(bal, n) \in Nat
  BY DEF Refunded

(* A complete usage has a natural cost.                                    *)
LEMMA CostNat ==
    ASSUME NEW usage \in Usage, ~IsIncomplete(usage)
    PROVE  Cost(usage) \in Nat
  BY DEF Usage, IsIncomplete, Cost, RATE_PER_TOKEN

(* billing.settle never overdraws, gives back at most the estimate, takes  *)
(* at most the reported charge, and takes the smaller of the two at least. *)
LEMMA SettledBounds ==
    ASSUME NEW bal \in Nat, NEW n \in Nat, NEW usage \in Usage
    PROVE  /\ Settled(bal, n, usage) \in Nat
           /\ QuotaCharged(n, usage) \in Nat
           /\ Settled(bal, n, usage) <= bal + n
           /\ bal + n - Settled(bal, n, usage) <= QuotaCharged(n, usage)
           /\ \/ QuotaCharged(n, usage) <= bal + n - Settled(bal, n, usage)
              \/ n <= bal + n - Settled(bal, n, usage)
<1>1. CASE IsIncomplete(usage)
  BY <1>1 DEF Settled, QuotaCharged
<1>2. CASE ~IsIncomplete(usage)
  <2> DEFINE c == Cost(usage)
  <2>1. c \in Nat
    BY <1>2, CostNat
  <2>2. /\ Settled(bal, n, usage) = QuotaSettled(bal, n, c)
        /\ QuotaCharged(n, usage) = c
    BY <1>2 DEF Settled, QuotaCharged
  <2> HIDE DEF c
  <2>3. QED
    BY <2>1, <2>2 DEF QuotaSettled, Deducted, CanDeduct, Refunded
<1>3. QED
  BY <1>1, <1>2

(* The estimate of any request is an integer.                              *)
LEMMA EstimateInt ==
    ASSUME NEW p \in PromptTokens, NEW m \in MaxTokens
    PROVE  Estimate(p, m) \in Int
  BY ChatAssumption, DefaultMaxTokensAssumption DEF Estimate, RATE_PER_TOKEN

(* What the adapters and the stream make of a reported usage is a usage.   *)
LEMMA UsageTranslated ==
    ASSUME NEW usage \in Usages, NEW provider
    PROVE  /\ Translated(provider, usage) \subseteq Usage
           /\ StreamUsage(provider, usage) \in Usage
<1>1. usage \in Usage /\ usage.prompt \in Nat \cup {None} /\ usage.completion \in Nat \cup {None}
  BY ChatAssumption DEF Usages, Usage
<1>2. OrZero(usage.prompt) \in Nat /\ OrZero(usage.completion) \in Nat
  BY <1>1 DEF OrZero
<1>3. Translated(provider, usage) \subseteq Usage
  <2>1. /\ Counts(provider, usage.prompt) \subseteq Nat \cup {None}
        /\ Counts(provider, usage.completion) \subseteq Nat \cup {None}
    BY <1>1, <1>2 DEF Counts
  <2>2. QED
    BY <2>1 DEF Translated, Usage
<1>4. StreamUsage(provider, usage) \in Usage
  BY <1>1 DEF StreamUsage, Usage
<1>5. QED
  BY <1>3, <1>4

LEMMA RefilledRange ==
    ASSUME NEW u \in Users, NEW gained \in 0..Capacity, tokens[u] \in 0..Capacity
    PROVE  Refilled(u, gained) \in 0..Capacity
  BY ChatAssumption DEF Refilled

-----------------------------------------------------------------------------
(***************************************************************************)
(* Every action of a request is one of six kinds of step as far as the     *)
(* balances and the call log are concerned.                                *)
(***************************************************************************)
At(f, r, v) == [f EXCEPT ![r] = v]

(* Ends before anything is kept.                                           *)
RefuseStep(r) ==
    /\ pc[r] = "idle" /\ pc' = At(pc, r, "refused")
    /\ \E c \in Calls \cup {None} : call' = At(call, r, c)
    /\ \E n \in Nat : estimate' = At(estimate, r, n)
    /\ UNCHANGED <<balance, log>>

HoldStep(r) ==
    /\ pc[r] = "idle" /\ \E h \in Holding : pc' = At(pc, r, h)
    /\ \E c \in Calls : \E n \in 0..balance[c.user] :
        /\ call' = At(call, r, c)
        /\ estimate' = At(estimate, r, n)
        /\ balance' = At(balance, c.user, balance[c.user] - n)
    /\ UNCHANGED log

(* Keeps the hold, or ends without giving any of it back.                  *)
KeepStep(r) ==
    /\ pc[r] \in Holding
    /\ \E h \in Holding \cup {"stranded"} : pc' = At(pc, r, h)
    /\ UNCHANGED <<balance, call, estimate, log>>

ReleaseStep(r) ==
    /\ pc[r] \in Holding /\ pc' = At(pc, r, "refunded")
    /\ balance' = At(balance, call[r].user, balance[call[r].user] + estimate[r])
    /\ UNCHANGED <<call, estimate, log>>

SettleStep(r) ==
    /\ pc[r] \in Holding /\ pc' = At(pc, r, "settled")
    /\ \E usage \in Usage :
        /\ balance' = At(balance, call[r].user, Settled(balance[call[r].user], estimate[r], usage))
        /\ log' = At(log, r, QuotaCharged(estimate[r], usage))
    /\ UNCHANGED <<call, estimate>>

(* The part of a step the six kinds do not describe.                       *)
FrameStep(r) ==
    /\ tokens' \in [Users -> 0..Capacity]
    /\ \E code \in Statuses \cup {None} : status' = At(status, r, code)

MoneyStep(r) ==
    /\ FrameStep(r)
    /\ RefuseStep(r) \/ HoldStep(r) \/ KeepStep(r) \/ ReleaseStep(r) \/ SettleStep(r)

LEMMA AdmittedFrame ==
    ASSUME TypeOK, NEW r \in Requests, NEW c \in Calls, NEW n \in Int, Admitted(r, c, n)
    PROVE  /\ tokens' \in [Users -> 0..Capacity]
           /\ pc[r] = "idle"
           /\ call' = At(call, r, c)
           /\ estimate' = At(estimate, r, n)
           /\ UNCHANGED log
<1>1. PICK gained \in 0..Capacity :
        /\ Refilled(c.user, gained) >= 1
        /\ tokens' = [tokens EXCEPT ![c.user] = Refilled(c.user, gained) - 1]
  BY DEF Admitted
<1>2. c.user \in Users /\ tokens[c.user] \in 0..Capacity
  BY DEF Calls, TypeOK
<1>3. Refilled(c.user, gained) - 1 \in 0..Capacity
  BY <1>1, <1>2, RefilledRange, ChatAssumption
<1>4. tokens' \in [Users -> 0..Capacity]
  BY <1>1, <1>3 DEF TypeOK
<1>5. QED
  BY <1>4 DEF Admitted, At

(* status is set to a status, or left as it was.                           *)
LEMMA EndFrame ==
    ASSUME TypeOK, NEW r \in Requests, NEW how, NEW code \in Statuses, End(r, how, code)
    PROVE  /\ pc' = At(pc, r, how)
           /\ \E s \in Statuses \cup {None} : status' = At(status, r, s)
  BY DEF End, At

LEMMA StatusKept ==
    ASSUME TypeOK, NEW r \in Requests, UNCHANGED status
    PROVE  \E s \in Statuses \cup {None} : status' = At(status, r, s)
<1>1. status[r] \in Statuses \cup {None} /\ status' = At(status, r, status[r])
  BY DEF TypeOK, At
<1>2. QED
  BY <1>1

LEMMA ArriveIsMoneyStep ==
    ASSUME IInv, NEW r \in Requests, Arrive(r)
    PROVE  MoneyStep(r)
<1> USE DEF IInv
<1>1. CASE Unauthorized(r)
  <2>1. tokens' \in [Users -> 0..Capacity]
    BY <1>1 DEF Unauthorized, TypeOK
  <2>2. call[r] \in Calls \cup {None} /\ call' = At(call, r, call[r])
    BY <1>1 DEF Unauthorized, TypeOK, At
  <2>3. estimate[r] \in Nat /\ estimate' = At(estimate, r, estimate[r])
    BY <1>1 DEF Unauthorized, TypeOK, At
  <2>4. RefuseStep(r)
    BY <1>1, <2>2, <2>3 DEF Unauthorized, RefuseStep, End, At
  <2>5. FrameStep(r)
    BY <1>1, <2>1, EndFrame DEF Unauthorized, FrameStep, Statuses
  <2>6. QED
    BY <2>4, <2>5 DEF MoneyStep
<1>2. ASSUME NEW c \in Calls, RateLimited(r, c) PROVE MoneyStep(r)
  <2>1. PICK gained \in 0..Capacity :
            tokens' = [tokens EXCEPT ![c.user] = Refilled(c.user, gained)]
    BY <1>2 DEF RateLimited
  <2>2. c.user \in Users /\ Refilled(c.user, gained) \in 0..Capacity
    BY RefilledRange DEF Calls, TypeOK
  <2>3. tokens' \in [Users -> 0..Capacity]
    BY <2>1, <2>2 DEF TypeOK
  <2>4. estimate[r] \in Nat /\ estimate' = At(estimate, r, estimate[r])
    BY <1>2 DEF RateLimited, TypeOK, At
  <2>5. RefuseStep(r)
    BY <1>2, <2>4 DEF RateLimited, RefuseStep, End, At
  <2>6. FrameStep(r)
    BY <1>2, <2>3, EndFrame DEF RateLimited, FrameStep, Statuses
  <2>7. QED
    BY <2>5, <2>6 DEF MoneyStep
<1>3. ASSUME NEW c \in Calls, NEW n \in Int, Handle(r, c, n) PROVE MoneyStep(r)
  <2>1. c.user \in Users /\ balance[c.user] \in Nat
    BY DEF Calls, TypeOK
  <2>2. CASE NegativeEstimate(r, c, n) \/ InsufficientQuota(r, c, n)
    <3>1. Admitted(r, c, 0) /\ UNCHANGED balance
      BY <2>2 DEF NegativeEstimate, InsufficientQuota
    <3>2. PICK code \in Statuses : End(r, "refused", code)
      BY <2>2 DEF NegativeEstimate, InsufficientQuota, Statuses
    <3>3. RefuseStep(r)
      BY <3>1, <3>2, AdmittedFrame, EndFrame DEF RefuseStep
    <3>4. FrameStep(r)
      BY <3>1, <3>2, AdmittedFrame, EndFrame DEF FrameStep
    <3>5. QED
      BY <3>3, <3>4 DEF MoneyStep
  <2>3. CASE BadRequest(r, c, n)
    <3>1. Admitted(r, c, n) /\ End(r, "refused", 400) /\ n \in Nat
      BY <2>1, <2>3 DEF BadRequest, CanDeduct
    <3>2. Refunded(Deducted(balance[c.user], n), n) = balance[c.user]
      BY <2>1, <2>3 DEF BadRequest, CanDeduct, Refunded, Deducted
    <3>3. UNCHANGED balance
      BY <2>1, <2>3, <3>2 DEF BadRequest, TypeOK
    <3>4. RefuseStep(r)
      BY <3>1, <3>3, AdmittedFrame, EndFrame DEF RefuseStep, Statuses
    <3>5. FrameStep(r)
      BY <3>1, AdmittedFrame, EndFrame DEF FrameStep, Statuses
    <3>6. QED
      BY <3>4, <3>5 DEF MoneyStep
  <2>4. CASE Forward(r, c, n)
    <3>1. Admitted(r, c, n) /\ n \in 0..balance[c.user] /\ UNCHANGED status
      BY <2>1, <2>4 DEF Forward, CanDeduct
    <3>2. balance' = At(balance, c.user, balance[c.user] - n)
      BY <2>1, <2>4 DEF Forward, Deducted, At
    <3>3. \E h \in Holding : pc' = At(pc, r, h)
      BY <2>4 DEF Forward, Holding, At
    <3>4. HoldStep(r)
      BY <3>1, <3>2, <3>3, AdmittedFrame DEF HoldStep
    <3>5. FrameStep(r)
      BY <3>1, AdmittedFrame, StatusKept DEF FrameStep
    <3>6. QED
      BY <3>4, <3>5 DEF MoneyStep
  <2>5. QED
    BY <1>3, <2>2, <2>3, <2>4 DEF Handle
<1>4. ASSUME NEW c \in Calls, Uncountable(r, c) PROVE MoneyStep(r)
  <2>1. Admitted(r, c, 0) /\ UNCHANGED balance /\ End(r, "refused", 500) /\ 500 \in Statuses
    BY <1>4 DEF Uncountable, Statuses
  <2>2. RefuseStep(r)
    BY <2>1, AdmittedFrame, EndFrame DEF RefuseStep
  <2>3. FrameStep(r)
    BY <2>1, AdmittedFrame, EndFrame DEF FrameStep
  <2>4. QED
    BY <2>2, <2>3 DEF MoneyStep
<1>5. QED
  BY <1>1, <1>2, <1>3, <1>4, EstimateInt DEF Arrive

LEMMA TokensKept ==
    ASSUME TypeOK, UNCHANGED tokens
    PROVE  tokens' \in [Users -> 0..Capacity]
  BY DEF TypeOK

LEMMA RefundIsReleaseStep ==
    ASSUME IInv, NEW r \in Requests, pc[r] \in Holding, Refund(r), pc' = At(pc, r, "refunded"),
           \E s \in Statuses \cup {None} : status' = At(status, r, s)
    PROVE  MoneyStep(r)
<1>1. ReleaseStep(r)
  BY DEF ReleaseStep, Refund, Refunded, At
<1>2. FrameStep(r)
  BY TokensKept DEF FrameStep, Refund, IInv
<1>3. QED
  BY <1>1, <1>2 DEF MoneyStep

LEMMA SettleIsSettleStep ==
    ASSUME IInv, NEW r \in Requests, pc[r] \in Holding, NEW usage \in Usage,
           SettleAndLog(r, usage), pc' = At(pc, r, "settled"),
           \E s \in Statuses \cup {None} : status' = At(status, r, s)
    PROVE  MoneyStep(r)
<1>1. SettleStep(r)
  BY DEF SettleStep, SettleAndLog, At
<1>2. FrameStep(r)
  BY TokensKept DEF FrameStep, SettleAndLog, IInv
<1>3. QED
  BY <1>1, <1>2 DEF MoneyStep

LEMMA KeepIsKeepStep ==
    ASSUME IInv, NEW r \in Requests, pc[r] \in Holding,
           UNCHANGED <<balance, tokens, call, estimate, log>>,
           NEW h \in Holding \cup {"stranded"}, pc' = At(pc, r, h),
           \E s \in Statuses \cup {None} : status' = At(status, r, s)
    PROVE  MoneyStep(r)
<1>1. KeepStep(r)
  BY DEF KeepStep
<1>2. FrameStep(r)
  BY TokensKept DEF FrameStep, IInv
<1>3. QED
  BY <1>1, <1>2 DEF MoneyStep

LEMMA PostEndsIsMoneyStep ==
    ASSUME IInv, NEW r \in Requests, PostEnds(r)
    PROVE  MoneyStep(r)
<1> USE DEF IInv
<1>0. pc[r] \in Holding
  BY DEF PostEnds, TransportError, UpstreamStatus, MalformedBody, UnexpectedShape, Completed,
         Unrendered, Holding
<1>1. CASE TransportError(r) \/ UpstreamStatus(r) \/ MalformedBody(r)
  <2>0. 502 \in Statuses /\ UpstreamErrors \subseteq Statuses
    BY DEF Statuses
  <2>1. Refund(r) /\ \E code \in Statuses : End(r, "refunded", code)
    BY <1>1, <2>0, Zenon DEF TransportError, UpstreamStatus, MalformedBody
  <2>2. QED
    BY <1>0, <2>1, EndFrame, RefundIsReleaseStep
<1>2. CASE UnexpectedShape(r)
  <2>1. End(r, "stranded", 500) /\ UNCHANGED <<balance, tokens, call, estimate, log>>
    BY <1>2 DEF UnexpectedShape
  <2>2. QED
    BY <1>0, <2>1, EndFrame, KeepIsKeepStep DEF Statuses
<1>3. ASSUME NEW usage \in Usages, Completed(r, usage) \/ Unrendered(r, usage)
      PROVE  MoneyStep(r)
  <2>1. PICK u \in Usage : SettleAndLog(r, u)
    BY <1>3, UsageTranslated DEF Completed, Unrendered
  <2>2. pc' = At(pc, r, "settled") /\ \E s \in Statuses \cup {None} : status' = At(status, r, s)
    BY <1>3, EndFrame DEF Completed, Unrendered, Statuses
  <2>3. QED
    BY <1>0, <2>1, <2>2, SettleIsSettleStep
<1>4. QED
  BY <1>1, <1>2, <1>3 DEF PostEnds

LEMMA StreamStepIsMoneyStep ==
    ASSUME IInv, NEW r \in Requests, StreamSteps(r)
    PROVE  MoneyStep(r)
<1> USE DEF IInv
<1>0. pc[r] \in Holding
  BY DEF StreamSteps, StartStream, Abandon, StreamFails, Disconnect, CloseGenerator,
         StreamCompleted, Holding
<1>1. CASE StartStream(r)
  <2>1. End(r, "relaying", 200) /\ UNCHANGED <<balance, tokens, call, estimate, log>>
    BY <1>1 DEF StartStream
  <2>2. QED
    BY <1>0, <2>1, EndFrame, KeepIsKeepStep DEF Statuses, Holding
<1>2. CASE Abandon(r) \/ Disconnect(r)
  <2>1. /\ UNCHANGED <<balance, tokens, call, estimate, log>>
        /\ \E h \in Holding \cup {"stranded"} : pc' = At(pc, r, h)
        /\ UNCHANGED status
    BY <1>2 DEF Abandon, Disconnect, Holding, At
  <2>2. QED
    BY <1>0, <2>1, StatusKept, KeepIsKeepStep
<1>3. CASE StreamFails(r) \/ CloseGenerator(r)
  <2>1. Refund(r) /\ pc' = At(pc, r, "refunded") /\ UNCHANGED status
    BY <1>3 DEF StreamFails, CloseGenerator, At
  <2>2. QED
    BY <1>0, <2>1, StatusKept, RefundIsReleaseStep
<1>4. ASSUME NEW usage \in Usages, StreamCompleted(r, usage) PROVE MoneyStep(r)
  <2>1. PICK u \in Usage : SettleAndLog(r, u)
    BY <1>4, UsageTranslated DEF StreamCompleted
  <2>2. pc' = At(pc, r, "settled") /\ UNCHANGED status
    BY <1>4 DEF StreamCompleted, At
  <2>3. QED
    BY <1>0, <2>1, <2>2, StatusKept, SettleIsSettleStep
<1>5. QED
  BY <1>1, <1>2, <1>3, <1>4 DEF StreamSteps

LEMMA NextIsMoneyStep ==
    ASSUME IInv, Next
    PROVE  \E r \in Requests : MoneyStep(r)
  BY ArriveIsMoneyStep, PostEndsIsMoneyStep, StreamStepIsMoneyStep DEF Next

-----------------------------------------------------------------------------
(* Type correctness and the local facts.                                   *)
LEMMA InitIInv == Init => IInv
  BY ChatAssumption DEF Init, IInv, TypeOK, CallKnown, Holding, Ended, Requests

LEMMA MoneyStepIInv ==
    ASSUME IInv, NEW r \in Requests, MoneyStep(r)
    PROVE  IInv'
<1> USE DEF IInv
<1>1. tokens' \in [Users -> 0..Capacity] /\ status' \in [Requests -> Statuses \cup {None}]
  BY DEF MoneyStep, FrameStep, TypeOK, At
<1>2. CASE RefuseStep(r)
  BY <1>1, <1>2 DEF RefuseStep, TypeOK, CallKnown, Holding, Ended, At
<1>3. CASE HoldStep(r)
  <2>0. PICK c \in Calls : \E n \in 0..balance[c.user] :
            /\ call' = At(call, r, c)
            /\ estimate' = At(estimate, r, n)
            /\ balance' = At(balance, c.user, balance[c.user] - n)
    BY <1>3 DEF HoldStep
  <2>1. PICK n \in 0..balance[c.user] :
            /\ call' = At(call, r, c)
            /\ estimate' = At(estimate, r, n)
            /\ balance' = At(balance, c.user, balance[c.user] - n)
    BY <2>0
  <2>2. c.user \in Users /\ balance[c.user] - n \in Nat /\ n \in Nat
    BY DEF Calls, TypeOK
  <2>3. TypeOK'
    BY <1>1, <1>3, <2>1, <2>2 DEF HoldStep, TypeOK, At
  <2>4. CallKnown'
    BY <1>3, <2>1 DEF HoldStep, TypeOK, CallKnown, Holding, Ended, At
  <2>5. QED
    BY <2>3, <2>4
<1>4. CASE KeepStep(r)
  BY <1>1, <1>4 DEF KeepStep, TypeOK, CallKnown, Holding, Ended, At
<1>5. pc[r] \in Holding => call[r].user \in Users /\ balance[call[r].user] \in Nat
  BY DEF TypeOK, CallKnown, Holding, Ended, Calls
<1>6. CASE ReleaseStep(r)
  <2>1. TypeOK'
    BY <1>1, <1>5, <1>6 DEF ReleaseStep, TypeOK, Holding, Ended, At
  <2>2. CallKnown'
    BY <1>6 DEF ReleaseStep, TypeOK, CallKnown, Holding, Ended, At
  <2>3. QED
    BY <2>1, <2>2
<1>7. CASE SettleStep(r)
  <2>1. PICK usage \in Usage :
            /\ balance' = At(balance, call[r].user,
                             Settled(balance[call[r].user], estimate[r], usage))
            /\ log' = At(log, r, QuotaCharged(estimate[r], usage))
    BY <1>7 DEF SettleStep
  <2>2. /\ Settled(balance[call[r].user], estimate[r], usage) \in Nat
        /\ QuotaCharged(estimate[r], usage) \in Nat
    BY <1>5, <1>7, SettledBounds DEF SettleStep, TypeOK
  <2>3. TypeOK'
    BY <1>1, <1>7, <2>1, <2>2 DEF SettleStep, TypeOK, Holding, Ended, At
  <2>4. CallKnown'
    BY <1>7, <2>1, <2>2 DEF SettleStep, TypeOK, CallKnown, Holding, Ended, At
  <2>5. QED
    BY <2>3, <2>4
<1>8. QED
  BY <1>2, <1>3, <1>4, <1>6, <1>7 DEF MoneyStep

LEMMA StutterIInv == IInv /\ UNCHANGED vars => IInv'
  BY DEF IInv, TypeOK, CallKnown, vars

LEMMA InductiveInvariant == Spec => []IInv
<1>1. IInv /\ [Next]_vars => IInv'
  BY NextIsMoneyStep, MoneyStepIInv, StutterIInv
<1>2. QED
  BY InitIInv, <1>1, PTL DEF Spec

(* Every variable keeps its type; in particular no interleaving of the     *)
(* requests' pre-consumes, refunds and overages overdraws a balance.       *)
THEOREM TypeCorrect == Spec => []TypeOK
<1>1. IInv => TypeOK
  BY DEF IInv
<1>2. QED
  BY <1>1, InductiveInvariant, PTL

-----------------------------------------------------------------------------
(***************************************************************************)
(* The books.  A step of r changes what r has cost its caller, and no      *)
(* other summand of Least and Most.                                        *)
(***************************************************************************)
LEMMA CostsAreInt ==
    ASSUME IInv, NEW u \in Users
    PROVE  /\ Least(u) \in [1..NumRequests -> Int]
           /\ Most(u) \in [1..NumRequests -> Int]
<1>1. ASSUME NEW r \in Requests PROVE Least(u)[r] \in Int /\ Most(u)[r] \in Int
  BY <1>1 DEF IInv, TypeOK, CallKnown, Least, Most
<1>2. QED
  BY <1>1 DEF Least, Most, Requests

LEMMA CostsAreIntNext ==
    ASSUME IInv', NEW u \in Users
    PROVE  /\ Least(u)' \in [1..NumRequests -> Int]
           /\ Most(u)' \in [1..NumRequests -> Int]
<1>1. ASSUME NEW r \in Requests PROVE Least(u)'[r] \in Int /\ Most(u)'[r] \in Int
  BY <1>1 DEF IInv, TypeOK, CallKnown, Least, Most
<1>2. QED
  BY <1>1 DEF Least, Most, Requests

LEMMA OtherCostsKept ==
    ASSUME IInv, NEW r \in Requests, MoneyStep(r), NEW u \in Users,
           NEW q \in Requests, q # r
    PROVE  Least(u)'[q] = Least(u)[q] /\ Most(u)'[q] = Most(u)[q]
<1>1. /\ pc'[q] = pc[q] /\ call'[q] = call[q]
      /\ estimate'[q] = estimate[q] /\ log'[q] = log[q]
  BY DEF MoneyStep, RefuseStep, HoldStep, KeepStep, ReleaseStep, SettleStep, IInv, TypeOK, At
<1>2. CallOf(u, q)' <=> CallOf(u, q)
  BY <1>1 DEF CallOf
<1>3. QED
  BY <1>1, <1>2 DEF Least, Most

(* What leaves u's balance in a step of r is between the changes of r's    *)
(* least and most cost to u.                                               *)
LEMMA OwnCostChanges ==
    ASSUME IInv, NEW r \in Requests, MoneyStep(r), NEW u \in Users
    PROVE  /\ Least(u)'[r] - Least(u)[r] <= balance[u] - balance'[u]
           /\ balance[u] - balance'[u] <= Most(u)'[r] - Most(u)[r]
<1> USE DEF IInv
<1>0. /\ balance[u] \in Nat /\ estimate[r] \in Nat /\ None \notin Calls
      /\ pc[r] \in Holding => call[r] \in Calls /\ call[r].user \in Users
  <2>1. balance[u] \in Nat /\ estimate[r] \in Nat
    BY DEF TypeOK
  <2>2. pc[r] \in Holding => call[r] \in Calls /\ call[r].user \in Users
    BY DEF CallKnown, Holding, Ended, Calls
  <2>3. QED
    BY <2>1, <2>2, ChatAssumption
<1>1. CASE RefuseStep(r)
  <2>1. /\ Least(u)[r] = 0 /\ Most(u)[r] = 0
        /\ Least(u)'[r] = 0 /\ Most(u)'[r] = 0
        /\ balance'[u] = balance[u]
    BY <1>1 DEF RefuseStep, Least, Most, Holding, TypeOK, At
  <2>2. QED
    BY <1>0, <2>1
<1>2. CASE HoldStep(r)
  <2>1. PICK c \in Calls : \E n \in 0..balance[c.user] :
            /\ call' = At(call, r, c)
            /\ estimate' = At(estimate, r, n)
            /\ balance' = At(balance, c.user, balance[c.user] - n)
    BY <1>2 DEF HoldStep
  <2>2. PICK n \in 0..balance[c.user] :
            /\ call' = At(call, r, c)
            /\ estimate' = At(estimate, r, n)
            /\ balance' = At(balance, c.user, balance[c.user] - n)
    BY <2>1
  <2>3. /\ Least(u)[r] = 0 /\ Most(u)[r] = 0 /\ pc'[r] \in Holding
    BY <1>2 DEF HoldStep, Least, Most, Holding, TypeOK, At
  <2>4. call'[r] = c /\ c # None /\ estimate'[r] = n /\ n \in Int
    BY <1>0, <2>2 DEF TypeOK, At, Calls
  <2>5. CASE c.user = u
    <3>1. Least(u)'[r] = n /\ Most(u)'[r] = n
      BY <2>3, <2>4, <2>5 DEF Least, Most, CallOf
    <3>2. balance'[u] = balance[u] - n
      BY <2>2, <2>5 DEF TypeOK, At
    <3>3. QED
      BY <1>0, <2>3, <2>4, <3>1, <3>2
  <2>6. CASE c.user # u
    <3>1. Least(u)'[r] = 0 /\ Most(u)'[r] = 0
      BY <2>3, <2>4, <2>6 DEF Least, Most, CallOf
    <3>2. balance'[u] = balance[u]
      BY <2>2, <2>6 DEF TypeOK, At
    <3>3. QED
      BY <1>0, <2>3, <3>1, <3>2
  <2>7. QED
    BY <2>5, <2>6
<1>3. CASE KeepStep(r)
  <2>1. /\ pc[r] \in Holding \cup {"stranded"} /\ pc'[r] \in Holding \cup {"stranded"}
        /\ call'[r] = call[r] /\ estimate'[r] = estimate[r] /\ balance'[u] = balance[u]
    BY <1>3 DEF KeepStep, TypeOK, At
  <2>2. /\ Least(u)'[r] = Least(u)[r] /\ Most(u)'[r] = Most(u)[r]
        /\ Least(u)[r] \in Int /\ Most(u)[r] \in Int
    BY <1>0, <2>1 DEF Least, Most, CallOf
  <2>3. QED
    BY <1>0, <2>1, <2>2
<1>4. CASE ReleaseStep(r)
  <2>1. /\ pc[r] \in Holding /\ pc'[r] = "refunded"
        /\ call[r] # None /\ call'[r] = call[r]
    BY <1>0, <1>4 DEF ReleaseStep, TypeOK, At
  <2>2. Least(u)'[r] = 0 /\ Most(u)'[r] = 0
    BY <2>1 DEF Least, Most, Holding
  <2>3. CASE call[r].user = u
    <3>1. Least(u)[r] = estimate[r] /\ Most(u)[r] = estimate[r]
      BY <2>1, <2>3 DEF Least, Most, CallOf
    <3>2. balance'[u] = balance[u] + estimate[r]
      BY <1>4, <2>3 DEF ReleaseStep, TypeOK, At
    <3>3. QED
      BY <1>0, <2>2, <3>1, <3>2
  <2>4. CASE call[r].user # u
    <3>1. Least(u)[r] = 0 /\ Most(u)[r] = 0
      BY <2>4 DEF Least, Most, CallOf
    <3>2. balance'[u] = balance[u]
      BY <1>4, <2>4 DEF ReleaseStep, TypeOK, At
    <3>3. QED
      BY <1>0, <2>2, <3>1, <3>2
  <2>5. QED
    BY <2>3, <2>4
<1>5. CASE SettleStep(r)
  <2>1. PICK usage \in Usage :
            /\ balance' = At(balance, call[r].user,
                             Settled(balance[call[r].user], estimate[r], usage))
            /\ log' = At(log, r, QuotaCharged(estimate[r], usage))
    BY <1>5 DEF SettleStep
  <2>2. /\ pc[r] \in Holding /\ pc'[r] = "settled" /\ "settled" \notin Holding \cup {"stranded"}
        /\ call[r] # None /\ call'[r] = call[r] /\ estimate'[r] = estimate[r]
        /\ log'[r] = QuotaCharged(estimate[r], usage)
    BY <1>0, <1>5, <2>1 DEF SettleStep, TypeOK, Holding, At
  <2>3. CASE call[r].user = u
    <3> DEFINE paid == balance[u] + estimate[r] - Settled(balance[u], estimate[r], usage)
    <3>1. Least(u)[r] = estimate[r] /\ Most(u)[r] = estimate[r]
      BY <2>2, <2>3 DEF Least, Most, CallOf
    <3>2. /\ Most(u)'[r] = log'[r]
          /\ Least(u)'[r] = IF log'[r] < estimate[r] THEN log'[r] ELSE estimate[r]
      BY <2>2, <2>3 DEF Least, Most, CallOf
    <3>3. /\ balance'[u] = Settled(balance[u], estimate[r], usage)
      BY <2>1, <2>3 DEF TypeOK, At
    <3>4. /\ Settled(balance[u], estimate[r], usage) \in Int /\ log'[r] \in Int
          /\ paid <= log'[r] /\ (log'[r] <= paid \/ estimate[r] <= paid)
      <4>1. /\ Settled(balance[u], estimate[r], usage) \in Nat
            /\ QuotaCharged(estimate[r], usage) \in Nat
            /\ paid <= QuotaCharged(estimate[r], usage)
            /\ \/ QuotaCharged(estimate[r], usage) <= paid
               \/ estimate[r] <= paid
        BY <1>0, SettledBounds
      <4> HIDE DEF paid
      <4>2. QED
        BY <2>2, <4>1
    <3>5. QED
      BY <1>0, <3>1, <3>2, <3>3, <3>4
  <2>4. CASE call[r].user # u
    <3>1. /\ Least(u)[r] = 0 /\ Most(u)[r] = 0
          /\ Least(u)'[r] = 0 /\ Most(u)'[r] = 0
      BY <2>2, <2>4 DEF Least, Most, CallOf
    <3>2. balance'[u] = balance[u]
      BY <2>1, <2>4 DEF TypeOK, At
    <3>3. QED
      BY <1>0, <3>1, <3>2
  <2>5. QED
    BY <2>3, <2>4
<1>6. QED
  BY <1>1, <1>2, <1>3, <1>4, <1>5 DEF MoneyStep

LEMMA MoneyStepBooks ==
    ASSUME IInv, BooksBalance, NEW r \in Requests, MoneyStep(r)
    PROVE  BooksBalance'
<1>0. IInv'
  BY MoneyStepIInv
<1> SUFFICES ASSUME NEW u \in Users
             PROVE  /\ Total(Least(u)', NumRequests) <= Deposit[u] - balance'[u]
                    /\ Deposit[u] - balance'[u] <= Total(Most(u)', NumRequests)
  BY DEF BooksBalance
<1> DEFINE f == Least(u)
           g == Most(u)
           ff == Least(u)'
           gg == Most(u)'
<1>1. /\ f \in [1..NumRequests -> Int] /\ g \in [1..NumRequests -> Int]
      /\ ff \in [1..NumRequests -> Int] /\ gg \in [1..NumRequests -> Int]
  BY <1>0, CostsAreInt, CostsAreIntNext
<1>2. \A q \in 1..NumRequests : q # r => ff[q] = f[q] /\ gg[q] = g[q]
  BY OtherCostsKept DEF Requests
<1>3. ff[r] - f[r] <= balance[u] - balance'[u] /\ balance[u] - balance'[u] <= gg[r] - g[r]
  BY OwnCostChanges
<1>4. Total(f, NumRequests) <= Deposit[u] - balance[u] /\ Deposit[u] - balance[u] <= Total(g, NumRequests)
  BY DEF BooksBalance
<1>5. balance[u] \in Int /\ balance'[u] \in Int /\ Deposit[u] \in Int
      /\ NumRequests \in Nat /\ r \in 1..NumRequests
  BY <1>0, ChatAssumption DEF IInv, TypeOK, Requests
<1> HIDE DEF f, g, ff, gg
<1>6. /\ Total(ff, NumRequests) = Total(f, NumRequests) + ff[r] - f[r]
      /\ Total(gg, NumRequests) = Total(g, NumRequests) + gg[r] - g[r]
      /\ Total(f, NumRequests) \in Int /\ Total(g, NumRequests) \in Int
  BY <1>1, <1>2, <1>5, TotalUpdate, TotalInt
<1>7. ff[r] \in Int /\ f[r] \in Int /\ gg[r] \in Int /\ g[r] \in Int
  BY <1>1, <1>5
<1>8. /\ Total(ff, NumRequests) <= Deposit[u] - balance'[u]
      /\ Deposit[u] - balance'[u] <= Total(gg, NumRequests)
  BY <1>3, <1>4, <1>5, <1>6, <1>7
<1>9. QED
  BY <1>8 DEF ff, gg

LEMMA InitBooks == Init => BooksBalance
<1> SUFFICES ASSUME Init, NEW u \in Users
             PROVE  /\ Total(Least(u), NumRequests) <= Deposit[u] - balance[u]
                    /\ Deposit[u] - balance[u] <= Total(Most(u), NumRequests)
  BY DEF BooksBalance
<1>1. \A r \in 1..NumRequests : Least(u)[r] = 0 /\ Most(u)[r] = 0
  BY DEF Init, Least, Most, CallOf, Requests
<1>2. Least(u) \in [1..NumRequests -> Int] /\ Most(u) \in [1..NumRequests -> Int]
  BY InitIInv, CostsAreInt
<1>3. Total(Least(u), NumRequests) = 0 /\ Total(Most(u), NumRequests) = 0
  BY <1>1, <1>2, TotalZero, ChatAssumption
<1>4. Deposit[u] - balance[u] = 0
  BY ChatAssumption DEF Init
<1>5. QED
  BY <1>3, <1>4

(* For every user and at every moment, what is missing from the deposit is *)
(* what open, forgotten and settled calls of that user account for.        *)
THEOREM BooksAlwaysBalance == Spec => []BooksBalance
<1>1. IInv /\ BooksBalance /\ [Next]_vars => BooksBalance'
  <2>1. ASSUME IInv, BooksBalance, Next PROVE BooksBalance'
    BY <2>1, NextIsMoneyStep, MoneyStepBooks
  <2>2. ASSUME BooksBalance, UNCHANGED vars PROVE BooksBalance'
    BY <2>2 DEF BooksBalance, Least, Most, CallOf, vars
  <2>3. QED
    BY <2>1, <2>2
<1>2. QED
  BY InitBooks, InductiveInvariant, <1>1, PTL DEF Spec

-----------------------------------------------------------------------------
(***************************************************************************)
(* The handler implements the ledger.                                      *)
(***************************************************************************)
LEMMA InitLedger == Init => Quotas!Init
  BY DEF Init, Quotas!Init, Holding, Owner, Phase, Held

(* A step of r leaves the mapped state of the other requests alone, so it  *)
(* is described by the mapped state of r alone.                            *)
LEMMA MappedStep ==
    ASSUME IInv, NEW r \in Requests, MoneyStep(r)
    PROVE  /\ Owner' = [Owner EXCEPT ![r] = Owner'[r]]
           /\ Phase' = [Phase EXCEPT ![r] = Phase'[r]]
           /\ Held'  = [Held EXCEPT ![r] = Held'[r]]
<1>1. \A q \in Requests : q # r =>
        /\ pc'[q] = pc[q] /\ call'[q] = call[q] /\ estimate'[q] = estimate[q]
  BY DEF MoneyStep, RefuseStep, HoldStep, KeepStep, ReleaseStep, SettleStep, IInv, TypeOK, At
<1>2. \A q \in Requests : q # r =>
        Owner'[q] = Owner[q] /\ Phase'[q] = Phase[q] /\ Held'[q] = Held[q]
  BY <1>1 DEF Owner, Phase, Held
<1>3. Owner' = [q \in Requests |-> Owner'[q]] /\ Owner = [q \in Requests |-> Owner[q]]
  BY DEF Owner
<1>4. Phase' = [q \in Requests |-> Phase'[q]] /\ Phase = [q \in Requests |-> Phase[q]]
  BY DEF Phase
<1>5. Held' = [q \in Requests |-> Held'[q]] /\ Held = [q \in Requests |-> Held[q]]
  BY DEF Held
<1> HIDE DEF Owner, Phase, Held
<1>6. QED
  BY <1>2, <1>3, <1>4, <1>5

LEMMA LedgerStep ==
    ASSUME IInv, NEW r \in Requests, MoneyStep(r)
    PROVE  Quotas!Next \/ UNCHANGED <<balance, Owner, Phase, Held>>
<1> USE DEF IInv
<1>0. /\ Owner' = [Owner EXCEPT ![r] = Owner'[r]]
      /\ Phase' = [Phase EXCEPT ![r] = Phase'[r]]
      /\ Held'  = [Held EXCEPT ![r] = Held'[r]]
  BY MappedStep
<1>00. /\ Owner = [Owner EXCEPT ![r] = Owner[r]]
       /\ Phase = [Phase EXCEPT ![r] = Phase[r]]
       /\ Held  = [Held EXCEPT ![r] = Held[r]]
  BY DEF Owner, Phase, Held
<1>1. pc[r] \in Holding =>
        /\ Owner[r] = call[r].user /\ Phase[r] = "holding" /\ Held[r] = estimate[r]
        /\ call[r].user \in Users /\ balance[call[r].user] \in Nat /\ estimate[r] \in Nat
  BY DEF TypeOK, CallKnown, Holding, Ended, Calls, Owner, Phase, Held
<1>2. CASE RefuseStep(r)
  <2>1. Owner'[r] = Owner[r] /\ Phase'[r] = Phase[r] /\ Held'[r] = Held[r]
    BY <1>2 DEF RefuseStep, Owner, Phase, Held, Holding, TypeOK, At
  <2>2. QED
    BY <1>00, <1>0, <1>2, <2>1 DEF RefuseStep
<1>3. CASE HoldStep(r)
  <2>1. PICK c \in Calls : \E n \in 0..balance[c.user] :
            /\ call' = At(call, r, c)
            /\ estimate' = At(estimate, r, n)
            /\ balance' = At(balance, c.user, balance[c.user] - n)
    BY <1>3 DEF HoldStep
  <2>2. PICK n \in 0..balance[c.user] :
            /\ call' = At(call, r, c)
            /\ estimate' = At(estimate, r, n)
            /\ balance' = At(balance, c.user, balance[c.user] - n)
    BY <2>1
  <2>3. c.user \in Users /\ balance[c.user] \in Nat
    BY DEF Calls, TypeOK
  <2>4. Owner'[r] = c.user /\ Phase'[r] = "holding" /\ Held'[r] = n /\ Phase[r] = "none"
    BY <1>3, <2>2 DEF HoldStep, Owner, Phase, Held, Holding, TypeOK, At
  <2>5. Quotas!Hold(r, c.user, n)
    BY <1>0, <2>2, <2>3, <2>4 DEF Quotas!Hold, At
  <2>6. QED
    BY <2>3, <2>5 DEF Quotas!Next
<1>4. CASE KeepStep(r)
  <2>1. CASE pc'[r] \in Holding
    <3>1. Owner'[r] = Owner[r] /\ Phase'[r] = Phase[r] /\ Held'[r] = Held[r]
      BY <1>4, <2>1 DEF KeepStep, Owner, Phase, Held, Holding, TypeOK, At
    <3>2. QED
      BY <1>00, <1>0, <1>4, <3>1 DEF KeepStep
  <2>2. CASE pc'[r] = "stranded"
    <3>1. Owner'[r] = Owner[r] /\ Phase'[r] = "captured" /\ Held'[r] = 0
      BY <1>4, <2>2 DEF KeepStep, Owner, Phase, Held, Holding, TypeOK, At
    <3>2. balance' = [balance EXCEPT ![call[r].user] = @ + estimate[r] - estimate[r]]
      BY <1>1, <1>4 DEF KeepStep, TypeOK
    <3>3a. estimate[r] <= Held[r] + balance[Owner[r]]
      BY <1>1, <1>4 DEF KeepStep
    <3>3b. balance' = [balance EXCEPT ![Owner[r]] = balance[Owner[r]] + Held[r] - estimate[r]]
      BY <1>1, <1>4, <3>2 DEF KeepStep
    <3>3. Quotas!Capture(r, estimate[r])
      BY <3>3a, <3>3b, <1>00, <1>0, <1>1, <1>4, <3>1, <3>2 DEF KeepStep, Quotas!Capture
    <3>4. estimate[r] \in 0..(estimate[r] + balance[call[r].user])
      BY <1>1, <1>4 DEF KeepStep
    <3>5. QED
      BY <1>1, <1>4, <3>3, <3>4 DEF KeepStep, Quotas!Next
  <2>3. QED
    BY <1>4, <2>1, <2>2 DEF KeepStep, TypeOK, At
<1>5. CASE ReleaseStep(r)
  <2>1. Owner'[r] = Owner[r] /\ Phase'[r] = "released" /\ Held'[r] = 0
    BY <1>5 DEF ReleaseStep, Owner, Phase, Held, Holding, TypeOK, At
  <2>2. Quotas!Release(r)
    BY <1>00, <1>0, <1>1, <1>5, <2>1 DEF ReleaseStep, Quotas!Release, At
  <2>3. QED
    BY <2>2 DEF Quotas!Next
<1>6. CASE SettleStep(r)
  <2>1. PICK usage \in Usage :
            balance' = At(balance, call[r].user,
                          Settled(balance[call[r].user], estimate[r], usage))
    BY <1>6 DEF SettleStep
  <2> DEFINE after == Settled(balance[call[r].user], estimate[r], usage)
             price == balance[call[r].user] + estimate[r] - after
  <2>2. after \in Nat /\ after <= balance[call[r].user] + estimate[r]
    BY <1>1, <1>6, SettledBounds DEF SettleStep
  <2> HIDE DEF after
  <2>3. /\ price \in 0..(estimate[r] + balance[call[r].user])
        /\ after = balance[call[r].user] + estimate[r] - price
    BY <1>1, <1>6, <2>2 DEF SettleStep
  <2> HIDE DEF price
  <2>4. Owner'[r] = Owner[r] /\ Phase'[r] = "captured" /\ Held'[r] = 0
    BY <1>6 DEF SettleStep, Owner, Phase, Held, Holding, TypeOK, At
  <2>5. balance' = [balance EXCEPT ![call[r].user] = @ + estimate[r] - price]
    BY <2>1, <2>3 DEF At, after
  <2>6a. price <= Held[r] + balance[Owner[r]]
    BY <1>1, <1>6, <2>3 DEF SettleStep
  <2>6b. balance' = [balance EXCEPT ![Owner[r]] = balance[Owner[r]] + Held[r] - price]
    BY <1>1, <1>6, <2>5 DEF SettleStep
  <2>6. Quotas!Capture(r, price)
    BY <2>6a, <2>6b, <1>00, <1>0, <1>1, <1>6, <2>3, <2>4, <2>5 DEF SettleStep, Quotas!Capture
  <2>7. QED
    BY <1>1, <1>6, <2>3, <2>6 DEF SettleStep, Quotas!Next
<1>7. QED
  BY <1>2, <1>3, <1>4, <1>5, <1>6 DEF MoneyStep

(* Every behaviour of the handler, for any number of requests, is one of   *)
(* the ledger: a hold is taken once, ended once, and never worth more than *)
(* the funds; nothing else moves a balance.                                *)
THEOREM ChatImplementsLedger == Spec => ImplementsLedger
<1>1. IInv /\ [Next]_vars => [Quotas!Next]_(Quotas!ledgerVars)
  <2>1. ASSUME IInv, Next PROVE [Quotas!Next]_(Quotas!ledgerVars)
    BY <2>1, NextIsMoneyStep, LedgerStep DEF Quotas!ledgerVars
  <2>2. ASSUME UNCHANGED vars PROVE UNCHANGED Quotas!ledgerVars
    BY <2>2 DEF Quotas!ledgerVars, Owner, Phase, Held, vars
  <2>3. QED
    BY <2>1, <2>2
<1>2. QED
  BY InitLedger, InductiveInvariant, <1>1, PTL DEF Spec, ImplementsLedger, Quotas!Spec

-----------------------------------------------------------------------------
(***************************************************************************)
(* What follows from the refinement of the ledger: LedgerProofs' theorems, *)
(* read of this handler.                                                   *)
(***************************************************************************)
Holds == INSTANCE LedgerProofs WITH
    NoUser <- None, funds <- balance, owner <- Owner, phase <- Phase, held <- Held

LEMMA SameLedger == Quotas!Spec => Holds!Spec
<1>1. Quotas!Init => Holds!Init
  BY DEF Quotas!Init, Holds!Init
<1>2. [Quotas!Next]_(Quotas!ledgerVars) => [Holds!Next]_(Holds!ledgerVars)
  BY DEF Quotas!Next, Quotas!Hold, Quotas!Capture, Quotas!Release, Quotas!ledgerVars,
         Holds!Next, Holds!Hold, Holds!Capture, Holds!Release, Holds!ledgerVars
<1>3. QED
  BY <1>1, <1>2, PTL DEF Quotas!Spec, Holds!Spec

(* However plain calls, streams, failures and disconnects overlap, no      *)
(* user's balance and open estimates are together more than the deposit,   *)
(* and no estimate is refunded or settled twice (routes/chat.py on         *)
(* quota.py).                                                              *)
THEOREM ChatNobodyGains == Spec => []Holds!Covered /\ Holds!EndsOnce
<1>1. Holds!Spec => []Holds!Covered
  BY Holds!LedgerCovers, ChatAssumption DEF Requests, Holds!Numbered
<1>2. QED
  BY <1>1, Holds!HoldsEndOnce, SameLedger, ChatImplementsLedger, PTL DEF ImplementsLedger

-----------------------------------------------------------------------------
(***************************************************************************)
(* Gateway.                                                                *)
(***************************************************************************)
Handling(r) == Arrive(r) \/ PostEnds(r) \/ StreamSteps(r)

(* A step of the gateway is one of a request's handler, which writes the   *)
(* log, or one that the handler's state does not see.                      *)
HandlerStep(r) == Within(r, Handling(r))

StoreTypeOK ==
    /\ buffer \in Seq(Requests)
    /\ flushed \in Seq(Requests)
    /\ flusher \in {"running", "stopping", "ended"}

(* The entry in the handler's log and the end "settled" come together.     *)
LoggedIffSettled == \A r \in Requests : pc[r] = "settled" <=> log[r] # None

-----------------------------------------------------------------------------
LEMMA WithinHandler ==
    ASSUME NEW r \in Requests, Request(r) \/ Serve(r)
    PROVE  HandlerStep(r)
  BY DEF Request, Serve, Within, HandlerStep, Handling

LEMMA GatewaySteps ==
    ASSUME [GatewayNext]_gatewayVars
    PROVE  \/ \E r \in Requests : HandlerStep(r)
           \/ UNCHANGED vars /\ (Flush \/ Shutdown \/ \E r \in Requests : Count(r))
           \/ UNCHANGED gatewayVars
<1>1. ASSUME NEW r \in Requests, Request(r) \/ Serve(r)
      PROVE  HandlerStep(r)
  BY <1>1, WithinHandler
<1>2. Flush \/ Shutdown \/ (\E r \in Requests : Count(r)) => UNCHANGED vars
  BY DEF Flush, Shutdown, Count
<1>3. QED
  BY <1>1, <1>2 DEF GatewayNext

LEMMA GatewayStepIsStep ==
    ASSUME [GatewayNext]_gatewayVars
    PROVE  [Next]_vars
<1>1. ASSUME NEW r \in Requests, HandlerStep(r)
      PROVE  Next
  BY <1>1 DEF HandlerStep, Within, Handling, Next
<1>2. UNCHANGED gatewayVars => UNCHANGED vars
  BY DEF gatewayVars
<1>3. QED
  BY <1>1, <1>2, GatewaySteps

(* Log, metrics, startup and shutdown leave the chat handler what it is:   *)
(* every behaviour of s_full is one of the handler's.                      *)
THEOREM GatewayRefinesChat == GatewaySpec => Spec
<1>1. GatewayInit => Init
  BY DEF GatewayInit
<1>2. [GatewayNext]_gatewayVars => [Next]_vars
  BY GatewayStepIsStep
<1>3. QED
  BY <1>1, <1>2, PTL DEF GatewaySpec, Spec

LEMMA HandlerIsMoneyStep ==
    ASSUME IInv, NEW r \in Requests, HandlerStep(r)
    PROVE  MoneyStep(r)
  BY ArriveIsMoneyStep, PostEndsIsMoneyStep, StreamStepIsMoneyStep
  DEF HandlerStep, Within, Handling

-----------------------------------------------------------------------------
(***************************************************************************)
(* The log.                                                                *)
(***************************************************************************)
LEMMA StoreTypeInit == GatewayInit => StoreTypeOK
  BY EmptySeq DEF GatewayInit, StoreInit, StoreTypeOK

LEMMA StoreTypeStep ==
    ASSUME StoreTypeOK, [GatewayNext]_gatewayVars
    PROVE  StoreTypeOK'
<1>1. CASE Flush \/ Shutdown
  <2>1. buffer' = <<>> /\ flushed' = flushed \o buffer
    BY <1>1 DEF Flush, Shutdown, FlushRound, StopFlusher, Drain
  <2>2. buffer' \in Seq(Requests) /\ flushed' \in Seq(Requests)
    BY <2>1, ConcatProperties, EmptySeq DEF StoreTypeOK
  <2>3. QED
    BY <1>1, <2>2 DEF Flush, Shutdown, FlushRound, StopFlusher, StoreTypeOK
<1>2. ASSUME NEW r \in Requests, HandlerStep(r)
      PROVE  StoreTypeOK'
  <2>1. CASE Enqueue(r)
    BY <2>1, AppendProperties DEF Enqueue, StoreTypeOK
  <2>2. CASE UNCHANGED storeVars
    BY <2>2 DEF storeVars, StoreTypeOK
  <2>3. QED
    BY <1>2, <2>1, <2>2 DEF HandlerStep, Within
<1>3. ASSUME NEW r \in Requests, Count(r)
      PROVE  StoreTypeOK'
  BY <1>3 DEF Count, storeVars, StoreTypeOK
<1>4. CASE UNCHANGED gatewayVars
  BY <1>4 DEF gatewayVars, storeVars, StoreTypeOK
<1>5. QED
  BY <1>1, <1>2, <1>3, <1>4, GatewaySteps

LEMMA DrainKeepsLog ==
    ASSUME StoreTypeOK, Drain
    PROVE  Log' = Log /\ Len(flushed') = Len(Log)
<1>1. flushed' \in Seq(Requests) /\ flushed' = Log /\ buffer' = <<>>
  BY ConcatProperties DEF Drain, Log, StoreTypeOK
<1>2. QED
  BY <1>1, ConcatEmptySeq DEF Log

LEMMA EnqueueAppends ==
    ASSUME StoreTypeOK, NEW r \in Requests, Enqueue(r)
    PROVE  /\ Log' = Append(Log, r) /\ flushed' = flushed
           /\ Len(Log) \in Nat
           /\ Len(Log') = Len(Log) + 1
           /\ \A i \in 1..Len(Log) : Log'[i] = Log[i]
           /\ Log'[Len(Log) + 1] = r
<1>1. /\ buffer \in Seq(Requests)
      /\ flushed \in Seq(Requests)
      /\ <<r>> \in Seq(Requests)
      /\ Log \in Seq(Requests)
  BY ConcatProperties DEF StoreTypeOK, Log
<1>2. buffer' = buffer \o <<r>> /\ flushed' = flushed
  BY <1>1, AppendIsConcat DEF Enqueue
<1>3. flushed \o (buffer \o <<r>>) = (flushed \o buffer) \o <<r>>
  BY <1>1, ConcatAssociative
<1>4. Log' = Append(Log, r)
  BY <1>1, <1>2, <1>3, AppendIsConcat DEF Log
<1>5. QED
  BY <1>1, <1>2, <1>4, AppendProperties

(* A handler's step settles its call and writes the entry, or does neither.*)
LEMMA BillStep ==
    ASSUME IInv, IInv', LoggedIffSettled, NEW r \in Requests, MoneyStep(r)
    PROVE  /\ LoggedIffSettled'
           /\ \/ log'[r] = log[r] /\ \A q \in Requests : pc'[q] = "settled" <=> pc[q] = "settled"
              \/ /\ log'[r] # log[r]
                 /\ pc[r] # "settled"
                 /\ pc' = At(pc, r, "settled")
<1> USE DEF IInv
<1>1. CASE SettleStep(r)
  <2>1. pc[r] # "settled" /\ pc' = At(pc, r, "settled") /\ \E x : log' = At(log, r, x)
    BY <1>1 DEF SettleStep, Holding
  <2>2. log[r] = None
    BY <2>1 DEF LoggedIffSettled
  <2>3. pc'[r] = "settled" /\ log'[r] \in Nat
    BY <2>1 DEF At, TypeOK, CallKnown
  <2>4. log'[r] # None
    BY <2>3, NoneAssumption
  <2>5. \A q \in Requests : q # r => pc'[q] = pc[q] /\ log'[q] = log[q]
    BY <2>1 DEF At, TypeOK
  <2>6. QED
    BY <2>1, <2>2, <2>3, <2>4, <2>5 DEF LoggedIffSettled
<1>2. CASE RefuseStep(r) \/ HoldStep(r) \/ KeepStep(r) \/ ReleaseStep(r)
  <2>1. log' = log /\ pc[r] # "settled"
    BY <1>2 DEF RefuseStep, HoldStep, KeepStep, ReleaseStep, Holding
  <2>2. \E to \in Holding \cup {"refused", "stranded", "refunded"} : pc' = At(pc, r, to)
    BY <1>2 DEF RefuseStep, HoldStep, KeepStep, ReleaseStep
  <2>3. \A q \in Requests : pc'[q] = "settled" <=> pc[q] = "settled"
    BY <2>1, <2>2 DEF At, TypeOK, Holding
  <2>4. QED
    BY <2>1, <2>3 DEF LoggedIffSettled
<1>3. QED
  BY <1>1, <1>2 DEF MoneyStep

LEMMA BillInit == GatewayInit => LoggedIffSettled /\ LogIsTheBill
<1> SUFFICES ASSUME GatewayInit PROVE LoggedIffSettled /\ LogIsTheBill
  OBVIOUS
<1>1. Log = <<>>
  BY DEF GatewayInit, StoreInit, Log
<1>2. \A r \in Requests : Occurrences(r) = {}
  BY <1>1 DEF Occurrences
<1>3. QED
  BY <1>2 DEF GatewayInit, Init, LoggedIffSettled, LogIsTheBill

LEMMA LogIsTheBillStep ==
    ASSUME IInv, IInv', StoreTypeOK, LoggedIffSettled, LogIsTheBill,
           [GatewayNext]_gatewayVars
    PROVE  LoggedIffSettled' /\ LogIsTheBill'
<1>1. CASE UNCHANGED vars /\ Log' = Log
  BY <1>1 DEF vars, LoggedIffSettled, LogIsTheBill, Occurrences
<1>2. CASE Flush \/ Shutdown
  <2>1. Drain /\ UNCHANGED vars
    BY <1>2 DEF Flush, Shutdown, FlushRound, StopFlusher
  <2>2. QED
    BY <1>1, <2>1, DrainKeepsLog
<1>3. CASE UNCHANGED gatewayVars \/ \E r \in Requests : Count(r)
  BY <1>1, <1>3 DEF gatewayVars, Count, storeVars, Log
<1>4. ASSUME NEW r \in Requests, HandlerStep(r)
      PROVE  LoggedIffSettled' /\ LogIsTheBill'
  <2>0. MoneyStep(r)
    BY <1>4, HandlerIsMoneyStep
  <2>1. LoggedIffSettled'
    BY <2>0, BillStep
  <2>2. CASE log'[r] = log[r]
    <3>1. Log' = Log
      BY <1>4, <2>2 DEF HandlerStep, Within, storeVars, Log
    <3>2. \A q \in Requests : pc'[q] = "settled" <=> pc[q] = "settled"
      BY <2>0, <2>2, BillStep
    <3>3. QED
      BY <2>1, <3>1, <3>2 DEF LogIsTheBill, Occurrences
  <2>3. CASE log'[r] # log[r]
    <3>1. Enqueue(r)
      BY <1>4, <2>3 DEF HandlerStep, Within
    <3>2. /\ Len(Log) \in Nat
          /\ Len(Log') = Len(Log) + 1
          /\ \A i \in 1..Len(Log) : Log'[i] = Log[i]
          /\ Log'[Len(Log) + 1] = r
      BY <3>1, EnqueueAppends
    <3>3. pc[r] # "settled" /\ pc' = At(pc, r, "settled")
      BY <2>0, <2>3, BillStep
    <3>4. ASSUME NEW q \in Requests PROVE LogIsTheBill!(q)'
      <4>1. CASE q = r
        <5>1. Occurrences(r) = {}
          BY <3>3 DEF LogIsTheBill
        <5>2. Occurrences(r)' = {Len(Log) + 1}
          BY <3>2, <5>1 DEF Occurrences
        <5>3. pc'[r] = "settled"
          BY <3>3 DEF At, IInv, TypeOK
        <5>4. QED
          BY <3>2, <4>1, <5>2, <5>3
      <4>2. CASE q # r
        <5>1. Occurrences(q)' = Occurrences(q)
          BY <3>2, <4>2 DEF Occurrences
        <5>2. pc'[q] = pc[q]
          BY <3>3, <4>2 DEF At, IInv, TypeOK
        <5>3. QED
          BY <3>2, <5>1, <5>2 DEF LogIsTheBill
      <4>3. QED
        BY <4>1, <4>2
    <3>5. QED
      BY <2>1, <3>4 DEF LogIsTheBill
  <2>4. QED
    BY <2>2, <2>3
<1>5. QED
  BY <1>2, <1>3, <1>4, GatewaySteps

(* Each settled call has one entry, and no other call has any, whatever    *)
(* streams fail or are left and whenever the loop drains (_relay_stream,   *)
(* chat_completions, enqueue_log).                                         *)
THEOREM LogIsAlwaysTheBill == GatewaySpec => []LogIsTheBill
<1> DEFINE Inv == StoreTypeOK /\ LoggedIffSettled /\ LogIsTheBill
<1>1. GatewayInit => Inv
  BY StoreTypeInit, BillInit
<1>2. IInv /\ IInv' /\ Inv /\ [GatewayNext]_gatewayVars => Inv'
  BY StoreTypeStep, LogIsTheBillStep
<1>3. Inv => LogIsTheBill
  OBVIOUS
<1>4. QED
  BY <1>1, <1>2, <1>3, GatewayRefinesChat, InductiveInvariant, PTL DEF GatewaySpec

-----------------------------------------------------------------------------
(***************************************************************************)
(* The journal.                                                            *)
(***************************************************************************)
LEMMA DrainPublishes ==
    ASSUME StoreTypeOK, Drain
    PROVE  [Journals!Next]_(Journals!vars)
<1>1. Log' = Log /\ Len(flushed') = Len(Log)
  BY DrainKeepsLog
<1>2. Len(Log) = Len(flushed) + Len(buffer) /\ Len(flushed) \in Nat /\ Len(buffer) \in Nat
  BY ConcatProperties, LenProperties DEF StoreTypeOK, Log
<1>3. CASE Len(flushed) = Len(Log)
  BY <1>1, <1>3 DEF Journals!vars
<1>4. CASE Len(flushed) # Len(Log)
  <2>1. Len(flushed) < Len(Log) /\ Len(flushed') \in (Len(flushed) + 1)..Len(Log)
    BY <1>1, <1>2, <1>4
  <2>2. QED
    BY <1>1, <2>1 DEF Journals!Next, Journals!Publish
<1>5. QED
  BY <1>3, <1>4

LEMMA JournalStep ==
    ASSUME IInv, IInv', StoreTypeOK, LoggedIffSettled, LogIsTheBill, [GatewayNext]_gatewayVars
    PROVE  [Journals!Next]_(Journals!vars)
<1>1. CASE UNCHANGED storeVars
  BY <1>1 DEF storeVars, Log, Journals!vars
<1>2. CASE Flush \/ Shutdown
  BY <1>2, DrainPublishes DEF Flush, Shutdown, FlushRound, StopFlusher
<1>3. ASSUME NEW r \in Requests, HandlerStep(r), log'[r] # log[r]
      PROVE  Journals!Write(r)
  <2>1. Enqueue(r)
    BY <1>3 DEF HandlerStep, Within
  <2>2. pc[r] # "settled"
    BY <1>3, HandlerIsMoneyStep, BillStep
  <2>3. r \notin Journals!Written
    BY <2>2 DEF LogIsTheBill, Occurrences, Journals!Written
  <2>4. QED
    BY <2>1, <2>3, EnqueueAppends DEF Journals!Write
<1>4. ASSUME NEW r \in Requests, HandlerStep(r), log'[r] = log[r]
      PROVE  UNCHANGED storeVars
  BY <1>4 DEF HandlerStep, Within
<1>5. (\E r \in Requests : Count(r)) \/ UNCHANGED gatewayVars => UNCHANGED storeVars
  BY DEF Count, gatewayVars
<1>6. QED
  BY <1>1, <1>2, <1>3, <1>4, <1>5, GatewaySteps DEF Journals!Next

(* s_full's log implements the journal: no entry of a settled call is lost,*)
(* written twice or moved, whatever streams settle while the loop drains   *)
(* or the server stops (models/log.py, enqueue and drain_now).             *)
THEOREM GatewayImplementsJournal == GatewaySpec => ImplementsJournal
<1> DEFINE Inv == StoreTypeOK /\ LoggedIffSettled /\ LogIsTheBill
<1>1. GatewayInit => Inv
  BY StoreTypeInit, BillInit
<1>2. IInv /\ IInv' /\ Inv /\ [GatewayNext]_gatewayVars => Inv'
  BY StoreTypeStep, LogIsTheBillStep
<1>3. IInv /\ IInv' /\ Inv /\ [GatewayNext]_gatewayVars => [Journals!Next]_(Journals!vars)
  BY JournalStep
<1>4. GatewayInit => Journals!Init
  BY DEF GatewayInit, StoreInit, Log, Journals!Init
<1> HIDE DEF Inv
<1>5. QED
  BY <1>1, <1>2, <1>3, <1>4, GatewayRefinesChat, InductiveInvariant, PTL
  DEF GatewaySpec, ImplementsJournal, Journals!Spec

-----------------------------------------------------------------------------
(* What is in the buffer and on the list are requests, what is counted are *)
(* statuses, and no interleaving overdraws a balance or a bucket.          *)
THEOREM GatewayTypeCorrect == GatewaySpec => []GatewayTypeOK
<1> DEFINE Counted == counted \in [Requests -> Statuses \cup {None}]
<1>1. GatewayInit => StoreTypeOK /\ Counted
  BY StoreTypeInit DEF GatewayInit
<1>2. ASSUME IInv, Counted, [GatewayNext]_gatewayVars
      PROVE  Counted'
  <2>1. CASE \E r \in Requests : Count(r)
    <3>1. PICK r \in Requests : Count(r)
      BY <2>1
    <3>2. status[r] \in Statuses \cup {None} /\ 200 \in Statuses
      BY <1>2 DEF IInv, TypeOK, Statuses
    <3>3. QED
      BY <1>2, <3>1, <3>2 DEF Count
  <2>2. CASE UNCHANGED counted
    BY <1>2, <2>2
  <2>3. QED
    BY <1>2, <2>1, <2>2, GatewaySteps DEF HandlerStep, Within, Flush, Shutdown, gatewayVars
<1>3. IInv /\ StoreTypeOK /\ Counted => GatewayTypeOK
  BY DEF IInv, StoreTypeOK, GatewayTypeOK
<1> HIDE DEF Counted
<1>4. IInv /\ StoreTypeOK /\ Counted /\ [GatewayNext]_gatewayVars => (StoreTypeOK /\ Counted)'
  BY <1>2, StoreTypeStep
<1>5. QED
  BY <1>1, <1>3, <1>4, GatewayRefinesChat, InductiveInvariant, PTL DEF GatewaySpec

-----------------------------------------------------------------------------
(***************************************************************************)
(* The metrics.  What status a request has at each point of its handler.   *)
(***************************************************************************)
Heads == \A r \in Requests :
    /\ pc[r] \in {"idle", "created", "posted"} => status[r] = None
    /\ pc[r] \in {"created", "relaying", "closing"} => call[r].stream
    /\ pc[r] \in {"relaying", "closing"} => status[r] = 200
    /\ pc[r] = "settled" => status[r] \in {200, 500}
    /\ pc[r] = "refused" => status[r] \notin {None, 200}
    /\ pc[r] = "refunded" => status[r] # None /\ (status[r] = 200 => call[r].stream)
    /\ pc[r] = "stranded" => status[r] = 500 \/ (status[r] = None /\ call[r].stream)

Errors == {400, 401, 402, 422, 429, 500, 502} \cup UpstreamErrors

(* The transitions of one request, with the status each one sets.          *)
Refuses(r) ==
    /\ pc[r] = "idle" /\ pc' = At(pc, r, "refused")
    /\ \E code \in Errors : status' = At(status, r, code)
    /\ \E c : call' = At(call, r, c)

Forwards(r) ==
    /\ pc[r] = "idle" /\ UNCHANGED status
    /\ \E c \in Calls :
         /\ call' = At(call, r, c)
         /\ pc' = At(pc, r, IF c.stream THEN "created" ELSE "posted")

PostFails(r) ==
    /\ pc[r] = "posted" /\ UNCHANGED call
    /\ \/ pc' = At(pc, r, "refunded") /\ \E code \in Errors : status' = At(status, r, code)
       \/ pc' = At(pc, r, "stranded") /\ status' = At(status, r, 500)
       \/ pc' = At(pc, r, "settled") /\ status' = At(status, r, 500)

Succeeds(r) ==
    /\ UNCHANGED call
    /\ \/ pc[r] = "posted" /\ pc' = At(pc, r, "settled")
       \/ pc[r] = "created" /\ pc' = At(pc, r, "relaying")
    /\ status' = At(status, r, 200)

Leaves(r) ==
    /\ UNCHANGED <<call, status>>
    /\ \/ pc[r] = "created" /\ pc' = At(pc, r, "stranded")
       \/ /\ pc[r] \in {"relaying", "closing"}
          /\ \E to \in {"closing", "refunded", "settled"} : pc' = At(pc, r, to)

LEMMA ErrorsAreErrors == \A code \in Errors : code \notin {None, 200}
  BY ChatAssumption, NoneAssumption DEF Errors

LEMMA HandlerTransitions ==
    ASSUME IInv, NEW r \in Requests, Handling(r)
    PROVE  Refuses(r) \/ Forwards(r) \/ PostFails(r) \/ Succeeds(r) \/ Leaves(r)
<1>1. CASE Arrive(r)
  <2>0. {400, 401, 402, 422, 429, 500} \subseteq Errors
    BY DEF Errors
  <2>1. CASE Unauthorized(r)
    <3>1. call' = At(call, r, call[r])
      BY <2>1 DEF Unauthorized, At, IInv, TypeOK
    <3>2. PICK code \in {401, 422} : End(r, "refused", code)
      BY <2>1 DEF Unauthorized
    <3>3. code \in Errors
      BY <2>0, <3>2
    <3>4. pc[r] = "idle" /\ pc' = At(pc, r, "refused") /\ status' = At(status, r, code)
      BY <2>1, <3>2 DEF Unauthorized, End, At
    <3>5. QED
      BY <3>1, <3>3, <3>4 DEF Refuses
  <2>2. ASSUME NEW c \in Calls, RateLimited(r, c)
        PROVE  Refuses(r)
    <3>1. pc[r] = "idle" /\ End(r, "refused", 429) /\ call' = At(call, r, c)
      BY <2>2 DEF RateLimited, At
    <3>2. pc' = At(pc, r, "refused") /\ status' = At(status, r, 429)
      BY <3>1 DEF End, At
    <3>3. 429 \in Errors
      BY <2>0
    <3>4. QED
      BY <3>1, <3>2, <3>3 DEF Refuses
  <2>3. ASSUME NEW c \in Calls, NEW n,
               NegativeEstimate(r, c, n) \/ InsufficientQuota(r, c, n) \/ BadRequest(r, c, n)
        PROVE  Refuses(r)
    <3>1. pc[r] = "idle" /\ call' = At(call, r, c)
      BY <2>3 DEF NegativeEstimate, InsufficientQuota, BadRequest, Admitted, At
    <3>2. \E code \in {400, 402, 500} : End(r, "refused", code)
      BY <2>3 DEF NegativeEstimate, InsufficientQuota, BadRequest
    <3>3. PICK code \in Errors : End(r, "refused", code)
      BY <2>0, <3>2
    <3>4. pc' = At(pc, r, "refused") /\ status' = At(status, r, code)
      BY <3>3 DEF End, At
    <3>5. QED
      BY <3>1, <3>3, <3>4 DEF Refuses
  <2>4. ASSUME NEW c \in Calls, NEW n, Forward(r, c, n)
        PROVE  Forwards(r)
    BY <2>4 DEF Forward, Admitted, Forwards, At
  <2>5. ASSUME NEW c \in Calls, Uncountable(r, c)
        PROVE  Refuses(r)
    <3>1. pc[r] = "idle" /\ call' = At(call, r, c) /\ End(r, "refused", 500)
      BY <2>5 DEF Uncountable, Admitted, At
    <3>2. pc' = At(pc, r, "refused") /\ status' = At(status, r, 500) /\ 500 \in Errors
      BY <2>0, <3>1 DEF End, At
    <3>3. QED
      BY <3>1, <3>2 DEF Refuses
  <2>6. QED
    BY <1>1, <2>1, <2>2, <2>3, <2>4, <2>5 DEF Arrive, Handle
<1>2. CASE PostEnds(r)
  <2>1. CASE TransportError(r) \/ UpstreamStatus(r) \/ MalformedBody(r)
    <3>1. 502 \in Errors /\ UpstreamErrors \subseteq Errors
      BY DEF Errors
    <3>2. pc[r] = "posted" /\ Refund(r) /\ \E code \in Errors : End(r, "refunded", code)
      BY <2>1, <3>1, Zenon DEF TransportError, UpstreamStatus, MalformedBody
    <3>3. QED
      BY <3>2 DEF Refund, End, PostFails, At
  <2>2. CASE UnexpectedShape(r)
    BY <2>2 DEF UnexpectedShape, End, PostFails, At
  <2>3. ASSUME NEW usage \in Usages, Completed(r, usage)
        PROVE  Succeeds(r)
    BY <2>3 DEF Completed, SettleAndLog, End, Succeeds, At
  <2>4. ASSUME NEW usage \in Usages, Unrendered(r, usage)
        PROVE  PostFails(r)
    BY <2>4 DEF Unrendered, SettleAndLog, End, PostFails, At
  <2>5. QED
    BY <1>2, <2>1, <2>2, <2>3, <2>4 DEF PostEnds
<1>3. CASE StreamSteps(r)
  BY <1>3 DEF StreamSteps, StartStream, Abandon, StreamFails, Disconnect, CloseGenerator,
              StreamCompleted, Refund, SettleAndLog, End, Succeeds, Leaves, At
<1>4. QED
  BY <1>1, <1>2, <1>3 DEF Handling

LEMMA HeadsInit == GatewayInit => Heads
  BY DEF GatewayInit, Init, Heads

LEMMA HeadsStep ==
    ASSUME IInv, Heads, NEW r \in Requests, Handling(r)
    PROVE  Heads'
<1> USE DEF IInv
<1>1. CASE Refuses(r)
  <2>1. PICK code \in Errors : status' = At(status, r, code)
    BY <1>1 DEF Refuses
  <2>2. pc' = At(pc, r, "refused") /\ \E c : call' = At(call, r, c)
    BY <1>1 DEF Refuses
  <2>3. code \notin {None, 200}
    BY ErrorsAreErrors
  <2>4. QED
    BY <2>1, <2>2, <2>3 DEF At, Heads, TypeOK
<1>2. CASE Forwards(r)
  <2>1. PICK c \in Calls : /\ call' = At(call, r, c)
                           /\ pc' = At(pc, r, IF c.stream THEN "created" ELSE "posted")
    BY <1>2 DEF Forwards
  <2>2. pc[r] = "idle" /\ status' = status
    BY <1>2 DEF Forwards
  <2>3. CASE c.stream
    BY <2>1, <2>2, <2>3 DEF At, Heads, TypeOK
  <2>4. CASE ~c.stream
    BY <2>1, <2>2, <2>4 DEF At, Heads, TypeOK
  <2>5. QED
    BY <2>3, <2>4
<1>3. CASE PostFails(r)
  <2>1. CASE pc' = At(pc, r, "refunded") /\ \E code \in Errors : status' = At(status, r, code)
    <3>1. PICK code \in Errors : status' = At(status, r, code)
      BY <2>1
    <3>2. code \notin {None, 200} /\ call' = call
      BY <1>3, ErrorsAreErrors DEF PostFails
    <3>3. QED
      BY <2>1, <3>1, <3>2 DEF At, Heads, TypeOK
  <2>2. CASE pc' = At(pc, r, "stranded") /\ status' = At(status, r, 500)
    BY <1>3, <2>2 DEF PostFails, At, Heads, TypeOK
  <2>3. CASE pc' = At(pc, r, "settled") /\ status' = At(status, r, 500)
    BY <1>3, <2>3 DEF PostFails, At, Heads, TypeOK
  <2>4. QED
    BY <1>3, <2>1, <2>2, <2>3 DEF PostFails
<1>4. CASE Succeeds(r)
  BY <1>4 DEF Succeeds, At, Heads, TypeOK
<1>5. CASE Leaves(r)
  BY <1>5, NoneAssumption DEF Leaves, At, Heads, TypeOK
<1>6. QED
  BY <1>1, <1>2, <1>3, <1>4, <1>5, HandlerTransitions

(* A counted request has the head it was counted by, or was an abandoned   *)
(* stream.                                                                 *)
CountedHeads == \A r \in Requests : counted[r] # None =>
    \/ HasHead(r) /\ counted[r] = status[r]
    \/ Abandoned(r) /\ counted[r] = 200

(* Once there is a head, the status stays and is not turned into a raised  *)
(* 500; an abandoned stream takes no step.                                 *)
LEMMA HeadsStay ==
    ASSUME IInv, Heads, NEW r \in Requests, Handling(r)
    PROVE  /\ ~Abandoned(r)
           /\ HasHead(r) => HasHead(r)' /\ status'[r] = status[r]
           /\ \A q \in Requests : q # r => pc'[q] = pc[q] /\ status'[q] = status[q]
<1> USE DEF IInv
<1>1. CASE Refuses(r) \/ Forwards(r) \/ PostFails(r) \/ Succeeds(r)
  <2>1. pc[r] \in {"idle", "created", "posted"}
    BY <1>1 DEF Refuses, Forwards, PostFails, Succeeds
  <2>2. ~HasHead(r) /\ ~Abandoned(r)
    BY <2>1 DEF Heads, HasHead, Abandoned
  <2>3. QED
    BY <1>1, <2>2 DEF Refuses, Forwards, PostFails, Succeeds, At, TypeOK
<1>2. CASE Leaves(r)
  <2>1. ~Abandoned(r) /\ status' = status
    BY <1>2 DEF Leaves, Abandoned
  <2>2. \A q \in Requests : q # r => pc'[q] = pc[q]
    BY <1>2 DEF Leaves, At, TypeOK
  <2>3. HasHead(r) => status[r] = 200
    BY <1>2 DEF Leaves, Heads, HasHead
  <2>4. HasHead(r) => HasHead(r)'
    BY <2>1, <2>3 DEF HasHead, Raised
  <2>5. QED
    BY <2>1, <2>2, <2>4
<1>3. QED
  BY <1>1, <1>2, HandlerTransitions

LEMMA CountedHeadsStep ==
    ASSUME IInv, Heads, CountedHeads, counted \in [Requests -> Statuses \cup {None}],
           [GatewayNext]_gatewayVars
    PROVE  Heads' /\ CountedHeads'
<1>1. CASE UNCHANGED <<vars, counted>>
  BY <1>1 DEF vars, Heads, CountedHeads, HasHead, Raised, Abandoned
<1>2. ASSUME NEW r \in Requests, HandlerStep(r)
      PROVE  Heads' /\ CountedHeads'
  <2>1. Handling(r) /\ counted' = counted
    BY <1>2 DEF HandlerStep, Within
  <2>2. Heads'
    BY <2>1, HeadsStep
  <2>3. ASSUME NEW q \in Requests, counted[q] # None
        PROVE  \/ HasHead(q)' /\ counted[q] = status'[q]
               \/ Abandoned(q)' /\ counted[q] = 200
    <3>1. CASE q = r
      BY <2>1, <2>3, <3>1, HeadsStay DEF CountedHeads
    <3>2. CASE q # r
      <4>1. pc'[q] = pc[q] /\ status'[q] = status[q]
        BY <2>1, <3>2, HeadsStay
      <4>2. QED
        BY <2>3, <4>1 DEF CountedHeads, HasHead, Raised, Abandoned
    <3>3. QED
      BY <3>1, <3>2
  <2>4. QED
    BY <2>1, <2>2, <2>3 DEF CountedHeads
<1>3. ASSUME NEW r \in Requests, Count(r)
      PROVE  Heads' /\ CountedHeads'
  <2>1. UNCHANGED vars
    BY <1>3 DEF Count
  <2>2. \/ HasHead(r) /\ counted' = [counted EXCEPT ![r] = status[r]]
        \/ Abandoned(r) /\ counted' = [counted EXCEPT ![r] = 200]
    BY <1>3 DEF Count
  <2>3. Heads'
    BY <2>1 DEF vars, Heads
  <2>4. CountedHeads'
    BY <2>1, <2>2 DEF vars, CountedHeads, HasHead, Raised, Abandoned
  <2>5. QED
    BY <2>3, <2>4
<1>4. CASE Flush \/ Shutdown \/ UNCHANGED gatewayVars
  BY <1>1, <1>4 DEF Flush, Shutdown, gatewayVars
<1>5. QED
  BY <1>2, <1>3, <1>4, GatewaySteps

LEMMA HeadsMatchBills ==
    ASSUME IInv, Heads, CountedHeads, LoggedIffSettled
    PROVE  MetricsMatchBills
<1> SUFFICES ASSUME NEW r \in Requests, counted[r] # None
             PROVE  MetricsMatchBills!(r)!2
  BY DEF MetricsMatchBills
<1>1. pc[r] \in {"idle"} \cup Holding \cup Ended
  BY DEF IInv, TypeOK
<1>2. CASE HasHead(r) /\ counted[r] = status[r]
  BY <1>1, <1>2 DEF Heads, HasHead, Raised, LoggedIffSettled, Holding, Ended
<1>3. CASE Abandoned(r) /\ counted[r] = 200
  BY <1>3, NoneAssumption DEF Heads, Abandoned
<1>4. QED
  BY <1>2, <1>3 DEF CountedHeads

(* Whenever the middleware gets to count, what it counts agrees with the   *)
(* quota: errors in the metrics were free, and plain successes were billed *)
(* (TraceAndMetricsMiddleware.dispatch around chat_completions).           *)
THEOREM MetricsAlwaysMatch == GatewaySpec => []MetricsMatchBills
<1> DEFINE Inv == Heads /\ CountedHeads
<1>1. GatewayInit => Inv
  BY HeadsInit DEF GatewayInit, CountedHeads
<1>2. GatewayTypeOK => counted \in [Requests -> Statuses \cup {None}]
  BY DEF GatewayTypeOK
<1>3. IInv /\ GatewayTypeOK /\ Inv /\ [GatewayNext]_gatewayVars => Inv'
  BY <1>2, CountedHeadsStep
<1>4. GatewayInit => LoggedIffSettled
  BY BillInit
<1>5. IInv /\ IInv' /\ LoggedIffSettled /\ [GatewayNext]_gatewayVars => LoggedIffSettled'
  <2>1. ASSUME IInv, IInv', LoggedIffSettled, NEW r \in Requests, HandlerStep(r)
        PROVE  LoggedIffSettled'
    BY <2>1, HandlerIsMoneyStep, BillStep
  <2>2. ASSUME LoggedIffSettled, UNCHANGED vars
        PROVE  LoggedIffSettled'
    BY <2>2 DEF LoggedIffSettled, vars
  <2>3. QED
    BY <2>1, <2>2, GatewaySteps DEF gatewayVars
<1>6. IInv /\ Inv /\ LoggedIffSettled => MetricsMatchBills
  BY HeadsMatchBills
<1>7. QED
  BY <1>1, <1>3, <1>4, <1>5, <1>6, GatewayRefinesChat, InductiveInvariant,
     GatewayTypeCorrect, PTL DEF GatewaySpec

-----------------------------------------------------------------------------
(* The whole of s_full keeps the handler's promises: its books balance,    *)
(* its quota is a ledger, and nobody gains (code.py mounts the middleware  *)
(* and starts the flush loop around routes/chat.py).                       *)
THEOREM GatewayKeepsQuota ==
    GatewaySpec => []BooksBalance /\ ImplementsLedger /\ []Holds!Covered /\ Holds!EndsOnce
  BY GatewayRefinesChat, BooksAlwaysBalance, ChatImplementsLedger, ChatNobodyGains, PTL
=============================================================================
