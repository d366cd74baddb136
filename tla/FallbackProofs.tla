--------------------------- MODULE FallbackProofs ----------------------------
(***************************************************************************)
(* Theorems about Fallback and Observed for any number of requests, users, *)
(* channels and counts.  The arithmetic of a handler's steps is settled    *)
(* once (NextIsStep): what is left of a step is one of the eight below,    *)
(* and each invariant is shown to survive those.                           *)
(***************************************************************************)
EXTENDS Observed, TotalsProofs, SequenceTheorems

Open == {"trying", "exhausted"}

(* What is known of a request at each point of the handler.                *)
OutcomeOK == \A r \in Requests :
    /\ pc[r] \in {"idle", "refused"} <=> snapshot[r] = {}
    /\ snapshot[r] # {} => user[r] \in Users
    /\ pc[r] = "settled" <=> charged[r] # None
    /\ pc[r] = "settled" => status[r] \in {200, 500}
    /\ status[r] = 200 => pc[r] = "settled"
    /\ pc[r] \in {"idle"} \cup Open <=> status[r] = None
    /\ pc[r] = "stranded" => status[r] = 500

(* A channel that a request's copy does not have is out of service, unless *)
(* it was registered after all that the copy has.                          *)
CopyIsComplete == \A r \in Requests : \A c \in snapshot[r] : \A d \in 1..c :
    healthy[d] => d \in snapshot[r]

IInv == TypeOK /\ OutcomeOK /\ CopyIsComplete /\ HealthIsWhatFailed /\ BackupsWait

-----------------------------------------------------------------------------
(***************************************************************************)
(* The first of some channels.                                             *)
(***************************************************************************)
LEMMA LeastExists ==
    ASSUME NEW S \in SUBSET Nat, S # {}
    PROVE  \E m \in S : \A k \in S : m <= k
<1> DEFINE R == OpToRel(<, Nat)
<1>1. PICK m \in S : \A k \in S : <<k, m>> \notin R
  <2>1. IsWellFoundedOn(R, Nat)
    BY NatLessThanWellFounded
  <2> HIDE DEF R
  <2>2. QED
    BY <2>1, WFMin
<1>2. ASSUME NEW k \in S, k < m PROVE FALSE
  <2>1. k \in Nat /\ m \in Nat /\ <<k, m>> \in R
    BY <1>2 DEF OpToRel
  <2> HIDE DEF R
  <2>2. QED
    BY <1>1, <2>1
<1>3. \A k \in S : m <= k
  BY <1>2
<1>4. QED
  BY <1>3

LEMMA FirstIsLeast ==
    ASSUME NEW S \in SUBSET Nat, S # {}
    PROVE  First(S) \in S /\ \A k \in S : First(S) <= k
  BY LeastExists DEF First

-----------------------------------------------------------------------------
(***************************************************************************)
(* What the arithmetic of s07 does to a balance.                           *)
(***************************************************************************)
LEMMA CoveredDeduct ==
    ASSUME NEW b \in Nat, NEW n \in Int, CanDeduct(b, n)
    PROVE  /\ n \in 0..b
           /\ Deducted(b, n) = b - n
           /\ Refunded(Deducted(b, n), n) = b
  BY DEF CanDeduct, Deducted, Refunded

LEMMA EstimateInt ==
    ASSUME NEW p \in PromptTokens, NEW m \in MaxTokens
    PROVE  Estimate(p, m) \in Int
<1>1. p \in Int /\ DefaultMaxTokens \in Int /\ (m \in Int \/ m = None)
  BY FallbackAssumption, DefaultMaxTokensAssumption
<1>2. QED
  BY <1>1 DEF Estimate, RATE_PER_TOKEN

(* A settlement takes the charge, or no more than the estimate when the    *)
(* balance cannot bear the rest.                                           *)
LEMMA SettledPrice ==
    ASSUME NEW b \in Nat, NEW n \in Nat, NEW actual \in Nat
    PROVE  \E price \in 0..(n + b) :
             /\ QuotaSettled(b, n, actual) = b + n - price
             /\ price = actual \/ (price = n /\ n < actual)
<1>1. CASE actual > n /\ b < actual - n
  <2>1. QuotaSettled(b, n, actual) = b + n - n
    BY <1>1 DEF QuotaSettled, Deducted, CanDeduct
  <2>2. n \in 0..(n + b)
    OBVIOUS
  <2>3. QED
    BY <1>1, <2>1, <2>2
<1>2. CASE ~(actual > n /\ b < actual - n)
  <2>1. QuotaSettled(b, n, actual) = b + n - actual
    BY <1>2 DEF QuotaSettled, Deducted, CanDeduct, Refunded
  <2>2. actual \in 0..(n + b)
    BY <1>2
  <2>3. QED
    BY <2>1, <2>2
<1>3. QED
  BY <1>1, <1>2

-----------------------------------------------------------------------------
(***************************************************************************)
(* The eight ways a step can go.                                           *)
(***************************************************************************)
RegisterStep ==
    /\ priority' \in Seq(Priorities)
    /\ Len(priority') = Len(priority) + 1
    /\ healthy' = Append(healthy, TRUE)
    /\ UNCHANGED <<balance, pc, locals, at, lastStatus, status>>

RefuseStep(r) ==
    /\ pc[r] = "idle"
    /\ pc' = [pc EXCEPT ![r] = "refused"]
    /\ \E code \in Statuses \ {200} : status' = [status EXCEPT ![r] = code]
    /\ UNCHANGED <<registry, balance, locals, at, lastStatus>>

TryStep(r, u, n) ==
    /\ pc[r] = "idle"
    /\ HealthyChannels # {}
    /\ n <= balance[u]
    /\ balance' = [balance EXCEPT ![u] = balance[u] - n]
    /\ pc' = [pc EXCEPT ![r] = "trying"]
    /\ user' = [user EXCEPT ![r] = u]
    /\ estimate' = [estimate EXCEPT ![r] = n]
    /\ \E p \in PromptTokens : prompt' = [prompt EXCEPT ![r] = p]
    /\ snapshot' = [snapshot EXCEPT ![r] = HealthyChannels]
    /\ at' = [at EXCEPT ![r] = First(HealthyChannels)]
    /\ UNCHANGED <<registry, lastStatus, status, charged>>

Marks(r) ==
    /\ pc[r] = "trying"
    /\ healthy' = [healthy EXCEPT ![at[r]] = FALSE]
    /\ \E last \in UpstreamErrors \cup {None} : lastStatus' = [lastStatus EXCEPT ![r] = last]
    /\ UNCHANGED <<priority, locals>>

MoveStep(r) ==
    /\ Marks(r)
    /\ Untried(r) # {}
    /\ at' = [at EXCEPT ![r] = First(Untried(r))]
    /\ UNCHANGED <<balance, pc, status>>

ExhaustStep(r) ==
    /\ Marks(r)
    /\ Untried(r) = {}
    /\ pc' = [pc EXCEPT ![r] = "exhausted"]
    /\ UNCHANGED <<balance, at, status>>

(* The handler ends and the user has paid price.                           *)
EndStep(r, how, code, price) ==
    /\ pc[r] \in Open
    /\ balance' = [balance EXCEPT ![user[r]] = balance[user[r]] + estimate[r] - price]
    /\ pc' = [pc EXCEPT ![r] = how]
    /\ status' = [status EXCEPT ![r] = code]
    /\ UNCHANGED at

GiveUpStep(r) ==
    /\ pc[r] = "exhausted"
    /\ \E code \in Statuses \ {200} : EndStep(r, "refunded", code, 0)
    /\ UNCHANGED <<registry, locals, lastStatus>>

StrandStep(r) ==
    /\ pc[r] = "trying"
    /\ EndStep(r, "stranded", 500, estimate[r])
    /\ UNCHANGED <<registry, locals, lastStatus>>

SettleStep(r, actual, price) ==
    /\ pc[r] = "trying"
    /\ price <= estimate[r] + balance[user[r]]
    /\ price = actual \/ (price = estimate[r] /\ estimate[r] < actual)
    /\ \E code \in {200, 500} : EndStep(r, "settled", code, price)
    /\ charged' = [charged EXCEPT ![r] = actual]
    /\ UNCHANGED <<registry, user, estimate, prompt, snapshot, lastStatus>>

Step ==
    \/ RegisterStep
    \/ \E r \in Requests :
         \/ RefuseStep(r)
         \/ \E u \in Users : \E n \in Nat : TryStep(r, u, n)
         \/ MoveStep(r)
         \/ ExhaustStep(r)
         \/ GiveUpStep(r)
         \/ StrandStep(r)
         \/ \E actual, price \in Nat : SettleStep(r, actual, price)

-----------------------------------------------------------------------------
(***************************************************************************)
(* Every step of the specification is one of those.                        *)
(***************************************************************************)
LEMMA StatusesAreInt == Statuses \subseteq Int /\ None \notin Statuses
<1>1. Statuses \subseteq Int
  BY FallbackAssumption DEF Statuses
<1>2. QED
  BY <1>1, NoneAssumption

LEMMA NoCandidateIsRefuse ==
    ASSUME TypeOK, NEW r \in Requests, pc[r] = "idle",
           NEW u \in Users, NEW n \in Int, NoCandidate(r, u, n)
    PROVE  RefuseStep(r)
<1>1. balance[u] \in Nat /\ CanDeduct(balance[u], n)
  BY DEF TypeOK, NoCandidate
<1>2. Refunded(Deducted(balance[u], n), n) = balance[u]
  BY <1>1, CoveredDeduct
<1>3. balance' = [balance EXCEPT ![u] = balance[u]]
  BY <1>2 DEF NoCandidate
<1>4. balance' = balance
  BY <1>3 DEF TypeOK
<1>5. \E code \in Statuses \ {200} : End(r, "refused", code)
  BY DEF NoCandidate, Statuses
<1>6. UNCHANGED <<priority, healthy, user, estimate, prompt, snapshot, charged, at, lastStatus>>
  BY DEF NoCandidate, registry, locals
<1>7. QED
  BY <1>4, <1>5, <1>6 DEF End, RefuseStep, registry, locals

LEMMA ArriveIsStep ==
    ASSUME TypeOK, NEW r \in Requests, Arrive(r)
    PROVE  RefuseStep(r) \/ \E u \in Users : \E n \in Nat : TryStep(r, u, n)
<1>0. pc[r] = "idle"
  BY DEF Arrive
<1>1. CASE Turned(r)
  <2>1. \E code \in Statuses \ {200} : End(r, "refused", code)
    BY <1>1 DEF Turned, Statuses
  <2>2. UNCHANGED <<registry, balance, locals, at, lastStatus>>
    BY <1>1 DEF Turned
  <2>3. RefuseStep(r)
    BY <1>0, <2>1, <2>2 DEF End, RefuseStep
  <2>4. QED
    BY <2>3
<1>2. ASSUME NEW u \in Users, NEW p \in PromptTokens, NEW n \in Int,
             NotDeducted(r, u, n) \/ NoCandidate(r, u, n) \/ Try(r, u, p, n)
      PROVE  RefuseStep(r) \/ \E k \in Nat : TryStep(r, u, k)
  <2>1. CASE NotDeducted(r, u, n)
    <3>1. \E code \in Statuses \ {200} : End(r, "refused", code)
      BY <2>1 DEF NotDeducted, Statuses
    <3>2. RefuseStep(r)
      BY <1>0, <2>1, <3>1 DEF NotDeducted, End, RefuseStep, registry, locals
    <3>3. QED
      BY <3>2
  <2>2. CASE NoCandidate(r, u, n)
    BY <1>0, <2>2, NoCandidateIsRefuse
  <2>3. CASE Try(r, u, p, n)
    <3>1. balance[u] \in Nat /\ CanDeduct(balance[u], n)
      BY <2>3 DEF TypeOK, Try
    <3>2. n \in Nat /\ n <= balance[u] /\ Deducted(balance[u], n) = balance[u] - n
      BY <3>1, CoveredDeduct
    <3>3. balance' = [balance EXCEPT ![u] = balance[u] - n]
      BY <2>3, <3>2 DEF Try
    <3>4. TryStep(r, u, n)
      BY <1>0, <2>3, <3>2, <3>3 DEF Try, TryStep, registry, locals
    <3>5. QED
      BY <3>2, <3>4
  <2>4. QED
    BY <1>2, <2>1, <2>2, <2>3
<1>3. QED
  BY <1>1, <1>2, EstimateInt DEF Arrive

LEMMA OpenFacts ==
    ASSUME TypeOK, OutcomeOK, NEW r \in Requests, pc[r] \in Open
    PROVE  /\ snapshot[r] # {}
           /\ user[r] \in Users /\ balance[user[r]] \in Nat
           /\ estimate[r] \in Nat /\ prompt[r] \in Nat
<1>1. snapshot[r] # {} /\ user[r] \in Users
  BY DEF OutcomeOK, Open
<1>2. balance \in [Users -> Nat] /\ estimate \in [Requests -> Nat] /\ prompt \in [Requests -> Nat]
  BY DEF TypeOK
<1>3. QED
  BY <1>1, <1>2

LEMMA EscalateIsStep ==
    ASSUME NEW r \in Requests, NEW last \in UpstreamErrors \cup {None}, Escalate(r, last)
    PROVE  MoveStep(r) \/ ExhaustStep(r)
<1>1. Marks(r)
  BY DEF Escalate, Marks, MarkedUnhealthy
<1>2. CASE HasNext(r)
  <2>1. MoveOn(r) /\ Untried(r) # {}
    BY <1>2 DEF Escalate, HasNext
  <2>2. QED
    BY <1>1, <2>1 DEF MoveOn, MoveStep
<1>3. CASE ~HasNext(r)
  <2>1. Exhaust(r) /\ Untried(r) = {}
    BY <1>3 DEF Escalate, HasNext
  <2>2. QED
    BY <1>1, <2>1 DEF Exhaust, ExhaustStep
<1>4. QED
  BY <1>2, <1>3

LEMMA GiveUpIsStep ==
    ASSUME TypeOK, OutcomeOK, NEW r \in Requests, GiveUp(r)
    PROVE  GiveUpStep(r)
<1>1. pc[r] = "exhausted" /\ pc[r] \in Open
  BY DEF GiveUp, Open
<1>2. PICK code \in Statuses \ {200} : End(r, "refunded", code)
  <2>1. lastStatus[r] \in UpstreamErrors \cup {None}
    BY DEF TypeOK
  <2>2. (IF lastStatus[r] = None THEN 502 ELSE lastStatus[r]) \in Statuses \ {200}
    BY <2>1, FallbackAssumption DEF Statuses
  <2>3. QED
    BY <2>2 DEF GiveUp
<1>3. user[r] \in Users /\ balance[user[r]] \in Nat /\ estimate[r] \in Nat
  BY <1>1, OpenFacts
<1>4. Refunded(balance[user[r]], estimate[r]) = balance[user[r]] + estimate[r] - 0
  BY <1>3 DEF Refunded
<1>5. balance' = [balance EXCEPT ![user[r]] = balance[user[r]] + estimate[r] - 0]
  BY <1>4 DEF GiveUp
<1>6. EndStep(r, "refunded", code, 0)
  BY <1>1, <1>2, <1>5 DEF GiveUp, End, EndStep
<1>7. QED
  BY <1>1, <1>6 DEF GiveUp, GiveUpStep

LEMMA UnexpectedBodyIsStep ==
    ASSUME TypeOK, OutcomeOK, NEW r \in Requests, UnexpectedBody(r)
    PROVE  StrandStep(r)
<1>1. user[r] \in Users /\ balance[user[r]] \in Nat /\ estimate[r] \in Nat
  BY OpenFacts DEF UnexpectedBody, Open
<1>2. balance[user[r]] + estimate[r] - estimate[r] = balance[user[r]]
  BY <1>1
<1>3. balance' = [balance EXCEPT ![user[r]] = balance[user[r]]]
  BY DEF UnexpectedBody, TypeOK
<1>4. balance' = [balance EXCEPT ![user[r]] = balance[user[r]] + estimate[r] - estimate[r]]
  BY <1>2, <1>3
<1>5. EndStep(r, "stranded", 500, estimate[r])
  BY <1>4 DEF UnexpectedBody, End, EndStep, Open
<1>6. QED
  BY <1>5 DEF UnexpectedBody, StrandStep

LEMMA CompletedIsStep ==
    ASSUME TypeOK, OutcomeOK, NEW r \in Requests, Completed(r)
    PROVE  \E actual, price \in Nat : SettleStep(r, actual, price)
<1>1. PICK reported \in UsageTokens, completion \in (UsageTokens \ {None}) \cup ContentTokens :
        Succeed(r, reported, completion)
  BY DEF Completed
<1> DEFINE actual == (ActualPrompt(r, reported) + completion) * RATE_PER_TOKEN
<1>2. user[r] \in Users /\ balance[user[r]] \in Nat /\ estimate[r] \in Nat /\ prompt[r] \in Nat
  BY <1>1, OpenFacts DEF Succeed, Open
<1>3. completion \in Nat /\ (reported = None \/ reported \in Nat)
  BY FallbackAssumption
<1>4. actual \in Nat
  BY <1>2, <1>3 DEF ActualPrompt, RATE_PER_TOKEN
<1>5. /\ pc[r] = "trying"
      /\ balance' = [balance EXCEPT ![user[r]] = QuotaSettled(balance[user[r]], estimate[r], actual)]
      /\ charged' = [charged EXCEPT ![r] = actual]
      /\ \E code \in {200, 500} : End(r, "settled", code)
      /\ UNCHANGED <<registry, user, estimate, prompt, snapshot, at, lastStatus>>
  BY <1>1 DEF Succeed
<1> HIDE DEF actual
<1>6. PICK price \in 0..(estimate[r] + balance[user[r]]) :
        /\ QuotaSettled(balance[user[r]], estimate[r], actual)
             = balance[user[r]] + estimate[r] - price
        /\ price = actual \/ (price = estimate[r] /\ estimate[r] < actual)
  <2>1. \A b, n, a \in Nat : \E price \in 0..(n + b) :
          /\ QuotaSettled(b, n, a) = b + n - price
          /\ price = a \/ (price = n /\ n < a)
    BY SettledPrice
  <2>2. QED
    BY <1>2, <1>4, <2>1
<1>7. price \in Nat /\ price <= estimate[r] + balance[user[r]]
  BY <1>2
<1>8. \E code \in {200, 500} : EndStep(r, "settled", code, price)
  BY <1>5, <1>6 DEF End, EndStep, Open
<1>9. SettleStep(r, actual, price)
  BY <1>5, <1>6, <1>7, <1>8 DEF SettleStep
<1>10. QED
  BY <1>4, <1>7, <1>9

LEMMA NextIsStep ==
    ASSUME TypeOK, OutcomeOK, Next
    PROVE  Step
<1>1. ASSUME NEW p \in Priorities, CreateChannel(p)
      PROVE  RegisterStep
  <2>1. /\ priority' = Append(priority, p)
        /\ healthy' = Append(healthy, TRUE)
        /\ UNCHANGED <<balance, pc, locals, at, lastStatus, status>>
    BY <1>1 DEF CreateChannel
  <2>2. priority' \in Seq(Priorities) /\ Len(priority') = Len(priority) + 1
    BY <2>1 DEF TypeOK
  <2>3. QED
    BY <2>1, <2>2 DEF RegisterStep
<1>2. ASSUME NEW r \in Requests, Arrive(r)
      PROVE  Step
  BY <1>2, ArriveIsStep DEF Step
<1>3. ASSUME NEW r \in Requests, TransportError(r) \/ UpstreamStatus(r)
      PROVE  Step
  <2>1. \E last \in UpstreamErrors \cup {None} : Escalate(r, last)
    BY <1>3 DEF TransportError, UpstreamStatus, TypeOK
  <2>2. MoveStep(r) \/ ExhaustStep(r)
    BY <2>1, EscalateIsStep
  <2>3. QED
    BY <2>2 DEF Step
<1>4. ASSUME NEW r \in Requests, UnexpectedBody(r)
      PROVE  Step
  BY <1>4, UnexpectedBodyIsStep DEF Step
<1>5. ASSUME NEW r \in Requests, Completed(r)
      PROVE  Step
  BY <1>5, CompletedIsStep DEF Step
<1>6. ASSUME NEW r \in Requests, GiveUp(r)
      PROVE  Step
  BY <1>6, GiveUpIsStep DEF Step
<1>7. QED
  BY <1>1, <1>2, <1>3, <1>4, <1>5, <1>6 DEF Next, Step

-----------------------------------------------------------------------------
(***************************************************************************)
(* The registry grows, and a mark touches one channel.                     *)
(***************************************************************************)
LEMMA Registered ==
    ASSUME TypeOK, RegisterStep
    PROVE  /\ healthy' \in Seq(BOOLEAN)
           /\ Channels' = Channels \cup {Len(healthy) + 1}
           /\ Len(healthy) + 1 \notin Channels
           /\ healthy'[Len(healthy) + 1] = TRUE
           /\ \A c \in Channels : healthy'[c] = healthy[c]
           /\ Len(priority') = Len(healthy')
<1>1. healthy \in Seq(BOOLEAN) /\ Len(healthy) \in Nat
  BY DEF TypeOK
<1>2. /\ healthy' \in Seq(BOOLEAN)
      /\ Len(healthy') = Len(healthy) + 1
      /\ healthy'[Len(healthy) + 1] = TRUE
      /\ \A c \in 1..Len(healthy) : healthy'[c] = healthy[c]
  BY <1>1, AppendProperties DEF RegisterStep
<1>3. Len(priority') = Len(healthy')
  BY <1>2 DEF RegisterStep, TypeOK
<1>4. QED
  BY <1>1, <1>2, <1>3 DEF Channels

LEMMA Marked ==
    ASSUME TypeOK, OutcomeOK, NEW r \in Requests, Marks(r)
    PROVE  /\ at[r] \in snapshot[r] /\ snapshot[r] \subseteq Channels
           /\ healthy' \in Seq(BOOLEAN)
           /\ Len(healthy') = Len(healthy)
           /\ Channels' = Channels
           /\ healthy'[at[r]] = FALSE
           /\ \A c \in Channels : c # at[r] => healthy'[c] = healthy[c]
<1>1. at[r] \in snapshot[r] /\ snapshot[r] \subseteq Channels
  BY OpenFacts DEF TypeOK, Marks, Open
<1>2. healthy \in Seq(BOOLEAN) /\ at[r] \in 1..Len(healthy)
  BY <1>1 DEF TypeOK, Channels
<1>3. healthy' = [healthy EXCEPT ![at[r]] = FALSE]
  BY DEF Marks
<1>4. healthy' \in Seq(BOOLEAN) /\ Len(healthy') = Len(healthy)
  BY <1>2, <1>3, ExceptSeq
<1>5. healthy'[at[r]] = FALSE /\ \A c \in 1..Len(healthy) : c # at[r] => healthy'[c] = healthy[c]
  BY <1>2, <1>3
<1>6. QED
  BY <1>1, <1>4, <1>5 DEF Channels

LEMMA FirstHealthy ==
    ASSUME HealthyChannels # {}
    PROVE  /\ First(HealthyChannels) \in HealthyChannels
           /\ HealthyChannels \subseteq Channels
           /\ \A c \in HealthyChannels : First(HealthyChannels) <= c
<1>1. HealthyChannels \subseteq Channels /\ Channels \subseteq Nat
  BY DEF HealthyChannels, Channels
<1>2. QED
  BY <1>1, FirstIsLeast

LEMMA FirstUntried ==
    ASSUME TypeOK, NEW r \in Requests, Untried(r) # {}
    PROVE  /\ First(Untried(r)) \in snapshot[r]
           /\ First(Untried(r)) > at[r]
           /\ \A c \in snapshot[r] : c > at[r] => First(Untried(r)) <= c
<1>1. Untried(r) \subseteq snapshot[r] /\ snapshot[r] \subseteq Channels /\ Channels \subseteq Nat
  BY DEF Untried, TypeOK, Channels
<1>2. Untried(r) \in SUBSET Nat
  BY <1>1
<1>3. First(Untried(r)) \in Untried(r) /\ \A k \in Untried(r) : First(Untried(r)) <= k
  BY <1>2, FirstIsLeast
<1>4. QED
  BY <1>1, <1>3 DEF Untried

-----------------------------------------------------------------------------
(***************************************************************************)
(* Types and outcomes survive each of the steps.                           *)
(***************************************************************************)
LEMMA InitIInv == Init => IInv
<1> SUFFICES ASSUME Init
             PROVE  IInv
  OBVIOUS
<1>0. Channels = {}
  BY DEF Init, Channels
<1>1. TypeOK
  BY <1>0, FallbackAssumption DEF Init, TypeOK
<1>2. OutcomeOK
  BY NoneAssumption DEF Init, OutcomeOK
<1>3. CopyIsComplete /\ HealthIsWhatFailed /\ BackupsWait
  BY <1>0 DEF Init, CopyIsComplete, HealthIsWhatFailed, BackupsWait
<1>4. QED
  BY <1>1, <1>2, <1>3 DEF IInv

LEMMA EndTypes ==
    ASSUME TypeOK, OutcomeOK, NEW r \in Requests, NEW how \in Ended,
           NEW code \in Statuses, NEW price \in Nat,
           EndStep(r, how, code, price), price <= estimate[r] + balance[user[r]]
    PROVE  /\ balance' \in [Users -> Nat]
           /\ pc' \in [Requests -> {"idle", "trying", "exhausted"} \cup Ended]
           /\ status' \in [Requests -> Statuses \cup {None}]
<1>1. user[r] \in Users /\ balance[user[r]] \in Nat /\ estimate[r] \in Nat
  BY OpenFacts DEF EndStep
<1>2. balance[user[r]] + estimate[r] - price \in Nat
  BY <1>1
<1>3. /\ balance \in [Users -> Nat]
      /\ pc \in [Requests -> {"idle", "trying", "exhausted"} \cup Ended]
      /\ status \in [Requests -> Statuses \cup {None}]
  BY DEF TypeOK
<1>4. QED
  BY <1>1, <1>2, <1>3 DEF EndStep

LEMMA MarkTypes ==
    ASSUME TypeOK, OutcomeOK, NEW r \in Requests, Marks(r)
    PROVE  /\ priority' \in Seq(Priorities)
           /\ healthy' \in Seq(BOOLEAN)
           /\ Len(priority') = Len(healthy')
           /\ user' \in [Requests -> Users \cup {None}]
           /\ estimate' \in [Requests -> Nat]
           /\ prompt' \in [Requests -> Nat]
           /\ snapshot' \in [Requests -> SUBSET Channels']
           /\ lastStatus' \in [Requests -> UpstreamErrors \cup {None}]
           /\ charged' \in [Requests -> Nat \cup {None}]
  BY Marked DEF Marks, TypeOK, locals

LEMMA StepTypeOK ==
    ASSUME TypeOK, OutcomeOK, Step
    PROVE  TypeOK'
<1>1. CASE RegisterStep
  BY <1>1, Registered DEF RegisterStep, TypeOK, locals
<1>2. ASSUME NEW r \in Requests, RefuseStep(r)
      PROVE  TypeOK'
  BY <1>2 DEF RefuseStep, TypeOK, registry, locals, Channels, Ended
<1>3. ASSUME NEW r \in Requests, NEW u \in Users, NEW n \in Nat, TryStep(r, u, n)
      PROVE  TypeOK'
  <2>1. Channels' = Channels
    BY <1>3 DEF TryStep, registry, Channels
  <2>2. First(HealthyChannels) \in HealthyChannels /\ HealthyChannels \subseteq Channels
    BY <1>3, FirstHealthy DEF TryStep
  <2>3. /\ snapshot' \in [Requests -> SUBSET Channels]
        /\ at' \in [Requests -> Channels \cup {0}]
        /\ \A q \in Requests : snapshot'[q] # {} => at'[q] \in snapshot'[q]
    BY <1>3, <2>2 DEF TryStep, TypeOK
  <2>4. balance[u] \in Nat /\ n <= balance[u] /\ balance[u] - n \in Nat
    BY <1>3 DEF TryStep, TypeOK
  <2>5. balance' \in [Users -> Nat] /\ estimate' \in [Requests -> Nat]
    BY <1>3, <2>4 DEF TryStep, TypeOK
  <2>6. prompt' \in [Requests -> Nat]
    BY <1>3, FallbackAssumption DEF TryStep, TypeOK
  <2>7. /\ pc' \in [Requests -> {"idle", "trying", "exhausted"} \cup Ended]
        /\ user' \in [Requests -> Users \cup {None}]
    BY <1>3 DEF TryStep, TypeOK
  <2>8. UNCHANGED <<priority, healthy, lastStatus, status, charged>>
    BY <1>3 DEF TryStep, registry
  <2>9. QED
    BY <2>1, <2>3, <2>5, <2>6, <2>7, <2>8 DEF TypeOK
<1>4. ASSUME NEW r \in Requests, MoveStep(r)
      PROVE  TypeOK'
  <2>1. Marks(r) /\ First(Untried(r)) \in snapshot[r] /\ snapshot' = snapshot
    BY <1>4, FirstUntried DEF MoveStep, Marks, locals
  <2>2. Channels' = Channels /\ snapshot[r] \subseteq Channels
    BY <2>1, Marked
  <2>3. /\ at' \in [Requests -> Channels \cup {0}]
        /\ \A q \in Requests : snapshot[q] # {} => at'[q] \in snapshot[q]
    BY <1>4, <2>1, <2>2 DEF MoveStep, TypeOK
  <2>4. QED
    BY <1>4, <2>1, <2>2, <2>3, MarkTypes DEF MoveStep, TypeOK
<1>5. ASSUME NEW r \in Requests, GiveUpStep(r)
      PROVE  TypeOK'
  <2>1. PICK code \in Statuses \ {200} : EndStep(r, "refunded", code, 0)
    BY <1>5 DEF GiveUpStep
  <2>2. UNCHANGED <<priority, healthy, locals, at, lastStatus>>
    BY <1>5, <2>1 DEF GiveUpStep, EndStep, registry
  <2>3. 0 <= estimate[r] + balance[user[r]]
    BY <2>1, OpenFacts DEF EndStep
  <2>4. /\ balance' \in [Users -> Nat]
        /\ pc' \in [Requests -> {"idle", "trying", "exhausted"} \cup Ended]
        /\ status' \in [Requests -> Statuses \cup {None}]
    BY <2>1, <2>3, EndTypes DEF Ended
  <2>5. QED
    BY <2>2, <2>4 DEF TypeOK, locals, Channels
<1>6. ASSUME NEW r \in Requests, StrandStep(r)
      PROVE  TypeOK'
  <2>1. EndStep(r, "stranded", 500, estimate[r])
    BY <1>6 DEF StrandStep
  <2>2. estimate[r] \in Nat /\ estimate[r] <= estimate[r] + balance[user[r]]
    BY <2>1, OpenFacts DEF EndStep
  <2>3. /\ balance' \in [Users -> Nat]
        /\ pc' \in [Requests -> {"idle", "trying", "exhausted"} \cup Ended]
        /\ status' \in [Requests -> Statuses \cup {None}]
    BY <2>1, <2>2, EndTypes DEF Ended, Statuses
  <2>4. UNCHANGED <<priority, healthy, locals, at, lastStatus>>
    BY <1>6, <2>1 DEF StrandStep, EndStep, registry
  <2>5. QED
    BY <2>3, <2>4 DEF TypeOK, locals, Channels
<1>7. ASSUME NEW r \in Requests, NEW actual \in Nat, NEW price \in Nat,
             SettleStep(r, actual, price)
      PROVE  TypeOK'
  <2>1. PICK code \in {200, 500} :
           EndStep(r, "settled", code, price) /\ price <= estimate[r] + balance[user[r]]
    BY <1>7 DEF SettleStep
  <2>2. /\ balance' \in [Users -> Nat]
        /\ pc' \in [Requests -> {"idle", "trying", "exhausted"} \cup Ended]
        /\ status' \in [Requests -> Statuses \cup {None}]
    BY <2>1, EndTypes DEF Ended, Statuses
  <2>3. /\ UNCHANGED <<priority, healthy, user, estimate, prompt, snapshot, at, lastStatus>>
        /\ charged' = [charged EXCEPT ![r] = actual]
    BY <1>7, <2>1 DEF SettleStep, EndStep, registry
  <2>4. charged' \in [Requests -> Nat \cup {None}]
    BY <2>3 DEF TypeOK
  <2>5. QED
    BY <2>2, <2>3, <2>4 DEF TypeOK, Channels
<1>8. ASSUME NEW r \in Requests, ExhaustStep(r)
      PROVE  TypeOK'
  <2>1. Marks(r) /\ Channels' = Channels /\ UNCHANGED <<at, snapshot, balance, status>>
    BY <1>8, Marked DEF ExhaustStep, Marks, locals
  <2>2. pc' \in [Requests -> {"idle", "trying", "exhausted"} \cup Ended]
    BY <1>8 DEF ExhaustStep, TypeOK
  <2>3. QED
    BY <2>1, <2>2, MarkTypes DEF TypeOK
<1>9. QED
  BY <1>1, <1>2, <1>3, <1>4, <1>5, <1>6, <1>7, <1>8 DEF Step

LEMMA StepOutcomeOK ==
    ASSUME TypeOK, OutcomeOK, Step
    PROVE  OutcomeOK'
<1>0. /\ pc \in [Requests -> {"idle", "trying", "exhausted"} \cup Ended]
      /\ user \in [Requests -> Users \cup {None}]
      /\ snapshot \in [Requests -> SUBSET Channels]
      /\ status \in [Requests -> Statuses \cup {None}]
      /\ charged \in [Requests -> Nat \cup {None}]
  BY DEF TypeOK
<1>1. CASE RegisterStep
  BY <1>1 DEF RegisterStep, locals, OutcomeOK
<1>2. ASSUME NEW r \in Requests, RefuseStep(r)
      PROVE  OutcomeOK'
  BY <1>0, <1>2, StatusesAreInt DEF RefuseStep, locals, OutcomeOK, Open
<1>3. ASSUME NEW r \in Requests, NEW u \in Users, NEW n \in Nat, TryStep(r, u, n)
      PROVE  OutcomeOK'
  BY <1>0, <1>3 DEF TryStep, OutcomeOK, Open
<1>4. ASSUME NEW r \in Requests, MoveStep(r)
      PROVE  OutcomeOK'
  BY <1>4 DEF MoveStep, Marks, locals, OutcomeOK
<1>5. ASSUME NEW r \in Requests, GiveUpStep(r)
      PROVE  OutcomeOK'
  BY <1>0, <1>5, StatusesAreInt DEF GiveUpStep, EndStep, locals, OutcomeOK, Open
<1>6. ASSUME NEW r \in Requests, StrandStep(r)
      PROVE  OutcomeOK'
  BY <1>0, <1>6, NoneAssumption DEF StrandStep, EndStep, locals, OutcomeOK, Open
<1>7. ASSUME NEW r \in Requests, NEW actual \in Nat, NEW price \in Nat,
             SettleStep(r, actual, price)
      PROVE  OutcomeOK'
  BY <1>0, <1>7, NoneAssumption DEF SettleStep, EndStep, OutcomeOK, Open
<1>8. ASSUME NEW r \in Requests, ExhaustStep(r)
      PROVE  OutcomeOK'
  BY <1>0, <1>8 DEF ExhaustStep, Marks, locals, OutcomeOK, Open
<1>9. QED
  BY <1>1, <1>2, <1>3, <1>4, <1>5, <1>6, <1>7, <1>8 DEF Step

-----------------------------------------------------------------------------
(***************************************************************************)
(* Health, copies and the order of channels.  Steps that mark nothing are  *)
(* told apart by what they do to copies and positions.                     *)
(***************************************************************************)
LEMMA StepCopyIsComplete ==
    ASSUME TypeOK, OutcomeOK, CopyIsComplete, Step
    PROVE  CopyIsComplete'
<1>0. snapshot \in [Requests -> SUBSET Channels] /\ Channels \subseteq Nat
  BY DEF TypeOK, Channels
<1>1. CASE RegisterStep
  <2>1. snapshot' = snapshot /\ \A c \in Channels : healthy'[c] = healthy[c]
    BY <1>1, Registered DEF RegisterStep, locals
  <2>2. \A r \in Requests : \A c \in snapshot[r] : \A d \in 1..c : d \in Channels
    BY <1>0 DEF Channels
  <2>3. QED
    BY <2>1, <2>2 DEF CopyIsComplete
<1>2. ASSUME NEW r \in Requests, Marks(r)
      PROVE  CopyIsComplete'
  <2>1. snapshot' = snapshot /\ \A c \in Channels : healthy'[c] => healthy[c]
    BY <1>2, Marked DEF Marks, locals
  <2>2. \A q \in Requests : \A c \in snapshot[q] : \A d \in 1..c : d \in Channels
    BY <1>0 DEF Channels
  <2>3. QED
    BY <2>1, <2>2 DEF CopyIsComplete
<1>3. CASE UNCHANGED <<healthy, snapshot>>
  BY <1>3 DEF CopyIsComplete
<1>4. ASSUME NEW r \in Requests, NEW u \in Users, NEW n \in Nat, TryStep(r, u, n)
      PROVE  CopyIsComplete'
  <2>1. healthy' = healthy /\ snapshot' = [snapshot EXCEPT ![r] = HealthyChannels]
    BY <1>4 DEF TryStep, registry
  <2>2. \A c \in HealthyChannels : \A d \in 1..c : healthy[d] => d \in HealthyChannels
    <3>1. \A c \in Channels : \A d \in 1..c : d \in Channels
      BY <1>0 DEF Channels, TypeOK
    <3>2. QED
      BY <3>1 DEF HealthyChannels
  <2>3. QED
    BY <1>0, <2>1, <2>2 DEF CopyIsComplete
<1>5. QED
  BY <1>1, <1>2, <1>3, <1>4 DEF Step, RefuseStep, MoveStep, ExhaustStep, GiveUpStep, StrandStep,
                                SettleStep, registry, locals

LEMMA StepBackupsWait ==
    ASSUME TypeOK, OutcomeOK, CopyIsComplete, BackupsWait, Step
    PROVE  BackupsWait'
<1>0. /\ snapshot \in [Requests -> SUBSET Channels] /\ Channels \subseteq Nat
      /\ at \in [Requests -> Channels \cup {0}]
      /\ \A q \in Requests : snapshot[q] # {} => at[q] \in snapshot[q]
  BY DEF TypeOK, Channels
<1>1. \A q \in Requests : snapshot[q] # {} => \A c \in 1..(at[q] - 1) : c \in Channels
  BY <1>0 DEF Channels
<1>2. CASE RegisterStep
  BY <1>1, <1>2, Registered DEF RegisterStep, locals, BackupsWait
<1>3. CASE UNCHANGED <<healthy, snapshot, at>>
  BY <1>3 DEF BackupsWait
<1>4. ASSUME NEW r \in Requests, NEW u \in Users, NEW n \in Nat, TryStep(r, u, n)
      PROVE  BackupsWait'
  <2>1. /\ healthy' = healthy
        /\ snapshot' = [snapshot EXCEPT ![r] = HealthyChannels]
        /\ at' = [at EXCEPT ![r] = First(HealthyChannels)]
    BY <1>4 DEF TryStep, registry
  <2>2. \A c \in 1..(First(HealthyChannels) - 1) : ~healthy[c]
    <3>1. /\ First(HealthyChannels) \in Channels
          /\ \A c \in HealthyChannels : First(HealthyChannels) <= c
      BY <1>4, FirstHealthy DEF TryStep
    <3>2. \A c \in 1..(First(HealthyChannels) - 1) : c \in Channels /\ ~(First(HealthyChannels) <= c)
      BY <3>1 DEF Channels
    <3>3. QED
      BY <3>1, <3>2 DEF HealthyChannels
  <2>3. QED
    BY <1>0, <2>1, <2>2 DEF BackupsWait
<1>5. ASSUME NEW r \in Requests, Marks(r), at' = at
      PROVE  BackupsWait'
  <2>1. snapshot' = snapshot /\ \A c \in Channels : healthy'[c] => healthy[c]
    BY <1>5, Marked DEF Marks, locals
  <2>2. QED
    BY <1>1, <1>5, <2>1 DEF BackupsWait
<1>6. ASSUME NEW r \in Requests, MoveStep(r)
      PROVE  BackupsWait'
  <2>1. /\ snapshot' = snapshot
        /\ at' = [at EXCEPT ![r] = First(Untried(r))]
        /\ healthy'[at[r]] = FALSE
        /\ \A c \in Channels : healthy'[c] => healthy[c]
    BY <1>6, Marked DEF MoveStep, Marks, locals
  <2>2. snapshot[r] # {} /\ \A c \in 1..(at[r] - 1) : ~healthy[c]
    BY <1>6, OpenFacts DEF MoveStep, Marks, BackupsWait, Open
  <2>3. /\ First(Untried(r)) \in snapshot[r]
        /\ \A c \in snapshot[r] : c > at[r] => First(Untried(r)) <= c
    BY <1>6, FirstUntried DEF MoveStep
  <2>4. ASSUME NEW c \in 1..(First(Untried(r)) - 1) PROVE ~healthy'[c]
    <3>1. First(Untried(r)) \in Channels /\ at[r] \in Nat
      BY <1>0, <2>3
    <3>2. c \in Channels /\ c \in 1..First(Untried(r)) /\ ~(First(Untried(r)) <= c)
      BY <3>1 DEF Channels
    <3>3. CASE c > at[r]
      <4>1. c \notin snapshot[r]
        BY <2>3, <3>2, <3>3
      <4>2. ~healthy[c]
        BY <2>3, <3>2, <4>1 DEF CopyIsComplete
      <4>3. QED
        BY <2>1, <3>2, <4>2
    <3>4. CASE c = at[r]
      BY <2>1, <3>4
    <3>5. CASE c < at[r]
      <4>1. c \in 1..(at[r] - 1)
        BY <3>1, <3>5
      <4>2. QED
        BY <2>1, <2>2, <3>2, <4>1
    <3>6. QED
      BY <3>1, <3>3, <3>4, <3>5
  <2>5. \A q \in Requests : q # r /\ snapshot[q] # {} => \A c \in 1..(at[q] - 1) : ~healthy'[c]
    BY <1>1, <2>1 DEF BackupsWait
  <2>6. QED
    BY <1>0, <2>1, <2>4, <2>5 DEF BackupsWait
<1>7. QED
  BY <1>2, <1>3, <1>4, <1>5, <1>6 DEF Step, RefuseStep, ExhaustStep, GiveUpStep, EndStep,
                                      StrandStep, SettleStep, registry, locals

LEMMA StepHealthIsWhatFailed ==
    ASSUME TypeOK, OutcomeOK, HealthIsWhatFailed, Step
    PROVE  HealthIsWhatFailed'
<1>0. /\ snapshot \in [Requests -> SUBSET Channels] /\ Channels \subseteq Nat
      /\ at \in [Requests -> Channels \cup {0}]
      /\ pc \in [Requests -> {"idle", "trying", "exhausted"} \cup Ended]
  BY DEF TypeOK, Channels
<1>1. CASE RegisterStep
  <2>1. \A r \in Requests : GivenUp(r)' = GivenUp(r) /\ GivenUp(r) \subseteq Channels
    BY <1>0, <1>1 DEF RegisterStep, locals, GivenUp
  <2>2. QED
    BY <1>1, <2>1, Registered DEF HealthIsWhatFailed
<1>2. ASSUME UNCHANGED healthy, \A r \in Requests : GivenUp(r)' = GivenUp(r)
      PROVE  HealthIsWhatFailed'
  BY <1>2 DEF HealthIsWhatFailed, Channels
<1>3. ASSUME NEW r \in Requests, RefuseStep(r)
      PROVE  \A q \in Requests : GivenUp(q)' = GivenUp(q)
  BY <1>0, <1>3 DEF RefuseStep, locals, GivenUp
<1>4. ASSUME NEW r \in Requests, NEW u \in Users, NEW n \in Nat, TryStep(r, u, n)
      PROVE  \A q \in Requests : GivenUp(q)' = GivenUp(q)
  <2>1. snapshot[r] = {} /\ GivenUp(r) = {}
    BY <1>4 DEF TryStep, OutcomeOK, GivenUp
  <2>2. \A c \in HealthyChannels : ~(c < First(HealthyChannels))
    <3>1. /\ First(HealthyChannels) \in HealthyChannels /\ HealthyChannels \subseteq Channels
          /\ \A c \in HealthyChannels : First(HealthyChannels) <= c
      BY <1>4, FirstHealthy DEF TryStep
    <3>2. SUFFICES ASSUME NEW c \in HealthyChannels PROVE ~(c < First(HealthyChannels))
      OBVIOUS
    <3>3. c \in Nat /\ First(HealthyChannels) \in Nat /\ First(HealthyChannels) <= c
      BY <1>0, <3>1
    <3>4. QED
      BY <3>3
  <2>3. GivenUp(r)' = {}
    BY <1>0, <1>4, <2>2 DEF TryStep, GivenUp
  <2>4. \A q \in Requests \ {r} : GivenUp(q)' = GivenUp(q)
    BY <1>0, <1>4 DEF TryStep, GivenUp
  <2>5. QED
    BY <2>1, <2>3, <2>4
<1>5. ASSUME NEW r \in Requests, NEW how \in {"stranded", "settled"},
             pc[r] = "trying", pc' = [pc EXCEPT ![r] = how], UNCHANGED <<snapshot, at>>
      PROVE  \A q \in Requests : GivenUp(q)' = GivenUp(q)
  BY <1>0, <1>5 DEF GivenUp
<1>6. ASSUME NEW r \in Requests, Marks(r), GivenUp(r)' = GivenUp(r) \cup {at[r]},
             \A q \in Requests \ {r} : GivenUp(q)' = GivenUp(q)
      PROVE  HealthIsWhatFailed'
  <2>1. /\ Channels' = Channels
        /\ healthy'[at[r]] = FALSE
        /\ \A c \in Channels : c # at[r] => healthy'[c] = healthy[c]
    BY <1>6, Marked
  <2>2. QED
    BY <1>6, <2>1 DEF HealthIsWhatFailed
<1>7. ASSUME NEW r \in Requests, MoveStep(r)
      PROVE  HealthIsWhatFailed'
  <2>1. /\ Marks(r) /\ pc[r] = "trying" /\ UNCHANGED <<pc, snapshot>>
        /\ at' = [at EXCEPT ![r] = First(Untried(r))]
    BY <1>7 DEF MoveStep, Marks, locals
  <2>2. /\ First(Untried(r)) \in snapshot[r] /\ First(Untried(r)) > at[r]
        /\ \A c \in snapshot[r] : c > at[r] => First(Untried(r)) <= c
    BY <1>7, FirstUntried DEF MoveStep
  <2>3. at[r] \in snapshot[r]
    BY <2>1, Marked
  <2>4. snapshot[r] \subseteq Nat
    BY <1>0
  <2>5. {c \in snapshot[r] : c < First(Untried(r))} = {c \in snapshot[r] : c < at[r]} \cup {at[r]}
    BY <2>2, <2>3, <2>4
  <2>6. GivenUp(r)' = GivenUp(r) \cup {at[r]}
    BY <1>0, <2>1, <2>5 DEF GivenUp
  <2>7. \A q \in Requests \ {r} : GivenUp(q)' = GivenUp(q)
    BY <1>0, <2>1 DEF GivenUp
  <2>8. QED
    BY <1>6, <2>1, <2>6, <2>7
<1>8. ASSUME NEW r \in Requests, ExhaustStep(r)
      PROVE  HealthIsWhatFailed'
  <2>1. /\ Marks(r) /\ pc[r] = "trying" /\ UNCHANGED <<at, snapshot>>
        /\ pc' = [pc EXCEPT ![r] = "exhausted"]
        /\ Untried(r) = {}
    BY <1>8 DEF ExhaustStep, Marks, locals
  <2>2. at[r] \in snapshot[r] /\ snapshot[r] \subseteq Nat
    BY <1>0, <2>1, Marked
  <2>3. snapshot[r] = {c \in snapshot[r] : c < at[r]} \cup {at[r]}
    BY <2>1, <2>2 DEF Untried
  <2>4. GivenUp(r)' = GivenUp(r) \cup {at[r]}
    BY <1>0, <2>1, <2>3 DEF GivenUp
  <2>5. \A q \in Requests \ {r} : GivenUp(q)' = GivenUp(q)
    BY <1>0, <2>1 DEF GivenUp
  <2>6. QED
    BY <1>6, <2>1, <2>4, <2>5
<1>9. ASSUME NEW r \in Requests, StrandStep(r)
      PROVE  HealthIsWhatFailed'
  BY <1>2, <1>5, <1>9 DEF StrandStep, EndStep, registry, locals
<1>10. ASSUME NEW r \in Requests, NEW actual \in Nat, NEW price \in Nat,
              SettleStep(r, actual, price)
       PROVE  HealthIsWhatFailed'
  BY <1>2, <1>5, <1>10 DEF SettleStep, EndStep, registry
<1>11. ASSUME NEW r \in Requests, GiveUpStep(r)
       PROVE  HealthIsWhatFailed'
  <2>1. /\ pc[r] = "exhausted" /\ pc' = [pc EXCEPT ![r] = "refunded"]
        /\ UNCHANGED <<healthy, snapshot, at>>
    BY <1>11 DEF GiveUpStep, EndStep, registry, locals
  <2>2. \A q \in Requests : GivenUp(q)' = GivenUp(q)
    BY <1>0, <2>1 DEF GivenUp
  <2>3. QED
    BY <1>2, <2>1, <2>2
<1>12. QED
  BY <1>1, <1>2, <1>3, <1>4, <1>7, <1>8, <1>9, <1>10, <1>11 DEF Step, RefuseStep, TryStep, registry

-----------------------------------------------------------------------------
LEMMA IInvStep == IInv /\ [Next]_vars => IInv'
<1> SUFFICES ASSUME IInv, [Next]_vars
             PROVE  IInv'
  OBVIOUS
<1>1. CASE Next
  <2>1. Step
    BY <1>1, NextIsStep DEF IInv
  <2>2. QED
    BY <2>1, StepTypeOK, StepOutcomeOK, StepCopyIsComplete, StepBackupsWait,
       StepHealthIsWhatFailed DEF IInv
<1>2. CASE UNCHANGED vars
  <2>1. TypeOK'
    BY <1>2 DEF IInv, vars, TypeOK, Channels
  <2>2. OutcomeOK' /\ CopyIsComplete' /\ BackupsWait'
    BY <1>2 DEF IInv, vars, OutcomeOK, CopyIsComplete, BackupsWait
  <2>3. HealthIsWhatFailed'
    BY <1>2 DEF IInv, vars, HealthIsWhatFailed, GivenUp, Channels
  <2>4. QED
    BY <2>1, <2>2, <2>3 DEF IInv
<1>3. QED
  BY <1>1, <1>2

LEMMA InductiveInvariant == Spec => []IInv
  BY InitIInv, IInvStep, PTL DEF Spec

(* No number of overlapping failovers overdraws a balance or leaves a      *)
(* request at a channel its copy does not have.                            *)
THEOREM FallbackTypeCorrect == Spec => []TypeOK
<1>1. IInv => TypeOK
  BY DEF IInv
<1>2. QED
  BY <1>1, InductiveInvariant, PTL

(* Whatever the copies say, a channel is out exactly when a request gave   *)
(* up on it.                                                               *)
THEOREM HealthIsAlwaysWhatFailed == Spec => []HealthIsWhatFailed
<1>1. IInv => HealthIsWhatFailed
  BY DEF IInv
<1>2. QED
  BY <1>1, InductiveInvariant, PTL

(* A channel serves only while every channel registered before it is out.  *)
THEOREM BackupsAlwaysWait == Spec => []BackupsWait
<1>1. IInv => BackupsWait
  BY DEF IInv
<1>2. QED
  BY <1>1, InductiveInvariant, PTL

-----------------------------------------------------------------------------
(***************************************************************************)
(* The loop over the channels makes progress, which is the part of its     *)
(* ending that needs no fairness.                                          *)
(***************************************************************************)

(* Nobody puts a channel back into service.                                *)
NoneRecovers == \A c \in Channels : c \in Channels' /\ (~healthy[c] => ~healthy'[c])

(* What may become of a request that is trying a channel: nothing; an      *)
(* answer ends it; or the channel is out of service and the request goes   *)
(* on with the next of its copy, one fewer left, or has none to go on with *)
(* and only the refund before it.                                          *)
Advances(r) ==
    \/ UNCHANGED <<pc[r], at[r], snapshot[r]>>
    \/ pc'[r] \in {"settled", "stranded"}
    \/ /\ ~healthy'[at[r]]
       /\ Untried(r) = {}
       /\ pc'[r] = "exhausted"
    \/ /\ ~healthy'[at[r]]
       /\ pc'[r] = "trying"
       /\ at'[r] \in Untried(r)
       /\ Untried(r)' = Untried(r) \ {at'[r]}

FailoverAdvances ==
    [][/\ NoneRecovers
       /\ \A r \in Requests :
             /\ pc[r] = "trying" => Advances(r)
             /\ pc[r] = "exhausted" => pc'[r] \in {"exhausted", "refunded"}]_vars

LEMMA MoveAdvances ==
    ASSUME TypeOK, OutcomeOK, NEW r \in Requests, MoveStep(r)
    PROVE  Advances(r)
<1>1. /\ First(Untried(r)) \in snapshot[r]
      /\ First(Untried(r)) > at[r]
      /\ \A c \in snapshot[r] : c > at[r] => First(Untried(r)) <= c
  BY FirstUntried DEF MoveStep
<1>2. at'[r] = First(Untried(r)) /\ pc'[r] = "trying" /\ snapshot' = snapshot
  BY DEF MoveStep, Marks, locals, TypeOK
<1>3. ~healthy'[at[r]]
  BY Marked DEF MoveStep
<1>4. snapshot[r] \subseteq Nat /\ at[r] \in Nat
  <2>1. at[r] \in snapshot[r] /\ snapshot[r] \subseteq Channels
    BY Marked DEF MoveStep
  <2>2. Channels \subseteq Nat
    BY DEF Channels
  <2>3. QED
    BY <2>1, <2>2
<1>5. at'[r] \in Untried(r)
  BY <1>1, <1>2 DEF Untried
<1>6. Untried(r)' = {c \in snapshot[r] : c > at'[r]}
  BY <1>2 DEF Untried
<1>7. \A c \in snapshot[r] : c > at'[r] <=> c > at[r] /\ c # at'[r]
  BY <1>1, <1>2, <1>4
<1>8. Untried(r)' = Untried(r) \ {at'[r]}
  BY <1>6, <1>7 DEF Untried
<1>9. QED
  BY <1>2, <1>3, <1>5, <1>8 DEF Advances

LEMMA StepNoneRecovers ==
    ASSUME TypeOK, OutcomeOK, Step
    PROVE  NoneRecovers
<1>1. CASE RegisterStep
  BY <1>1, Registered DEF NoneRecovers
<1>2. ASSUME NEW r \in Requests, Marks(r)
      PROVE  NoneRecovers
  BY <1>2, Marked DEF NoneRecovers
<1>3. CASE UNCHANGED registry
  BY <1>3 DEF registry, NoneRecovers, Channels
<1>4. QED
  BY <1>1, <1>2, <1>3 DEF Step, RefuseStep, TryStep, MoveStep, ExhaustStep, GiveUpStep,
                                StrandStep, SettleStep, registry

LEMMA StepAdvances ==
    ASSUME TypeOK, OutcomeOK, Step, NEW q \in Requests, pc[q] = "trying"
    PROVE  Advances(q)
<1> DEFINE Still == UNCHANGED <<pc[q], at[q], snapshot[q]>>
<1>1. CASE RegisterStep
  BY <1>1 DEF RegisterStep, locals, Advances
<1>2. ASSUME NEW r \in Requests, RefuseStep(r) \/ \E u \in Users : \E n \in Nat : TryStep(r, u, n)
      PROVE  Advances(q)
  <2>1. r # q
    BY <1>2 DEF RefuseStep, TryStep
  <2>2. Still
    BY <1>2, <2>1 DEF RefuseStep, TryStep, locals, TypeOK
  <2>3. QED
    BY <2>2 DEF Advances
<1>3. ASSUME NEW r \in Requests, r # q, Marks(r) \/ snapshot' = snapshot,
             MoveStep(r) \/ ExhaustStep(r) \/ \E how, code, price : EndStep(r, how, code, price)
      PROVE  Advances(q)
  <2>1. Still
    BY <1>3 DEF MoveStep, ExhaustStep, Marks, EndStep, locals, TypeOK
  <2>2. QED
    BY <2>1 DEF Advances
<1>4. CASE ExhaustStep(q)
  <2>1. pc'[q] = "exhausted" /\ Untried(q) = {} /\ ~healthy'[at[q]]
    BY <1>4, Marked DEF ExhaustStep, TypeOK
  <2>2. QED
    BY <2>1 DEF Advances
<1>5. CASE StrandStep(q) \/ \E actual, price \in Nat : SettleStep(q, actual, price)
  <2>1. pc'[q] \in {"settled", "stranded"}
    BY <1>5 DEF StrandStep, SettleStep, EndStep, TypeOK
  <2>2. QED
    BY <2>1 DEF Advances
<1>6. ASSUME NEW r \in Requests, r # q,
             \/ MoveStep(r)
             \/ ExhaustStep(r)
             \/ GiveUpStep(r)
             \/ StrandStep(r)
             \/ \E actual, price \in Nat : SettleStep(r, actual, price)
      PROVE  Advances(q)
  BY <1>3, <1>6 DEF MoveStep, ExhaustStep, GiveUpStep, StrandStep, SettleStep, locals
<1>7. ~GiveUpStep(q)
  BY DEF GiveUpStep
<1>8. QED
  BY <1>1, <1>2, <1>4, <1>5, <1>6, <1>7, MoveAdvances DEF Step

(* The loop is left for the refund.                                        *)
LEMMA StepRefunds ==
    ASSUME TypeOK, Step, NEW q \in Requests, pc[q] = "exhausted"
    PROVE  pc'[q] \in {"exhausted", "refunded"}
<1>0. pc \in [Requests -> {"idle", "trying", "exhausted"} \cup Ended]
  BY DEF TypeOK
<1>1. ASSUME NEW r \in Requests, NEW to, r # q, pc' = [pc EXCEPT ![r] = to]
      PROVE  pc'[q] = "exhausted"
  BY <1>0, <1>1
<1>2. ASSUME NEW r \in Requests, pc[r] # "exhausted", NEW to, pc' = [pc EXCEPT ![r] = to]
      PROVE  pc'[q] = "exhausted"
  BY <1>1, <1>2
<1>3. CASE RegisterStep \/ \E r \in Requests : MoveStep(r)
  BY <1>3 DEF RegisterStep, MoveStep
<1>4. CASE GiveUpStep(q)
  BY <1>0, <1>4 DEF GiveUpStep, EndStep
<1>5. ASSUME NEW r \in Requests,
             \/ RefuseStep(r)
             \/ \E u \in Users : \E n \in Nat : TryStep(r, u, n)
             \/ ExhaustStep(r)
             \/ StrandStep(r)
             \/ \E actual, price \in Nat : SettleStep(r, actual, price)
             \/ GiveUpStep(r) /\ r # q
      PROVE  \E to : pc' = [pc EXCEPT ![r] = to] /\ (r # q \/ pc[r] # "exhausted")
  BY <1>5 DEF RefuseStep, TryStep, ExhaustStep, Marks, GiveUpStep, StrandStep, SettleStep, EndStep
<1>6. QED
  BY <1>1, <1>2, <1>3, <1>4, <1>5 DEF Step

(* A failed attempt takes its channel out of service for good and leaves   *)
(* the request one channel fewer to try: no channel is tried twice, and    *)
(* after as many failures as its copy has channels all that is left is the *)
(* refund.                                                                 *)
THEOREM FailoversAdvance == Spec => FailoverAdvances
<1>1. IInv /\ [Next]_vars =>
        [/\ NoneRecovers
         /\ \A r \in Requests :
               /\ pc[r] = "trying" => Advances(r)
               /\ pc[r] = "exhausted" => pc'[r] \in {"exhausted", "refunded"}]_vars
  BY NextIsStep, StepNoneRecovers, StepAdvances, StepRefunds DEF IInv
<1>2. QED
  BY <1>1, InductiveInvariant, PTL DEF Spec, FailoverAdvances

-----------------------------------------------------------------------------
(***************************************************************************)
(* The books.  A step of r changes what r cost its user by as much as it   *)
(* changes that user's balance, up to the part of an overage that is       *)
(* dropped.                                                                *)
(***************************************************************************)
LEMMA CostsAreInt ==
    ASSUME TypeOK, OutcomeOK, NEW u \in Users
    PROVE  Least(u) \in [1..NumRequests -> Int] /\ Most(u) \in [1..NumRequests -> Int]
<1>1. \A r \in Requests : Most(u)[r] \in Int
  BY DEF Most, TypeOK, OutcomeOK
<1>2. \A r \in Requests : Least(u)[r] \in Int
  BY <1>1 DEF Least, TypeOK
<1>3. Most(u) = [r \in Requests |-> Most(u)[r]] /\ Least(u) = [r \in Requests |-> Least(u)[r]]
  BY DEF Most, Least
<1>4. QED
  BY <1>1, <1>2, <1>3 DEF Requests

LEMMA CostsAreIntNext ==
    ASSUME TypeOK', OutcomeOK', NEW u \in Users
    PROVE  Least(u)' \in [1..NumRequests -> Int] /\ Most(u)' \in [1..NumRequests -> Int]
<1>1. \A r \in Requests : Most(u)'[r] \in Int
  BY DEF Most, TypeOK, OutcomeOK
<1>2. \A r \in Requests : Least(u)'[r] \in Int
  BY <1>1 DEF Least, TypeOK
<1>3. /\ Most(u)' = [r \in Requests |-> Most(u)'[r]]
      /\ Least(u)' = [r \in Requests |-> Least(u)'[r]]
  BY DEF Most, Least
<1>4. QED
  BY <1>1, <1>2, <1>3 DEF Requests

(* r's costs and u's balance between two states.                           *)
Costs(r, u) ==
    /\ Least(u)'[r] - Least(u)[r] <= balance[u] - balance'[u]
    /\ balance[u] - balance'[u] <= Most(u)'[r] - Most(u)[r]
    /\ \A q \in Requests \ {r} : Least(u)'[q] = Least(u)[q] /\ Most(u)'[q] = Most(u)[q]

LEMMA TryCosts ==
    ASSUME TypeOK, OutcomeOK, NEW r \in Requests, NEW v \in Users, NEW n \in Nat,
           TryStep(r, v, n), NEW u \in Users
    PROVE  Costs(r, u)
<1>1. /\ user \in [Requests -> Users \cup {None}] /\ estimate \in [Requests -> Nat]
      /\ pc \in [Requests -> {"idle", "trying", "exhausted"} \cup Ended]
      /\ balance \in [Users -> Nat]
  BY DEF TypeOK
<1>2. \A q \in Requests \ {r} : Least(u)'[q] = Least(u)[q] /\ Most(u)'[q] = Most(u)[q]
  BY <1>1 DEF TryStep, Least, Most
<1>3. Least(u)[r] = 0 /\ Most(u)[r] = 0
  BY DEF TryStep, Least, Most
<1>4. pc'[r] = "trying" /\ user'[r] = v /\ estimate'[r] = n
  BY <1>1 DEF TryStep
<1>5. CASE u = v
  <2>1. Most(u)'[r] = n /\ Least(u)'[r] = n
    BY <1>4, <1>5 DEF Most, Least
  <2>2. balance'[u] = balance[u] - n
    BY <1>1, <1>5 DEF TryStep
  <2>3. QED
    BY <1>1, <1>2, <1>3, <2>1, <2>2 DEF Costs
<1>6. CASE u # v
  <2>0. Most(u)'[r] = 0
    BY <1>4, <1>6 DEF Most
  <2>1. Most(u)'[r] = 0 /\ Least(u)'[r] = 0
    BY <1>4, <2>0 DEF Least
  <2>2. balance'[u] = balance[u]
    BY <1>1, <1>6 DEF TryStep
  <2>3. QED
    BY <1>1, <1>2, <1>3, <2>1, <2>2 DEF Costs
<1>7. QED
  BY <1>5, <1>6

(* What an ended request cost its user.                                    *)
EndCost(r, how, price) ==
    CASE how = "refunded" -> price = 0
      [] how = "stranded" -> price = estimate[r]
      [] how = "settled"  -> /\ charged'[r] \in Nat
                             /\ \/ price = charged'[r]
                                \/ price = estimate[r] /\ estimate[r] < charged'[r]

LEMMA EndCosts ==
    ASSUME TypeOK, OutcomeOK, NEW r \in Requests,
           NEW how \in {"refunded", "stranded", "settled"},
           NEW code, NEW price \in Nat, EndStep(r, how, code, price), EndCost(r, how, price),
           UNCHANGED <<user, estimate>>, \A q \in Requests \ {r} : charged'[q] = charged[q],
           NEW u \in Users
    PROVE  Costs(r, u)
<1>1. /\ user[r] \in Users /\ estimate[r] \in Nat
      /\ pc \in [Requests -> {"idle", "trying", "exhausted"} \cup Ended]
      /\ balance \in [Users -> Nat]
  BY OpenFacts DEF TypeOK, EndStep
<1>2. \A q \in Requests \ {r} : Least(u)'[q] = Least(u)[q] /\ Most(u)'[q] = Most(u)[q]
  BY <1>1 DEF EndStep, Least, Most
<1>3. pc[r] \in {"trying", "exhausted"} /\ pc'[r] = how
  BY <1>1 DEF EndStep, Open
<1>4. CASE user[r] = u
  <2>1. Most(u)[r] = estimate[r] /\ Least(u)[r] = estimate[r]
    BY <1>3, <1>4 DEF Most, Least
  <2>2. balance'[u] = balance[u] + estimate[r] - price
    BY <1>1, <1>4 DEF EndStep
  <2>3. CASE how = "refunded"
    <3>1. Most(u)'[r] = 0 /\ Least(u)'[r] = 0 /\ price = 0
      BY <1>3, <2>3 DEF Most, Least, EndCost
    <3>2. QED
      BY <1>1, <1>2, <2>1, <2>2, <3>1 DEF Costs
  <2>4. CASE how = "stranded"
    <3>1. Most(u)'[r] = estimate[r] /\ Least(u)'[r] = estimate[r] /\ price = estimate[r]
      BY <1>3, <1>4, <2>4 DEF Most, Least, EndCost
    <3>2. QED
      BY <1>1, <1>2, <2>1, <2>2, <3>1 DEF Costs
  <2>5. CASE how = "settled"
    <3>1. /\ Most(u)'[r] = charged'[r]
          /\ Least(u)'[r] = IF estimate[r] < charged'[r] THEN estimate[r] ELSE charged'[r]
      BY <1>3, <1>4, <2>5 DEF Most, Least
    <3>2. /\ charged'[r] \in Nat
          /\ price = charged'[r] \/ (price = estimate[r] /\ estimate[r] < charged'[r])
      BY <2>5 DEF EndCost
    <3>3. QED
      BY <1>1, <1>2, <2>1, <2>2, <3>1, <3>2 DEF Costs
  <2>6. QED
    BY <2>3, <2>4, <2>5
<1>5. CASE user[r] # u
  <2>0. Most(u)[r] = 0 /\ Most(u)'[r] = 0
    BY <1>5 DEF Most
  <2>1. Most(u)[r] = 0 /\ Least(u)[r] = 0 /\ Most(u)'[r] = 0 /\ Least(u)'[r] = 0
    BY <1>1, <2>0 DEF Least
  <2>2. balance'[u] = balance[u]
    BY <1>1, <1>5 DEF EndStep
  <2>3. QED
    BY <1>1, <1>2, <2>1, <2>2 DEF Costs
<1>6. QED
  BY <1>4, <1>5

LEMMA StepCosts ==
    ASSUME TypeOK, OutcomeOK, Step
    PROVE  \/ /\ UNCHANGED balance
              /\ \A u \in Users : Least(u)' = Least(u) /\ Most(u)' = Most(u)
           \/ \E r \in Requests : \A u \in Users : Costs(r, u)
<1>0. pc \in [Requests -> {"idle", "trying", "exhausted"} \cup Ended]
  BY DEF TypeOK
<1>1. CASE RegisterStep
  BY <1>1 DEF RegisterStep, locals, Least, Most
<1>2. ASSUME NEW r \in Requests, RefuseStep(r)
      PROVE  UNCHANGED balance /\ \A u \in Users : Least(u)' = Least(u) /\ Most(u)' = Most(u)
  <2>1. \A u \in Users : Most(u)' = Most(u)
    BY <1>0, <1>2 DEF RefuseStep, locals, Most
  <2>2. \A u \in Users : Least(u)' = Least(u)
    BY <1>0, <1>2, <2>1 DEF RefuseStep, locals, Least
  <2>3. QED
    BY <1>2, <2>1, <2>2 DEF RefuseStep
<1>3. ASSUME NEW r \in Requests, NEW v \in Users, NEW n \in Nat, TryStep(r, v, n)
      PROVE  \A u \in Users : Costs(r, u)
  BY <1>3, TryCosts
<1>4. ASSUME NEW r \in Requests, MoveStep(r)
      PROVE  UNCHANGED balance /\ \A u \in Users : Least(u)' = Least(u) /\ Most(u)' = Most(u)
  BY <1>4 DEF MoveStep, Marks, locals, Least, Most
<1>5. ASSUME NEW r \in Requests, GiveUpStep(r)
      PROVE  \A u \in Users : Costs(r, u)
  <2>1. PICK code \in Statuses \ {200} : EndStep(r, "refunded", code, 0)
    BY <1>5 DEF GiveUpStep
  <2>2. UNCHANGED <<user, estimate, charged>> /\ EndCost(r, "refunded", 0)
    BY <1>5 DEF GiveUpStep, locals, EndCost
  <2>3. QED
    BY <2>1, <2>2, EndCosts
<1>6. ASSUME NEW r \in Requests, StrandStep(r)
      PROVE  \A u \in Users : Costs(r, u)
  <2>1. EndStep(r, "stranded", 500, estimate[r]) /\ estimate[r] \in Nat
    BY <1>6, OpenFacts DEF StrandStep, EndStep
  <2>2. UNCHANGED <<user, estimate, charged>> /\ EndCost(r, "stranded", estimate[r])
    BY <1>6 DEF StrandStep, locals, EndCost
  <2>3. QED
    BY <2>1, <2>2, EndCosts
<1>7. ASSUME NEW r \in Requests, NEW actual \in Nat, NEW price \in Nat,
             SettleStep(r, actual, price)
      PROVE  \A u \in Users : Costs(r, u)
  <2>1. PICK code \in {200, 500} :
           EndStep(r, "settled", code, price) /\ UNCHANGED <<user, estimate>>
    BY <1>7 DEF SettleStep
  <2>2. charged'[r] = actual /\ \A q \in Requests \ {r} : charged'[q] = charged[q]
    BY <1>7 DEF SettleStep, TypeOK
  <2>3. EndCost(r, "settled", price)
    BY <1>7, <2>2 DEF SettleStep, EndCost
  <2>4. QED
    BY <2>1, <2>2, <2>3, EndCosts
<1>8. ASSUME NEW r \in Requests, ExhaustStep(r)
      PROVE  UNCHANGED balance /\ \A u \in Users : Least(u)' = Least(u) /\ Most(u)' = Most(u)
  <2>1. /\ pc[r] = "trying" /\ pc' = [pc EXCEPT ![r] = "exhausted"]
        /\ UNCHANGED <<balance, user, estimate, charged>>
    BY <1>8 DEF ExhaustStep, Marks, locals
  <2>2. \A u \in Users : Most(u)' = Most(u)
    BY <1>0, <2>1 DEF Most
  <2>3. \A u \in Users : Least(u)' = Least(u)
    BY <1>0, <2>1, <2>2 DEF Least
  <2>4. QED
    BY <2>1, <2>2, <2>3
<1>9. QED
  BY <1>1, <1>2, <1>3, <1>4, <1>5, <1>6, <1>7, <1>8 DEF Step

LEMMA CostsKeepBooks ==
    ASSUME IInv, IInv', SpendingAccounted, NEW r \in Requests, \A u \in Users : Costs(r, u)
    PROVE  SpendingAccounted'
<1> SUFFICES ASSUME NEW u \in Users
             PROVE  /\ Total(Least(u)', NumRequests) <= Deposit[u] - balance'[u]
                    /\ Deposit[u] - balance'[u] <= Total(Most(u)', NumRequests)
  BY DEF SpendingAccounted
<1> DEFINE f == Least(u)
           g == Most(u)
           ff == Least(u)'
           gg == Most(u)'
<1>1. /\ f \in [1..NumRequests -> Int] /\ g \in [1..NumRequests -> Int]
      /\ ff \in [1..NumRequests -> Int] /\ gg \in [1..NumRequests -> Int]
  <2>1. f \in [1..NumRequests -> Int] /\ g \in [1..NumRequests -> Int]
    BY CostsAreInt DEF IInv
  <2>2. ff \in [1..NumRequests -> Int] /\ gg \in [1..NumRequests -> Int]
    <3>1. TypeOK' /\ OutcomeOK'
      BY DEF IInv
    <3>2. QED
      BY <3>1, CostsAreIntNext
  <2>3. QED
    BY <2>1, <2>2
<1>2. /\ ff[r] - f[r] <= balance[u] - balance'[u] /\ balance[u] - balance'[u] <= gg[r] - g[r]
      /\ \A q \in 1..NumRequests : q # r => ff[q] = f[q] /\ gg[q] = g[q]
  BY DEF Costs, Requests
<1>3. Total(f, NumRequests) <= Deposit[u] - balance[u] /\ Deposit[u] - balance[u] <= Total(g, NumRequests)
  BY DEF SpendingAccounted
<1>4. balance[u] \in Int /\ balance'[u] \in Int /\ Deposit[u] \in Int
      /\ NumRequests \in Nat /\ r \in 1..NumRequests
  BY FallbackAssumption DEF IInv, TypeOK, Requests
<1> HIDE DEF f, g, ff, gg
<1>5. /\ Total(ff, NumRequests) = Total(f, NumRequests) + ff[r] - f[r]
      /\ Total(gg, NumRequests) = Total(g, NumRequests) + gg[r] - g[r]
      /\ Total(f, NumRequests) \in Int /\ Total(g, NumRequests) \in Int
  BY <1>1, <1>2, <1>4, TotalUpdate, TotalInt
<1>6. ff[r] \in Int /\ f[r] \in Int /\ gg[r] \in Int /\ g[r] \in Int
  BY <1>1, <1>4
<1>7. /\ Total(ff, NumRequests) <= Deposit[u] - balance'[u]
      /\ Deposit[u] - balance'[u] <= Total(gg, NumRequests)
  BY <1>2, <1>3, <1>4, <1>5, <1>6
<1>8. QED
  BY <1>7 DEF ff, gg

LEMMA InitBooks == Init => SpendingAccounted
<1> SUFFICES ASSUME Init, NEW u \in Users
             PROVE  /\ Total(Least(u), NumRequests) <= Deposit[u] - balance[u]
                    /\ Deposit[u] - balance[u] <= Total(Most(u), NumRequests)
  BY DEF SpendingAccounted
<1>1. \A r \in 1..NumRequests : Least(u)[r] = 0 /\ Most(u)[r] = 0
  BY DEF Init, Least, Most, Requests
<1>2. Least(u) \in [1..NumRequests -> Int] /\ Most(u) \in [1..NumRequests -> Int]
  BY InitIInv, CostsAreInt DEF IInv
<1>3. Total(Least(u), NumRequests) = 0 /\ Total(Most(u), NumRequests) = 0
  BY <1>1, <1>2, TotalZero, FallbackAssumption
<1>4. Deposit[u] - balance[u] = 0
  BY FallbackAssumption DEF Init
<1>5. QED
  BY <1>3, <1>4

(* For any users, requests and channels: what is missing from a balance is *)
(* what that user's open, lost and settled requests account for, one       *)
(* estimate each, and an unexpected body loses one estimate.               *)
THEOREM SpendingIsAccounted == Spec => []SpendingAccounted
<1>1. IInv /\ IInv' /\ SpendingAccounted /\ [Next]_vars => SpendingAccounted'
  <2>1. ASSUME IInv, IInv', SpendingAccounted, Next PROVE SpendingAccounted'
    <3>1. \/ /\ UNCHANGED balance
             /\ \A u \in Users : Least(u)' = Least(u) /\ Most(u)' = Most(u)
          \/ \E r \in Requests : \A u \in Users : Costs(r, u)
      BY <2>1, NextIsStep, StepCosts DEF IInv
    <3>2. ASSUME UNCHANGED balance, \A u \in Users : Least(u)' = Least(u) /\ Most(u)' = Most(u)
          PROVE  SpendingAccounted'
      BY <2>1, <3>2 DEF SpendingAccounted
    <3>3. QED
      BY <2>1, <3>1, <3>2, CostsKeepBooks
  <2>2. ASSUME SpendingAccounted, UNCHANGED vars PROVE SpendingAccounted'
    BY <2>2 DEF SpendingAccounted, Least, Most, vars
  <2>3. QED
    BY <2>1, <2>2
<1>2. QED
  BY InitBooks, InductiveInvariant, <1>1, PTL DEF Spec

-----------------------------------------------------------------------------
(***************************************************************************)
(* The failover implements the ledger.                                     *)
(***************************************************************************)
QuietFunds == UNCHANGED <<balance, Owner, Phase, Held>>

LEMMA TryIsHold ==
    ASSUME TypeOK, NEW r \in Requests, NEW u \in Users, NEW n \in Nat, TryStep(r, u, n)
    PROVE  Quotas!Next
<1>1. balance[u] \in Nat /\ n \in 0..balance[u]
  BY DEF TypeOK, TryStep
<1>2. Phase[r] = "none" /\ Phase' = [Phase EXCEPT ![r] = "holding"]
  BY DEF TryStep, Phase, TypeOK
<1>3. Held' = [Held EXCEPT ![r] = n]
  BY DEF TryStep, Held, Phase, TypeOK
<1>4. Owner' = [Owner EXCEPT ![r] = u]
  BY DEF TryStep, Owner
<1>5. Quotas!Hold(r, u, n)
  BY <1>1, <1>2, <1>3, <1>4 DEF Quotas!Hold, TryStep
<1>6. QED
  BY <1>1, <1>5 DEF Quotas!Next

LEMMA EndIsReleaseOrCapture ==
    ASSUME TypeOK, OutcomeOK, NEW r \in Requests,
           NEW how \in {"refunded", "stranded", "settled"}, NEW code, NEW price \in Nat,
           EndStep(r, how, code, price), UNCHANGED <<user, estimate>>,
           price <= estimate[r] + balance[user[r]], how = "refunded" => price = 0
    PROVE  Quotas!Next
<1>1. user[r] \in Users /\ balance[user[r]] \in Nat /\ estimate[r] \in Nat
  BY OpenFacts DEF EndStep
<1>2. Phase[r] = "holding" /\ Held[r] = estimate[r]
  BY DEF EndStep, Phase, Held, Open
<1>3. Held' = [Held EXCEPT ![r] = 0] /\ Owner' = Owner
  BY DEF EndStep, Held, Phase, Owner, TypeOK
<1>4. balance' = [balance EXCEPT ![Owner[r]] = balance[Owner[r]] + Held[r] - price]
  BY <1>2 DEF EndStep, Owner
<1>5. CASE how = "refunded"
  <2>1. Phase' = [Phase EXCEPT ![r] = "released"]
    BY <1>5 DEF EndStep, Phase, TypeOK
  <2>2. balance[Owner[r]] + Held[r] - price = balance[Owner[r]] + Held[r]
    BY <1>1, <1>2, <1>5 DEF Owner
  <2>3. balance' = [balance EXCEPT ![Owner[r]] = balance[Owner[r]] + Held[r]]
    BY <1>4, <2>2
  <2>4. Quotas!Release(r)
    BY <1>2, <1>3, <2>1, <2>3 DEF Quotas!Release
  <2>5. QED
    BY <2>4 DEF Quotas!Next
<1>6. CASE how # "refunded"
  <2>1. Phase' = [Phase EXCEPT ![r] = "captured"]
    BY <1>6 DEF EndStep, Phase, TypeOK
  <2>2. price <= Held[r] + balance[Owner[r]] /\ price \in 0..(Held[r] + balance[Owner[r]])
    BY <1>1, <1>2 DEF Owner
  <2>3. Quotas!Capture(r, price)
    BY <1>2, <1>3, <1>4, <2>1, <2>2 DEF Quotas!Capture
  <2>4. Owner[r] \in Users
    BY <1>1 DEF Owner
  <2>5. QED
    BY <2>2, <2>3, <2>4 DEF Quotas!Next
<1>7. QED
  BY <1>5, <1>6

LEMMA StepOfLedger ==
    ASSUME TypeOK, OutcomeOK, Step
    PROVE  [Quotas!Next]_(Quotas!ledgerVars)
<1>0. pc \in [Requests -> {"idle", "trying", "exhausted"} \cup Ended]
  BY DEF TypeOK
<1>1. ASSUME QuietFunds
      PROVE  UNCHANGED Quotas!ledgerVars
  BY <1>1 DEF QuietFunds, Quotas!ledgerVars
<1>2. CASE RegisterStep
  BY <1>1, <1>2 DEF RegisterStep, locals, QuietFunds, Owner, Phase, Held
<1>3. ASSUME NEW r \in Requests, RefuseStep(r)
      PROVE  QuietFunds
  <2>1. Phase' = Phase /\ Held' = Held
    BY <1>0, <1>3 DEF RefuseStep, locals, Phase, Held
  <2>2. QED
    BY <1>3, <2>1 DEF RefuseStep, locals, QuietFunds, Owner
<1>4. ASSUME NEW r \in Requests, MoveStep(r)
      PROVE  QuietFunds
  BY <1>4 DEF MoveStep, Marks, locals, QuietFunds, Owner, Phase, Held
<1>5. ASSUME NEW r \in Requests, GiveUpStep(r)
      PROVE  Quotas!Next
  <2>1. PICK code \in Statuses \ {200} : EndStep(r, "refunded", code, 0)
    BY <1>5 DEF GiveUpStep
  <2>2. 0 <= estimate[r] + balance[user[r]]
    BY <2>1, OpenFacts DEF EndStep
  <2>3. UNCHANGED <<user, estimate>>
    BY <1>5 DEF GiveUpStep, locals
  <2>4. QED
    BY <2>1, <2>2, <2>3, EndIsReleaseOrCapture
<1>6. ASSUME NEW r \in Requests, StrandStep(r)
      PROVE  Quotas!Next
  <2>1. EndStep(r, "stranded", 500, estimate[r]) /\ UNCHANGED <<user, estimate>>
    BY <1>6 DEF StrandStep, locals
  <2>2. estimate[r] \in Nat /\ estimate[r] <= estimate[r] + balance[user[r]]
    BY <2>1, OpenFacts DEF EndStep
  <2>3. QED
    BY <2>1, <2>2, EndIsReleaseOrCapture
<1>7. ASSUME NEW r \in Requests, NEW actual \in Nat, NEW price \in Nat,
             SettleStep(r, actual, price)
      PROVE  Quotas!Next
  <2>1. /\ \E code \in {200, 500} : EndStep(r, "settled", code, price)
        /\ UNCHANGED <<user, estimate>>
        /\ price <= estimate[r] + balance[user[r]]
    BY <1>7 DEF SettleStep
  <2>2. QED
    BY <2>1, EndIsReleaseOrCapture
<1>8. ASSUME NEW r \in Requests, ExhaustStep(r)
      PROVE  QuietFunds
  <2>1. /\ pc[r] = "trying" /\ pc' = [pc EXCEPT ![r] = "exhausted"]
        /\ UNCHANGED <<balance, user, estimate>>
    BY <1>8 DEF ExhaustStep, Marks, locals
  <2>2. Phase' = Phase
    BY <1>0, <2>1 DEF Phase
  <2>3. Held' = Held
    BY <2>1, <2>2 DEF Held
  <2>4. QED
    BY <2>1, <2>2, <2>3 DEF QuietFunds, Owner
<1>9. QED
  BY <1>1, <1>2, <1>3, <1>4, <1>5, <1>6, <1>7, <1>8, TryIsHold DEF Step

(* However many channels a request goes through, it holds its estimate     *)
(* once and ends it once, and nothing else moves a balance.                *)
THEOREM FallbackImplementsLedger == Spec => ImplementsLedger
<1>1. Init => Quotas!Init
  BY DEF Init, Quotas!Init, Owner, Phase, Held
<1>2. IInv /\ [Next]_vars => [Quotas!Next]_(Quotas!ledgerVars)
  <2>1. ASSUME IInv, Next PROVE [Quotas!Next]_(Quotas!ledgerVars)
    BY <2>1, NextIsStep, StepOfLedger DEF IInv
  <2>2. ASSUME UNCHANGED vars PROVE UNCHANGED Quotas!ledgerVars
    BY <2>2 DEF vars, Quotas!ledgerVars, Owner, Phase, Held
  <2>3. QED
    BY <2>1, <2>2
<1>3. QED
  BY <1>1, <1>2, InductiveInvariant, PTL DEF Spec, ImplementsLedger, Quotas!Spec

-----------------------------------------------------------------------------
(***************************************************************************)
(* What follows from the refinement of the ledger: LedgerProofs' theorems, *)
(* read of this handler.                                                   *)
(***************************************************************************)
Holds == INSTANCE LedgerProofs WITH
    NoUser <- None, funds <- balance, owner <- Owner, phase <- Phase, held <- Held

LEMMA SameLedger == Quotas!Spec => Holds!Spec
<1>1. Quotas!Init => Holds!Init
  BY DEF Quotas!Init, Holds!Init
<1>2. [Quotas!Next]_(Quotas!ledgerVars) => [Holds!Next]_(Holds!ledgerVars)
  BY DEF Quotas!Next, Quotas!Hold, Quotas!Capture, Quotas!Release, Quotas!ledgerVars,
         Holds!Next, Holds!Hold, Holds!Capture, Holds!Release, Holds!ledgerVars
<1>3. QED
  BY <1>1, <1>2, PTL DEF Quotas!Spec, Holds!Spec

(* Retries give nobody quota: however many channels fail in however many   *)
(* requests, a user's balance and open estimates are never more than the   *)
(* deposit, and no estimate is refunded or settled twice.                  *)
THEOREM FallbackNobodyGains == Spec => []Holds!Covered /\ Holds!EndsOnce
<1>1. Holds!Spec => []Holds!Covered
  BY Holds!LedgerCovers, FallbackAssumption DEF Requests, Holds!Numbered
<1>2. QED
  BY <1>1, Holds!HoldsEndOnce, SameLedger, FallbackImplementsLedger, PTL DEF ImplementsLedger

-----------------------------------------------------------------------------
(***************************************************************************)
(* s16 around s13.  What is counted is the status of a request that has    *)
(* ended, and that no step changes any more.                               *)
(***************************************************************************)
CountedIsStatus ==
    /\ counted \in [Requests -> Statuses \cup {None}]
    /\ \A r \in Requests : counted[r] # None => counted[r] = status[r]

LEMMA StatusStays ==
    ASSUME TypeOK, OutcomeOK, Step
    PROVE  \A q \in Requests : status[q] # None => status'[q] = status[q]
<1>0. status \in [Requests -> Statuses \cup {None}]
  BY DEF TypeOK
<1>1. CASE RegisterStep
  BY <1>1 DEF RegisterStep
<1>2. ASSUME NEW r \in Requests, RefuseStep(r)
      PROVE  \A q \in Requests : status[q] # None => status'[q] = status[q]
  BY <1>0, <1>2 DEF RefuseStep, OutcomeOK
<1>3. ASSUME NEW r \in Requests, pc[r] \in Open, NEW code,
             status' = [status EXCEPT ![r] = code]
      PROVE  \A q \in Requests : status[q] # None => status'[q] = status[q]
  BY <1>0, <1>3 DEF OutcomeOK
<1>4. QED
  BY <1>1, <1>2, <1>3 DEF Step, TryStep, MoveStep, ExhaustStep, GiveUpStep, StrandStep, SettleStep, EndStep

LEMMA CountedStep ==
    ASSUME IInv, CountedIsStatus, [ObservedNext]_observedVars
    PROVE  CountedIsStatus'
<1>1. CASE Next /\ UNCHANGED counted
  <2>1. \A q \in Requests : status[q] # None => status'[q] = status[q]
    BY <1>1, NextIsStep, StatusStays DEF IInv
  <2>2. QED
    BY <1>1, <2>1 DEF CountedIsStatus
<1>2. ASSUME NEW r \in Requests, Count(r)
      PROVE  CountedIsStatus'
  <2>1. status \in [Requests -> Statuses \cup {None}]
    BY DEF IInv, TypeOK
  <2>2. status' = status /\ counted' = [counted EXCEPT ![r] = status[r]]
    BY <1>2 DEF Count, vars
  <2>3. QED
    BY <2>1, <2>2 DEF CountedIsStatus
<1>3. CASE UNCHANGED observedVars
  BY <1>3 DEF observedVars, vars, CountedIsStatus
<1>4. QED
  BY <1>1, <1>2, <1>3 DEF ObservedNext

(* s16's middleware changes nothing of the failover it observes.           *)
THEOREM ObservedRefinesFallback == ObservedSpec => Spec
<1>1. ObservedInit => Init
  BY DEF ObservedInit
<1>2. [ObservedNext]_observedVars => [Next]_vars
  BY DEF ObservedNext, Count, observedVars
<1>3. QED
  BY <1>1, <1>2, PTL DEF ObservedSpec, Spec

(* What s16 counts tells what happened: successes were charged, what was   *)
(* charged is counted as a success or under 500, and a request counted as  *)
(* the channels' failure was refunded and left every channel of its copy   *)
(* out of service.                                                         *)
THEOREM MetricsAlwaysTell == ObservedSpec => []MetricsTellOutcomes
<1>1. ObservedInit => CountedIsStatus
  BY DEF ObservedInit, CountedIsStatus
<1>2. IInv /\ CountedIsStatus => MetricsTellOutcomes
  <2>1. SUFFICES ASSUME IInv, CountedIsStatus, NEW r \in Requests, counted[r] # None
                 PROVE  /\ counted[r] = 200 => charged[r] # None
                        /\ charged[r] # None => counted[r] \in {200, 500}
                        /\ snapshot[r] # {} /\ counted[r] \notin {200, 500} =>
                             /\ Phase[r] = "released"
                             /\ \A c \in snapshot[r] : ~healthy[c]
    BY DEF MetricsTellOutcomes
  <2>2. counted[r] = status[r] /\ status[r] # None
    BY <2>1 DEF CountedIsStatus
  <2>3. /\ counted[r] = 200 => charged[r] # None
        /\ charged[r] # None => counted[r] \in {200, 500}
    BY <2>1, <2>2 DEF IInv, OutcomeOK
  <2>4. ASSUME snapshot[r] # {}, counted[r] \notin {200, 500}
        PROVE  pc[r] = "refunded"
    <3>1. pc[r] \in {"idle", "trying", "exhausted"} \cup Ended
      BY <2>1 DEF IInv, TypeOK
    <3>2. pc[r] \notin {"idle", "trying", "exhausted", "refused", "stranded", "settled"}
      BY <2>1, <2>2, <2>4 DEF IInv, OutcomeOK, Open
    <3>3. QED
      BY <3>1, <3>2 DEF Ended
  <2>5. ASSUME pc[r] = "refunded"
        PROVE  Phase[r] = "released" /\ \A c \in snapshot[r] : ~healthy[c]
    <3>1. GivenUp(r) = snapshot[r] /\ snapshot[r] \subseteq Channels
      BY <2>1, <2>5 DEF GivenUp, IInv, TypeOK
    <3>2. \A c \in snapshot[r] : ~healthy[c]
      BY <2>1, <3>1 DEF IInv, HealthIsWhatFailed
    <3>3. Phase[r] = "released"
      BY <2>5 DEF Phase
    <3>4. QED
      BY <3>2, <3>3
  <2>6. QED
    BY <2>3, <2>4, <2>5
<1>3. QED
  BY <1>1, <1>2, CountedStep, ObservedRefinesFallback, InductiveInvariant, PTL DEF ObservedSpec

(* Under s16's metrics the failover keeps its promises: health is what     *)
(* failed, backups wait, every failure advances, the books balance, the    *)
(* quota is a ledger and nobody gains.                                     *)
THEOREM ObservedKeepsFailover ==
    ObservedSpec => /\ [](TypeOK /\ HealthIsWhatFailed /\ BackupsWait /\ SpendingAccounted)
                    /\ FailoverAdvances
                    /\ ImplementsLedger /\ []Holds!Covered /\ Holds!EndsOnce
  BY ObservedRefinesFallback, FailoversAdvance, FallbackTypeCorrect, HealthIsAlwaysWhatFailed, BackupsAlwaysWait,
     SpendingIsAccounted, FallbackImplementsLedger, FallbackNobodyGains, PTL
=============================================================================
