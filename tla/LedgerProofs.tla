---------------------------- MODULE LedgerProofs -----------------------------
(***************************************************************************)
(* What follows from Ledger alone, for any users and funds and any number  *)
(* of requests.  Every quota handler refines Ledger, so each of them       *)
(* inherits the theorems (NobodyGains in the handlers' proof modules).     *)
(***************************************************************************)
EXTENDS Ledger, TotalsProofs

CONSTANT NumRequests   \* requests are numbered, so that what they hold can be summed

Numbered == NumRequests \in Nat /\ Requests = 1..NumRequests

TypeOK ==
    /\ funds \in [Users -> Nat]
    /\ owner \in [Requests -> Users \cup {NoUser}]
    /\ phase \in [Requests -> Phases]
    /\ held \in [Requests -> Nat]
    /\ \A r \in Requests : phase[r] = "holding" => owner[r] \in Users

(* What requests hold of u's funds.                                        *)
Claims(u) == [r \in Requests |-> IF owner[r] = u THEN held[r] ELSE 0]

(* What a user can spend, with all that is held of it and may be given     *)
(* back, is never more than was deposited.                                 *)
Covered == \A u \in Users :
    funds[u] \in Nat /\ funds[u] + Total(Claims(u), NumRequests) <= Deposit[u]

IInv ==
    /\ TypeOK
    /\ \A r \in Requests : phase[r] # "holding" => held[r] = 0
    /\ Covered

-----------------------------------------------------------------------------
LEMMA ClaimsType ==
    ASSUME TypeOK, Numbered, NEW u \in Users
    PROVE  Claims(u) \in [1..NumRequests -> Nat] /\ Claims(u) \in [1..NumRequests -> Int]
  BY DEF Numbered, TypeOK, Claims

(* One request's part of the claims changes, and the funds of u with it.   *)
LEMMA ClaimsMove ==
    ASSUME Numbered, TypeOK, TypeOK', NEW u \in Users, NEW r \in Requests,
           \A q \in Requests \ {r} : owner'[q] = owner[q] /\ held'[q] = held[q]
    PROVE  /\ Total(Claims(u), NumRequests) \in Int
           /\ Total(Claims(u)', NumRequests) \in Int
           /\ Total(Claims(u)', NumRequests) = Total(Claims(u), NumRequests) + Claims(u)'[r] - Claims(u)[r]
<1>1. Claims(u) \in [1..NumRequests -> Int]
  BY ClaimsType
<1>2. Claims(u)' \in [1..NumRequests -> Int]
  BY DEF Numbered, TypeOK, Claims
<1>3. \A q \in 1..NumRequests : q # r => Claims(u)'[q] = Claims(u)[q]
  BY DEF Numbered, Claims
<1>4. QED
  BY <1>1, <1>2, <1>3, TotalUpdate, TotalInt DEF Numbered

LEMMA HoldKeeps ==
    ASSUME Numbered, Deposit \in [Users -> Nat], IInv,
           NEW r \in Requests, NEW u \in Users, NEW amount \in 0..funds[u], Hold(r, u, amount)
    PROVE  IInv'
<1> USE DEF IInv
<1>1. TypeOK' /\ \A q \in Requests : phase'[q] # "holding" => held'[q] = 0
  BY DEF Hold, TypeOK, Phases
<1>2. \A q \in Requests \ {r} : owner'[q] = owner[q] /\ held'[q] = held[q]
  BY DEF Hold, TypeOK
<1>3. held[r] = 0 /\ held'[r] = amount /\ owner'[r] = u /\ amount \in Nat
  BY DEF Hold, TypeOK
<1>4. ASSUME NEW v \in Users
      PROVE  funds'[v] + Total(Claims(v)', NumRequests) = funds[v] + Total(Claims(v), NumRequests)
  <2>1. Claims(v)[r] = 0 /\ Claims(v)'[r] = IF v = u THEN amount ELSE 0
    BY <1>3 DEF Claims
  <2>2. funds'[v] = (IF v = u THEN funds[v] - amount ELSE funds[v]) /\ funds[v] \in Nat
    BY DEF Hold, TypeOK
  <2>3. QED
    BY <1>1, <1>2, <1>3, <2>1, <2>2, ClaimsMove
<1>5. Covered'
  BY <1>1, <1>4 DEF Covered, TypeOK
<1>6. QED
  BY <1>1, <1>5

(* A hold ends, released (price 0) or captured.                            *)
LEMMA EndKeeps ==
    ASSUME Numbered, Deposit \in [Users -> Nat], IInv,
           NEW r \in Requests, phase[r] = "holding",
           NEW price \in 0..(held[r] + funds[owner[r]]), NEW end \in {"captured", "released"},
           funds' = [funds EXCEPT ![owner[r]] = @ + held[r] - price],
           phase' = [phase EXCEPT ![r] = end],
           held' = [held EXCEPT ![r] = 0],
           owner' = owner
    PROVE  IInv'
<1> USE DEF IInv
<1>1. owner[r] \in Users /\ held[r] \in Nat /\ funds[owner[r]] \in Nat /\ price \in Nat
  BY DEF TypeOK
<1>2. funds[owner[r]] + held[r] - price \in Nat
  BY <1>1
<1>3. TypeOK'
  BY <1>1, <1>2 DEF TypeOK, Phases
<1>4. \A q \in Requests : phase'[q] # "holding" => held'[q] = 0
  BY DEF TypeOK
<1>5. \A q \in Requests \ {r} : owner'[q] = owner[q] /\ held'[q] = held[q]
  BY DEF TypeOK
<1>6. ASSUME NEW v \in Users
      PROVE  funds'[v] + Total(Claims(v)', NumRequests) <= funds[v] + Total(Claims(v), NumRequests)
  <2>1. /\ Total(Claims(v), NumRequests) \in Int
        /\ Total(Claims(v)', NumRequests) = Total(Claims(v), NumRequests) + Claims(v)'[r] - Claims(v)[r]
    BY <1>3, <1>5, ClaimsMove
  <2>2. Claims(v)'[r] = 0 /\ funds[v] \in Nat
    BY DEF Claims, TypeOK
  <2>3. CASE owner[r] = v
    <3>1. Claims(v)[r] = held[r] /\ funds'[v] = funds[v] + held[r] - price
      BY <2>3 DEF Claims, TypeOK
    <3>2. QED
      BY <1>1, <2>1, <2>2, <3>1
  <2>4. CASE owner[r] # v
    <3>1. Claims(v)[r] = 0 /\ funds'[v] = funds[v]
      BY <2>4 DEF Claims, TypeOK
    <3>2. QED
      BY <2>1, <2>2, <3>1
  <2>5. QED
    BY <2>3, <2>4
<1>7. ASSUME NEW v \in Users
      PROVE  Total(Claims(v)', NumRequests) \in Int /\ Total(Claims(v), NumRequests) \in Int
  BY <1>3, <1>5, ClaimsMove
<1>8. Covered'
  <2> SUFFICES ASSUME NEW v \in Users
               PROVE  funds'[v] \in Nat /\ funds'[v] + Total(Claims(v)', NumRequests) <= Deposit[v]
    BY DEF Covered
  <2>1. funds'[v] \in Nat /\ funds[v] \in Nat
    BY <1>3 DEF TypeOK
  <2>2. funds[v] + Total(Claims(v), NumRequests) <= Deposit[v]
    BY DEF Covered
  <2>3. Deposit[v] \in Nat
    OBVIOUS
  <2>4. QED
    BY <1>6, <1>7, <2>1, <2>2, <2>3
<1>9. QED
  BY <1>3, <1>4, <1>8

LEMMA InitInv ==
    ASSUME Numbered, Deposit \in [Users -> Nat], Init
    PROVE  IInv
<1>1. TypeOK /\ \A r \in Requests : held[r] = 0
  BY DEF Init, TypeOK, Phases
<1>2. \A u \in Users : Total(Claims(u), NumRequests) = 0
  BY <1>1, ClaimsType, TotalZero DEF Numbered, Claims
<1>3. QED
  BY <1>1, <1>2 DEF Init, IInv, Covered, TypeOK

LEMMA InvStep ==
    ASSUME Numbered, Deposit \in [Users -> Nat], IInv, [Next]_ledgerVars
    PROVE  IInv'
<1>1. ASSUME NEW r \in Requests, NEW u \in Users, NEW amount \in 0..funds[u], Hold(r, u, amount)
      PROVE  IInv'
  BY <1>1, HoldKeeps
<1>2. ASSUME NEW r \in Requests, NEW u \in Users, owner[r] = u,
             NEW price \in 0..(held[r] + funds[u]), Capture(r, price)
      PROVE  IInv'
  BY <1>2, EndKeeps DEF Capture
<1>3. ASSUME NEW r \in Requests, Release(r)
      PROVE  IInv'
  <2>1. owner[r] \in Users /\ held[r] \in Nat /\ funds[owner[r]] \in Nat
    BY <1>3 DEF Release, IInv, TypeOK
  <2>2. funds[owner[r]] + held[r] = funds[owner[r]] + held[r] - 0
    BY <2>1
  <2>3. funds' = [funds EXCEPT ![owner[r]] = funds[owner[r]] + held[r] - 0]
    BY <1>3, <2>2 DEF Release
  <2>4. 0 \in 0..(held[r] + funds[owner[r]])
    BY <2>1
  <2>5. QED
    BY <1>3, <2>3, <2>4, EndKeeps DEF Release
<1>4. CASE UNCHANGED ledgerVars
  BY <1>4 DEF ledgerVars, IInv, TypeOK, Covered, Claims
<1>5. QED
  BY <1>1, <1>2, <1>3, <1>4 DEF Next

(* No order of holds, releases and captures lets a user gain: there is     *)
(* always at least as much deposited as can be spent or is still held.     *)
THEOREM LedgerCovers ==
    ASSUME Numbered, Deposit \in [Users -> Nat]
    PROVE  Spec => []Covered
<1>1. Init => IInv
  BY InitInv
<1>2. IInv /\ [Next]_ledgerVars => IInv'
  BY InvStep
<1>3. IInv => Covered
  BY DEF IInv
<1>4. QED
  BY <1>1, <1>2, <1>3, PTL DEF Spec

(* A hold is ended once: nothing happens to a request after its release or *)
(* its capture.                                                            *)
EndsOnce == [][\A r \in Requests : phase[r] \in {"captured", "released"} =>
    phase'[r] = phase[r] /\ owner'[r] = owner[r] /\ held'[r] = held[r]]_ledgerVars

(* No order of requests releases or captures the same hold twice.          *)
THEOREM HoldsEndOnce == Spec => EndsOnce
<1> DEFINE Functions == \A f \in {owner, phase, held} : f = [r \in Requests |-> f[r]]
           Stays(r) == phase'[r] = phase[r] /\ owner'[r] = owner[r] /\ held'[r] = held[r]
           Over(r) == phase[r] \in {"captured", "released"}
<1>1. Init => Functions
  BY DEF Init
<1>2. ASSUME Functions, Next
      PROVE  Functions' /\ \A r \in Requests : Over(r) => Stays(r)
  <2>1. ASSUME NEW q \in Requests, ~Over(q), NEW u, NEW p, NEW h,
               owner' = [owner EXCEPT ![q] = u] \/ owner' = owner,
               phase' = [phase EXCEPT ![q] = p],
               held' = [held EXCEPT ![q] = h]
        PROVE  Functions' /\ \A r \in Requests : Over(r) => Stays(r)
    BY <1>2, <2>1
  <2>2. ASSUME NEW q \in Requests, NEW u, NEW n, Hold(q, u, n)
        PROVE  Functions' /\ \A r \in Requests : Over(r) => Stays(r)
    BY <2>1, <2>2 DEF Hold
  <2>3. ASSUME NEW q \in Requests, (\E price : Capture(q, price)) \/ Release(q)
        PROVE  Functions' /\ \A r \in Requests : Over(r) => Stays(r)
    BY <2>1, <2>3 DEF Capture, Release
  <2>4. QED
    BY <1>2, <2>2, <2>3 DEF Next
<1>3. Functions /\ UNCHANGED ledgerVars => Functions'
  BY DEF ledgerVars
<1>4. Functions /\ [Next]_ledgerVars => [\A r \in Requests : Over(r) => Stays(r)]_ledgerVars
  BY <1>2
<1>5. Functions /\ [Next]_ledgerVars => Functions'
  BY <1>2, <1>3
<1> HIDE DEF Functions
<1>6. QED
  BY <1>1, <1>4, <1>5, PTL DEF Spec, EndsOnce
=============================================================================
