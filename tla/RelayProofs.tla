----------------------------- MODULE RelayProofs -----------------------------
(***************************************************************************)
(* The token bucket never overspends a window, and never charges for what  *)
(* was not used, for all limits, costs and lags; and the chapters' relays  *)
(* keep conversations, counts, reserves and the ledger, for all bodies,    *)
(* answers and numbers of requests, s08's in front of that bucket.         *)
(***************************************************************************)
EXTENDS Relays, TotalsProofs, SequenceTheorems

USE DEF Limits

(* What makes WindowBound inductive: the grants since any one of them,     *)
(* with what the bucket still holds, fit into a full bucket and the refill *)
(* up to the bucket's time stamp.                                          *)
Reserve ==
    /\ limits # None => tokens <= limits.capacity
    /\ \A i \in 1..Len(grants) :
          (Len(grants) - i + 1) * RequestCost + tokens
              <= limits.capacity + limits.refill * (last - grants[i])

IInv == TypeOK /\ Reserve /\ WindowBound /\ MissingIsSpent

-----------------------------------------------------------------------------
(* A refill is worth its time: splitting an interval splits the refill.    *)
LEMMA Distribute ==
    ASSUME NEW r \in Nat, NEW a \in Int, NEW b \in Int
    PROVE  /\ r * (a + b) = r * a + r * b
           /\ r * a \in Int
           /\ a >= 0 => r * a >= 0
  OBVIOUS

(* What take finds in the bucket: at most full, at most what was there and *)
(* the refill since, and less than full only if it is exactly that.        *)
LEMMA AvailableBounds ==
    ASSUME BucketAssumption, TypeOK, Reserve
    PROVE  /\ CurrentLimits \in Limits
           /\ Available \in Nat
           /\ Available <= CurrentLimits.capacity
           /\ limits # None =>
                /\ CurrentLimits = limits
                /\ limits.refill * (clock - last) \in Nat
                /\ tokens + limits.refill * (clock - last) \in Nat
                /\ Available <= tokens + limits.refill * (clock - last)
                /\ \/ Available = limits.capacity
                   \/ Available = tokens + limits.refill * (clock - last)
<1>1. CASE limits = None
  BY <1>1 DEF BucketAssumption, CurrentLimits, Available
<1>2. CASE limits # None
  <2>1. limits \in Limits /\ CurrentLimits = limits
    BY <1>2 DEF TypeOK, CurrentLimits
  <2>2. clock - last \in Nat
    BY DEF TypeOK
  <2>3. limits.refill * (clock - last) \in Nat
    BY <2>1, <2>2, Distribute
  <2>4. (clock - last) * limits.refill = limits.refill * (clock - last)
    BY <2>1, <2>2
  <2> QED
    BY <1>2, <2>1, <2>3, <2>4 DEF TypeOK, Available
<1> QED
  BY <1>1, <1>2

-----------------------------------------------------------------------------
LEMMA InitIInv == ASSUME BucketAssumption, Init PROVE IInv
  BY DEF BucketAssumption, Init, IInv, TypeOK, Reserve, WindowBound, MissingIsSpent

(* A grant at time t1, stamped t2: the bucket pays, and the window that    *)
(* ends at t1 still fits.                                                  *)
LEMMA GrantStep ==
    ASSUME BucketAssumption, IInv,
           NEW lag \in 0..MaxLag,
           Available >= RequestCost,
           limits' = CurrentLimits,
           tokens' = Available - RequestCost,
           last' = clock + lag,
           clock' = clock + lag,
           grants' = Append(grants, clock)
    PROVE  IInv'
<1> DEFINE n == Len(grants)
           L == CurrentLimits
<1>1. TypeOK /\ Reserve /\ WindowBound /\ MissingIsSpent
  BY DEF IInv
<1>2. /\ RequestCost \in Nat \ {0} /\ MaxLag \in Nat /\ lag \in Nat /\ lag <= MaxLag
      /\ None \notin Limits
  BY DEF BucketAssumption
<1>3. /\ L \in Limits /\ L.capacity \in Nat /\ L.refill \in Nat
      /\ Available \in Nat /\ Available <= L.capacity
  BY <1>1, AvailableBounds
<1>4. /\ n \in Nat /\ grants \in Seq(Nat)
      /\ clock \in Nat /\ last \in Nat /\ last <= clock /\ tokens \in Nat
  BY <1>1 DEF TypeOK
<1>5. /\ Len(grants') = n + 1
      /\ \A i \in 1..n : grants'[i] = grants[i] /\ grants[i] \in Nat
      /\ grants'[n + 1] = clock
  BY <1>4
<1>6. limits' = L /\ limits' # None
  BY <1>2, <1>3
<1>7. TypeOK'
  BY <1>2, <1>3, <1>4, <1>6 DEF TypeOK
<1>8. \A i \in 1..n : limits = L
  BY <1>1, <1>4 DEF TypeOK, CurrentLimits
<1>9. \A i \in 1..n :
        (n - i + 1) * RequestCost + Available <= L.capacity + L.refill * (clock - grants[i])
  <2> TAKE i \in 1..n
  <2>1. limits = L /\ limits # None
    BY <1>3, <1>8, <1>2
  <2>2. (n - i + 1) * RequestCost + tokens <= L.capacity + L.refill * (last - grants[i])
    BY <1>1, <2>1 DEF Reserve
  <2>3. Available <= tokens + L.refill * (clock - last)
    BY <1>1, <2>1, AvailableBounds
  <2>4. L.refill * (clock - grants[i])
          = L.refill * (last - grants[i]) + L.refill * (clock - last)
    <3>1. /\ last - grants[i] \in Int /\ clock - last \in Int
          /\ clock - grants[i] = (last - grants[i]) + (clock - last)
      BY <1>4, <1>5
    <3> QED
      BY <1>3, <3>1, Distribute
  <2>5. /\ (n - i + 1) * RequestCost \in Int
        /\ L.refill * (last - grants[i]) \in Int
        /\ L.refill * (clock - last) \in Int
    BY <1>2, <1>3, <1>4, <1>5
  <2> DEFINE spent == (n - i + 1) * RequestCost
             before == L.refill * (last - grants[i])
             since == L.refill * (clock - last)
  <2>6. /\ spent \in Int /\ before \in Int /\ since \in Int
        /\ spent + tokens <= L.capacity + before
        /\ Available <= tokens + since
    BY <2>2, <2>3, <2>5
  <2> HIDE DEF spent, before, since
  <2>7. spent + Available <= L.capacity + (before + since)
    BY <1>3, <1>4, <2>6
  <2> QED
    BY <2>4, <2>7 DEF spent, before, since
<1>10. \A i \in 1..n :
         (n + 1 - i + 1) * RequestCost + (Available - RequestCost)
             <= L.capacity + L.refill * (clock - grants[i])
  <2> TAKE i \in 1..n
  <2>1. (n + 1 - i + 1) * RequestCost = (n - i + 1) * RequestCost + RequestCost /\ (n - i + 1) * RequestCost \in Int
    BY <1>2, <1>4
  <2> QED
    BY <1>2, <1>3, <1>9, <2>1
<1>11. \A i \in 1..n :
         /\ L.refill * (clock + lag - grants[i])
              = L.refill * (clock - grants[i]) + L.refill * lag
         /\ L.refill * lag \in Nat
         /\ L.refill * (clock - grants[i]) \in Int
  <2> TAKE i \in 1..n
  <2>1. clock - grants[i] \in Int /\ clock + lag - grants[i] = (clock - grants[i]) + lag
    BY <1>2, <1>4, <1>5
  <2> QED
    BY <1>2, <1>3, <2>1, Distribute
<1>12. Reserve'
  <2>1. tokens' <= limits'.capacity
    BY <1>2, <1>3, <1>6
  <2>2. ASSUME NEW i \in 1..n
        PROVE  (n + 1 - i + 1) * RequestCost + tokens'
                  <= limits'.capacity + limits'.refill * (last' - grants'[i])
    <3> DEFINE spent == (n + 1 - i + 1) * RequestCost
               before == L.refill * (clock - grants[i])
               late == L.refill * lag
    <3>1. /\ spent \in Int /\ before \in Int /\ late \in Nat
          /\ spent + (Available - RequestCost) <= L.capacity + before
      BY <1>2, <1>4, <1>10, <1>11
    <3>2. limits'.refill * (last' - grants'[i]) = before + late
      <4>1. last' - grants'[i] = clock + lag - grants[i]
        BY <1>2, <1>4, <1>5
      <4>2. L.refill * (clock + lag - grants[i]) = before + late
        BY <1>11
      <4> QED
        BY <1>6, <4>1, <4>2
    <3> HIDE DEF spent, before, late
    <3>3. spent + (Available - RequestCost) <= L.capacity + (before + late)
      BY <1>2, <1>3, <3>1
    <3> QED
      BY <1>6, <3>2, <3>3 DEF spent
  <2>3. (n + 1 - (n + 1) + 1) * RequestCost + tokens'
           <= limits'.capacity + limits'.refill * (last' - grants'[n + 1])
    <3>1. last' - grants'[n + 1] = lag /\ L.refill * lag \in Nat
      BY <1>2, <1>3, <1>4, <1>5, Distribute
    <3>2. (n + 1 - (n + 1) + 1) * RequestCost = RequestCost
      BY <1>2, <1>4
    <3> QED
      BY <1>2, <1>3, <1>6, <3>1, <3>2
  <2>4. ASSUME NEW i \in 1..(n + 1)
        PROVE  (n + 1 - i + 1) * RequestCost + tokens'
                  <= limits'.capacity + limits'.refill * (last' - grants'[i])
    <3>1. CASE i \in 1..n
      BY <2>2, <3>1
    <3>2. CASE i = n + 1
      BY <2>3, <3>2
    <3> QED
      BY <1>4, <3>1, <3>2
  <2> QED
    BY <1>5, <2>1, <2>4 DEF Reserve
<1>13. WindowBound'
  <2> SUFFICES ASSUME NEW i \in 1..(n + 1), NEW j \in 1..(n + 1), i <= j
               PROVE  (j - i + 1) * RequestCost
                         <= L.capacity + L.refill * (grants'[j] - grants'[i])
    BY <1>5, <1>6 DEF WindowBound
  <2>1. CASE j \in 1..n
    <3>1. i \in 1..n /\ limits = L
      BY <1>4, <1>8, <2>1
    <3> QED
      BY <1>1, <1>5, <2>1, <3>1 DEF WindowBound
  <2>2. CASE j = n + 1 /\ i \in 1..n
    <3>1. (n + 1 - i + 1) * RequestCost \in Int
      BY <1>2, <1>4
    <3>2. L.refill * (clock - grants[i]) \in Int
      BY <1>11, <2>2
    <3>3. (n + 1 - i + 1) * RequestCost <= L.capacity + L.refill * (clock - grants[i])
      BY <1>2, <1>3, <1>10, <2>2, <3>1, <3>2
    <3> QED
      BY <1>5, <2>2, <3>3
  <2>3. CASE j = n + 1 /\ i = n + 1
    <3>1. (j - i + 1) * RequestCost = RequestCost
      BY <1>2, <1>4, <2>3
    <3>2. L.refill * (grants'[j] - grants'[i]) = 0
      BY <1>3, <1>4, <1>5, <2>3
    <3>3. RequestCost <= L.capacity + 0
      BY <1>2, <1>3
    <3> QED
      BY <3>1, <3>2, <3>3
  <2> QED
    BY <1>4, <2>1, <2>2, <2>3
<1>14. MissingIsSpent'
  <2> DEFINE Price == RequestCost + L.refill * MaxLag
  <2>1. L.refill * MaxLag \in Nat /\ Price \in Nat
    BY <1>2, <1>3, Distribute
  <2>2. L.refill * lag \in Nat /\ L.refill * lag <= L.refill * MaxLag
    <3>1. MaxLag - lag \in Nat /\ MaxLag = lag + (MaxLag - lag)
      BY <1>2
    <3>2. L.refill * MaxLag = L.refill * lag + L.refill * (MaxLag - lag)
      BY <1>2, <1>3, <3>1, Distribute
    <3>3. L.refill * (MaxLag - lag) >= 0 /\ L.refill * (MaxLag - lag) \in Int
      BY <1>3, <3>1, Distribute
    <3>4. L.refill * lag >= 0 /\ L.refill * lag \in Int
      BY <1>2, <1>3, Distribute
    <3> QED
      BY <3>2, <3>3, <3>4
  <2>3. CASE Available = L.capacity
    <3>1. L.capacity - tokens' = RequestCost
      BY <1>2, <1>3, <2>3
    <3>2. last' - grants'[n + 1] = lag
      BY <1>2, <1>4, <1>5
    <3>3. (n + 1 - (n + 1) + 1) * Price = Price
      BY <1>4, <2>1
    <3>4. L.capacity - tokens'
            <= (n + 1 - (n + 1) + 1) * Price - L.refill * (last' - grants'[n + 1])
      BY <1>2, <2>1, <2>2, <3>1, <3>2, <3>3
    <3>5. n + 1 = Len(grants') /\ n + 1 \in 1..Len(grants')
      BY <1>4, <1>5
    <3>6. L.capacity - tokens'
            <= (Len(grants') - (n + 1) + 1) * Price - L.refill * (last' - grants'[n + 1])
      BY <3>4, <3>5
    <3> QED
      BY <1>6, <3>5, <3>6 DEF MissingIsSpent
  <2>4. CASE Available # L.capacity
    <3>1. limits = L /\ limits # None
      BY <1>2, <1>3, <2>4 DEF CurrentLimits, Available
    <3>2. /\ Available = tokens + L.refill * (clock - last)
          /\ L.refill * (clock - last) \in Nat
      BY <1>1, <2>4, <3>1, AvailableBounds
    <3>3. tokens # L.capacity
      BY <1>3, <1>4, <2>4, <3>2
    <3>4. PICK i \in 1..n :
            L.capacity - tokens <= (n - i + 1) * Price - L.refill * (last - grants[i])
      BY <1>1, <3>1, <3>3 DEF MissingIsSpent
    <3>5. (n + 1 - i + 1) * Price = (n - i + 1) * Price + Price
          /\ (n - i + 1) * Price \in Int
      BY <1>4, <2>1
    <3>6. L.refill * (clock + lag - grants[i])
             = L.refill * (last - grants[i]) + L.refill * (clock - last) + L.refill * lag
      <4>1. /\ last - grants[i] \in Int /\ clock - last \in Int
            /\ clock - grants[i] = (last - grants[i]) + (clock - last)
        BY <1>4, <1>5
      <4>2. L.refill * (clock - grants[i])
               = L.refill * (last - grants[i]) + L.refill * (clock - last)
        BY <1>3, <4>1, Distribute
      <4> QED
        BY <1>11, <4>2
    <3> DEFINE spent == (n - i + 1) * Price
               before == L.refill * (last - grants[i])
               since == L.refill * (clock - last)
               late == L.refill * lag
    <3>7. spent \in Int /\ before \in Int /\ since \in Nat /\ late \in Nat
      <4>1. spent \in Int
        BY <3>5
      <4>2. before \in Int
        BY <1>3, <1>4, <1>5
      <4>3. since \in Nat /\ late \in Nat
        BY <2>2, <3>2
      <4> QED
        BY <4>1, <4>2, <4>3
    <3>8. /\ L.capacity - tokens <= spent - before
          /\ RequestCost + late <= Price
          /\ tokens' = tokens + since - RequestCost
      <4>1. L.capacity - tokens <= spent - before
        BY <3>4
      <4>2. RequestCost + late <= Price
        BY <1>2, <2>1, <2>2
      <4>3. tokens' = tokens + since - RequestCost
        BY <1>2, <1>4, <3>2
      <4> QED
        BY <4>1, <4>2, <4>3
    <3>9. L.capacity - tokens'
            <= (n + 1 - i + 1) * Price - L.refill * (clock + lag - grants[i])
      <4> HIDE DEF Price, spent, before, since, late
      <4>1. L.capacity - tokens' <= (spent + Price) - (before + since + late)
        BY <1>2, <1>3, <1>4, <2>1, <3>7, <3>8
      <4> QED
        BY <3>5, <3>6, <4>1 DEF spent, before, since, late
    <3>10. /\ n + 1 = Len(grants') /\ i \in 1..Len(grants')
           /\ grants'[i] = grants[i] /\ last' = clock + lag
      BY <1>4, <1>5
    <3>11. /\ Len(grants') - i + 1 = n + 1 - i + 1
           /\ last' - grants'[i] = clock + lag - grants[i]
      BY <1>2, <1>4, <1>5, <3>10
    <3>12. L.capacity - tokens'
             <= (Len(grants') - i + 1) * Price - L.refill * (last' - grants'[i])
      BY <3>9, <3>11
    <3> QED
      BY <1>6, <3>10, <3>12 DEF MissingIsSpent
  <2> QED
    BY <2>3, <2>4
<1> QED
  BY <1>7, <1>12, <1>13, <1>14 DEF IInv

(* A denial only brings the bucket up to date.                             *)
LEMMA DenyStep ==
    ASSUME BucketAssumption, IInv,
           limits' = CurrentLimits,
           tokens' = Available,
           last' = clock,
           UNCHANGED <<clock, grants>>
    PROVE  IInv'
<1> DEFINE n == Len(grants)
           L == CurrentLimits
<1>1. TypeOK /\ Reserve /\ WindowBound /\ MissingIsSpent
  BY DEF IInv
<1>2. RequestCost \in Nat \ {0} /\ MaxLag \in Nat /\ None \notin Limits
  BY DEF BucketAssumption
<1>3. /\ L \in Limits /\ L.capacity \in Nat /\ L.refill \in Nat
      /\ Available \in Nat /\ Available <= L.capacity
  BY <1>1, AvailableBounds
<1>4. /\ n \in Nat /\ grants \in Seq(Nat) /\ \A i \in 1..n : grants[i] \in Nat
      /\ clock \in Nat /\ last \in Nat /\ last <= clock /\ tokens \in Nat
  BY <1>1 DEF TypeOK
<1>5. limits' = L /\ limits' # None
  BY <1>2, <1>3
<1>6. TypeOK'
  BY <1>3, <1>4, <1>5 DEF TypeOK
<1>7. \A i \in 1..n : limits = L
  BY <1>1, <1>4 DEF TypeOK, CurrentLimits
<1>8. \A i \in 1..n :
        L.refill * (clock - grants[i])
          = L.refill * (last - grants[i]) + L.refill * (clock - last)
  <2> TAKE i \in 1..n
  <2>1. /\ last - grants[i] \in Int /\ clock - last \in Int
        /\ clock - grants[i] = (last - grants[i]) + (clock - last)
    BY <1>4
  <2> QED
    BY <1>3, <2>1, Distribute
<1>9. \A i \in 1..n : L.refill * (last - grants[i]) \in Int
  BY <1>3, <1>4
<1>10. Reserve'
  <2>1. ASSUME NEW i \in 1..n
        PROVE  (n - i + 1) * RequestCost + Available
                  <= L.capacity + L.refill * (clock - grants[i])
    <3>1. limits = L /\ limits # None
      BY <1>2, <1>3, <1>7
    <3>2. (n - i + 1) * RequestCost + tokens <= L.capacity + L.refill * (last - grants[i])
      BY <1>1, <3>1 DEF Reserve
    <3>3. /\ Available <= tokens + L.refill * (clock - last)
          /\ L.refill * (clock - last) \in Nat
      BY <1>1, <3>1, AvailableBounds
    <3> DEFINE spent == (n - i + 1) * RequestCost
               before == L.refill * (last - grants[i])
               since == L.refill * (clock - last)
    <3>4. /\ spent \in Int /\ before \in Int /\ since \in Nat
          /\ spent + tokens <= L.capacity + before
          /\ Available <= tokens + since
      BY <1>2, <1>4, <1>9, <3>2, <3>3
    <3>5. L.refill * (clock - grants[i]) = before + since
      BY <1>8
    <3> HIDE DEF spent, before, since
    <3>6. spent + Available <= L.capacity + (before + since)
      BY <1>3, <1>4, <3>4
    <3> QED
      BY <3>5, <3>6 DEF spent
  <2> QED
    BY <1>3, <1>5, <2>1 DEF Reserve
<1>11. WindowBound'
  BY <1>1, <1>5, <1>7 DEF WindowBound
<1>12. MissingIsSpent'
  <2>1. CASE Available = L.capacity
    BY <1>5, <2>1 DEF MissingIsSpent
  <2>2. CASE Available # L.capacity
    <3>1. limits = L /\ limits # None
      BY <1>2, <1>3, <2>2 DEF CurrentLimits, Available
    <3>2. /\ Available = tokens + L.refill * (clock - last)
          /\ L.refill * (clock - last) \in Nat
      BY <1>1, <2>2, <3>1, AvailableBounds
    <3>3. tokens # L.capacity
      BY <1>3, <1>4, <2>2, <3>2
    <3>4. PICK i \in 1..n :
            L.capacity - tokens
              <= (n - i + 1) * (RequestCost + L.refill * MaxLag) - L.refill * (last - grants[i])
      BY <1>1, <3>1, <3>3 DEF MissingIsSpent
    <3>5. (n - i + 1) * (RequestCost + L.refill * MaxLag) \in Int
      BY <1>2, <1>3, <1>4
    <3> DEFINE spent == (n - i + 1) * (RequestCost + L.refill * MaxLag)
               before == L.refill * (last - grants[i])
               since == L.refill * (clock - last)
    <3>6. /\ spent \in Int /\ before \in Int /\ since \in Nat
          /\ L.capacity - tokens <= spent - before
          /\ tokens' = tokens + since
      BY <1>9, <3>2, <3>4, <3>5
    <3>7. L.refill * (clock - grants[i]) = before + since
      BY <1>8
    <3>8. L.capacity - tokens'
            <= (n - i + 1) * (RequestCost + L.refill * MaxLag) - L.refill * (clock - grants[i])
      <4> HIDE DEF spent, before, since
      <4>1. L.capacity - tokens' <= spent - (before + since)
        BY <1>3, <1>4, <3>6
      <4> QED
        BY <3>7, <4>1 DEF spent
    <3> QED
      BY <1>5, <3>8 DEF MissingIsSpent
  <2> QED
    BY <2>1, <2>2
<1> QED
  BY <1>6, <1>10, <1>11, <1>12 DEF IInv

LEMMA NextIInv == ASSUME BucketAssumption, IInv, [Next]_vars PROVE IInv'
<1>1. CASE Grant
  BY <1>1, GrantStep DEF Grant
<1>2. CASE Deny
  BY <1>2, DenyStep DEF Deny
<1>3. ASSUME NEW config \in Configs, Configure(config)
      PROVE  IInv'
  BY <1>3 DEF BucketAssumption, Configure, IInv, TypeOK, Reserve, WindowBound, MissingIsSpent
<1>4. CASE Wait
  BY <1>4 DEF BucketAssumption, Wait, IInv, TypeOK, Reserve, WindowBound, MissingIsSpent
<1>5. CASE UNCHANGED vars
  BY <1>5 DEF vars, IInv, TypeOK, Reserve, WindowBound, MissingIsSpent
<1> QED
  BY <1>1, <1>2, <1>3, <1>4, <1>5 DEF Next

LEMMA Invariance == Spec => []IInv
<1>1. Init => IInv
  BY BucketAssumption, InitIInv
<1>2. IInv /\ [Next]_vars => IInv'
  BY BucketAssumption, NextIInv
<1> QED
  BY <1>1, <1>2, PTL DEF Spec

(* No order of takes, waits and configurations overdraws a bucket.         *)
THEOREM BucketTypeCorrect == Spec => []TypeOK
<1>1. IInv => TypeOK
  BY DEF IInv
<1> QED
  BY <1>1, Invariance, PTL

(* The limiter keeps its promise for every limit, cost and lag, and for    *)
(* every pair of requests it let through.                                  *)
THEOREM WindowsAreBounded == Spec => []WindowBound
<1>1. IInv => WindowBound
  BY DEF IInv
<1> QED
  BY <1>1, Invariance, PTL

(* A user is only ever denied for requests that were let through.          *)
THEOREM OnlySpentTokensAreMissing == Spec => []MissingIsSpent
<1>1. IInv => MissingIsSpent
  BY DEF IInv
<1> QED
  BY <1>1, Invariance, PTL
-----------------------------------------------------------------------------
(***************************************************************************)
(* The relays.  Counts are numbers.                                        *)
(***************************************************************************)
LEMMA AtLeastNat ==
    ASSUME NEW n \in Nat, NEW k \in Int
    PROVE  AtLeast(n, k) \in Nat /\ AtLeast(n, k) >= n /\ (k <= n => AtLeast(n, k) = n)
  BY DEF AtLeast

LEMMA Elements ==
    ASSUME NEW S, NEW m \in Seq(S)
    PROVE  Len(m) \in Nat /\ DOMAIN m = 1..Len(m) /\ \A i \in DOMAIN m : m[i] \in S
  OBVIOUS

LEMMA CountsNat ==
    ASSUME NEW m \in Seq([role : Roles, text : Text])
    PROVE  CountOpenAI(m) \in Nat /\ CountEstimate(m) \in Nat
<1> DEFINE T == [i \in DOMAIN m |-> 4 + m[i].text.tokens]
           C == [i \in DOMAIN m |-> m[i].text.chars]
<1>1. /\ Len(m) \in Nat /\ DOMAIN m = 1..Len(m)
      /\ \A i \in DOMAIN m : m[i] \in [role : Roles, text : Text]
  BY Elements
<1>2. \A i \in DOMAIN m : m[i].text.tokens \in Nat /\ m[i].text.chars \in Nat
  BY <1>1 DEF Text
<1>3. T \in [1..Len(m) -> Nat] /\ C \in [1..Len(m) -> Nat]
  BY <1>1, <1>2
<1>4. Total(T, Len(m)) \in Nat /\ Total(C, Len(m)) \in Nat
  BY <1>1, <1>3, TotalNat
<1>5. CountOpenAI(m) = 2 + Total(T, Len(m))
  BY DEF CountOpenAI
<1>6. CountEstimate(m) = AtLeast(1, Total(C, Len(m)) \div 4)
  BY DEF CountEstimate
<1> HIDE DEF T, C
<1>7. AtLeast(1, Total(C, Len(m)) \div 4) \in Nat
  <2>1. Total(C, Len(m)) \div 4 \in Int
    BY <1>4
  <2>2. QED
    BY <2>1, AtLeastNat
<1>8. QED
  BY <1>4, <1>5, <1>6, <1>7

LEMMA LocalCountNat ==
    ASSUME NEW body \in Body
    PROVE  LocalCount(body) \in Nat
<1>1. body.messages \in Seq([role : Roles, text : Text])
  BY DEF Body
<1>2. QED
  BY <1>1, CountsNat DEF LocalCount, CountPrompt

LEMMA CountLengthNat ==
    ASSUME NEW chars \in Nat
    PROVE  CountLength(chars) \in Nat /\ CountLength(chars) >= 1
  BY AtLeastNat DEF CountLength

LEMMA AcceptedBody ==
    ASSUME RelayAssumption, NEW body \in Bodies
    PROVE  Accepted(body) \in Body
<1>1. body \in Body
  BY DEF RelayAssumption
<1> DEFINE max == IF app \in {"s02", "s04", "s05"} \cup Billed THEN body.maxTokens ELSE None
           sys == IF app \in {"s04", "s05"} THEN body.system ELSE None
           stream == app \in {"s02", "s03"} /\ body.stream
<1>2. /\ max \in Int \cup {None} /\ sys \in Text \cup {None} /\ stream \in BOOLEAN
      /\ body.family \in Families
      /\ body.messages \in Seq([role : Roles, text : Text])
  BY <1>1 DEF Body
<1>3. Accepted(body) = [family |-> body.family, messages |-> body.messages, maxTokens |-> max,
                        system |-> sys, stream |-> stream]
  BY <1>1 DEF Accepted, Body
<1> HIDE DEF max, sys, stream
<1>4. QED
  BY <1>2, <1>3 DEF Body

LEMMA EstimatedInt ==
    ASSUME RelayAssumption, NEW body \in Body
    PROVE  Estimated(body) \in Int
<1>1. body.maxTokens \in Int \cup {None} /\ DefaultMaxTokens \in Int
  BY DEF RelayAssumption, Body
<1>2. QED
  BY <1>1, LocalCountNat DEF Estimated, Q!Estimate, Q!RATE_PER_TOKEN

-----------------------------------------------------------------------------
(* What the upstream is known to be, and what is billed for an answer.     *)
LEMMA ProviderKnown ==
    ASSUME NEW body \in Body, Provider(body) # None
    PROVE  Provider(body) \in {"openai", "claude", "gemini"}
<1>1. body.family \in Families
  BY DEF Body
<1>2. QED
  BY <1>1 DEF Provider, PickProvider, Families

(* The counts of an answer, as the adapters pass them on.                  *)
LEMMA UsageRead ==
    ASSUME RelayAssumption, NEW a \in Answers, NEW provider \in {"openai", "claude", "gemini"}
    PROVE  LET usage == UsageFromUpstream(provider, a.usage)
           IN  /\ usage \in [prompt : Nat \cup {None}, completion : Nat \cup {None},
                             total : Nat \cup {None}]
               /\ OrZero(usage.prompt) = OrZero(a.usage.prompt)
               /\ OrZero(a.usage.prompt) \in Nat
               /\ a.usage.completion # None => usage.completion = a.usage.completion
               /\ usage.completion = None => provider = "openai"
               /\ usage.completion = 0 =>
                     a.usage.completion = 0 \/ (a.usage.completion = None /\ provider # "openai")
               /\ OrZero(a.chars) \in Nat
<1>1. /\ a.usage \in [prompt : Nat \cup {None}, completion : Nat \cup {None},
                      total : Nat \cup {None}]
      /\ a.chars \in Nat \cup {None}
      /\ None \notin Int
  BY DEF RelayAssumption, Answer
<1>2. /\ OrZero(a.usage.prompt) \in Nat /\ OrZero(a.usage.completion) \in Nat
      /\ OrZero(a.usage.total) \in Nat /\ OrZero(a.chars) \in Nat
      /\ OrZero(OrZero(a.usage.prompt)) = OrZero(a.usage.prompt)
      /\ a.usage.completion # None => OrZero(a.usage.completion) = a.usage.completion
      /\ OrZero(a.usage.completion) # None
      /\ OrZero(a.usage.completion) = 0 => a.usage.completion \in {0, None}
  BY <1>1 DEF OrZero
<1> DEFINE usage == UsageFromUpstream(provider, a.usage)
           ReadAs(u) ==
             /\ u \in [prompt : Nat \cup {None}, completion : Nat \cup {None},
                       total : Nat \cup {None}]
             /\ OrZero(u.prompt) = OrZero(a.usage.prompt)
             /\ a.usage.completion # None => u.completion = a.usage.completion
             /\ u.completion = None => provider = "openai"
             /\ u.completion = 0 =>
                   a.usage.completion = 0 \/ (a.usage.completion = None /\ provider # "openai")
<1>3. ASSUME provider = "openai" PROVE ReadAs(usage)
  <2>1. usage = a.usage
    BY <1>3 DEF UsageFromUpstream
  <2>2. QED
    BY <1>1, <1>3, <2>1
<1>4. ASSUME provider = "claude" PROVE ReadAs(usage)
  <2>1. /\ usage.prompt = OrZero(a.usage.prompt)
        /\ usage.completion = OrZero(a.usage.completion)
        /\ usage \in [prompt : Nat, completion : Nat, total : Nat]
    BY <1>2, <1>4 DEF UsageFromUpstream, ClaudeUsage
  <2> HIDE DEF usage
  <2>2. usage \in [prompt : Nat \cup {None}, completion : Nat \cup {None}, total : Nat \cup {None}]
    BY <2>1
  <2>3. QED
    BY <1>2, <1>4, <2>1, <2>2
<1>5. ASSUME provider = "gemini" PROVE ReadAs(usage)
  <2>1. /\ usage.prompt = OrZero(a.usage.prompt)
        /\ usage.completion = OrZero(a.usage.completion)
        /\ usage \in [prompt : Nat, completion : Nat, total : Nat]
    BY <1>2, <1>5 DEF UsageFromUpstream, GeminiUsage
  <2> HIDE DEF usage
  <2>2. usage \in [prompt : Nat \cup {None}, completion : Nat \cup {None}, total : Nat \cup {None}]
    BY <2>1
  <2>3. QED
    BY <1>2, <1>5, <2>1, <2>2
<1>6. ReadAs(usage)
  BY <1>3, <1>4, <1>5
<1> HIDE DEF usage
<1>7. QED
  BY <1>2, <1>6 DEF usage

(* What s07 and s08 bill.                                                  *)
LEMMA BilledCounts ==
    ASSUME RelayAssumption, NEW a \in Answers, NEW body \in Body, Provider(body) # None
    PROVE  LET usage == UsageFromUpstream(Provider(body), a.usage)
               billed == BilledUsage(LocalCount(body), usage, OrZero(a.chars))
           IN  /\ billed.prompt \in Nat /\ billed.completion \in Nat /\ billed.total \in Nat
               /\ billed.total = billed.prompt + billed.completion
               /\ billed.prompt >= LocalCount(body)
               /\ OrZero(a.usage.prompt) <= LocalCount(body) => billed.prompt = LocalCount(body)
               /\ a.usage.completion # None => billed.completion = a.usage.completion
               /\ billed.completion = 0 =>
                     \/ a.usage.completion = 0
                     \/ a.usage.completion = None /\ Provider(body) # "openai"
<1> DEFINE usage == UsageFromUpstream(Provider(body), a.usage)
           local == LocalCount(body)
           chars == OrZero(a.chars)
<1>1. Provider(body) \in {"openai", "claude", "gemini"}
  BY ProviderKnown
<1>2. /\ usage.prompt \in Nat \cup {None} /\ usage.completion \in Nat \cup {None}
      /\ OrZero(usage.prompt) = OrZero(a.usage.prompt)
      /\ OrZero(a.usage.prompt) \in Nat
      /\ a.usage.completion # None => usage.completion = a.usage.completion
      /\ usage.completion = 0 =>
            a.usage.completion = 0 \/ (a.usage.completion = None /\ Provider(body) # "openai")
      /\ chars \in Nat
  BY <1>1, UsageRead
<1>3. local \in Nat
  BY LocalCountNat
<1> HIDE DEF usage, local, chars
<1>4. CountLength(chars) \in Nat /\ CountLength(chars) >= 1
  BY <1>2, CountLengthNat
<1>5. /\ AtLeast(local, OrZero(usage.prompt)) \in Nat
      /\ AtLeast(local, OrZero(usage.prompt)) >= local
      /\ OrZero(a.usage.prompt) <= local => AtLeast(local, OrZero(usage.prompt)) = local
  <2>1. OrZero(usage.prompt) \in Int
    BY <1>2
  <2>2. QED
    BY <1>2, <1>3, <2>1, AtLeastNat
<1> DEFINE billed == BilledUsage(local, usage, chars)
           completion == IF usage.completion = None THEN CountLength(chars) ELSE usage.completion
<1>6. /\ billed.prompt = AtLeast(local, OrZero(usage.prompt))
      /\ billed.completion = completion
      /\ billed.total = AtLeast(local, OrZero(usage.prompt)) + completion
  BY DEF BilledUsage
<1>7. /\ completion \in Nat
      /\ a.usage.completion # None => completion = a.usage.completion
      /\ completion = 0 =>
            a.usage.completion = 0 \/ (a.usage.completion = None /\ Provider(body) # "openai")
  BY <1>2, <1>4
<1> HIDE DEF billed, completion
<1>8. /\ billed.prompt \in Nat /\ billed.completion \in Nat /\ billed.total \in Nat
      /\ billed.total = billed.prompt + billed.completion
      /\ billed.prompt >= local
      /\ OrZero(a.usage.prompt) <= local => billed.prompt = local
      /\ a.usage.completion # None => billed.completion = a.usage.completion
      /\ billed.completion = 0 =>
            a.usage.completion = 0 \/ (a.usage.completion = None /\ Provider(body) # "openai")
  BY <1>3, <1>5, <1>6, <1>7
<1>9. QED
  BY <1>8 DEF billed, usage, local, chars
-----------------------------------------------------------------------------
(* The handlers' part of RelayTypeOK.                                      *)
HandlerTypeOK ==
    /\ app \in Apps
    /\ balance \in Nat
    /\ pc \in [Requests -> {"idle", "posted", "streaming"} \cup Ended]
    /\ call \in [Requests -> Body \cup {None}]
    /\ estimate \in [Requests -> Nat]
    /\ answer \in [Requests -> Answer \cup {None}]
    /\ charged \in [Requests -> Nat \cup {None}]
    /\ status \in [Requests -> {None, 200} \cup 400..599]
    /\ \A r \in Requests :
          /\ status[r] = None <=> pc[r] \in {"idle", "posted"}
          /\ call[r] = None <=> pc[r] \in {"idle", "refused"}

(* HandlerTypeOK says too little of a request for the next step: what was    *)
(* sent and reserved is what its body says, what it was told is what the   *)
(* upstream's answer says, and only bills come with a charge.  What is     *)
(* billed is not streamed.                                                 *)
Memory(r) ==
    /\ call[r] = None => sent[r] = None
    /\ call[r] # None =>
         /\ Provider(call[r]) # None
         /\ sent[r] = ToUpstream(Provider(call[r]), call[r])
         /\ estimate[r] = Estimated(call[r])
    /\ told[r] # None =>
         /\ call[r] # None /\ answer[r] \in Answers
         /\ told[r] = ToldUsage(r, answer[r])
         /\ app \in Billed => charged[r] = told[r].total * Q!RATE_PER_TOKEN
    /\ charged[r] # None =>
         /\ app \in Billed /\ call[r] # None /\ answer[r] \in Answers
         /\ told[r] = ToldUsage(r, answer[r])
         /\ charged[r] = told[r].total * Q!RATE_PER_TOKEN

Remembered ==
    /\ sent = [r \in Requests |-> sent[r]]
    /\ told = [r \in Requests |-> told[r]]
    /\ \A r \in Requests : Memory(r)

Streamed == {"streaming", "relayed", "cut"}

Unstreamed == app \in Billed => \A r \in Requests : pc[r] \notin Streamed

RelayIInv == HandlerTypeOK /\ Remembered /\ Unstreamed

-----------------------------------------------------------------------------
(* The steps of a request, as far as quota and memory are concerned.       *)
Refuses(r) ==
    /\ pc[r] = "idle"
    /\ \E code \in 400..599 : Goto(r, "refused", code)
    /\ UNCHANGED <<app, balance, call, sent, estimate, answer, told, charged>>

Posts(r, body) ==
    /\ pc[r] = "idle"
    /\ body \in Body
    /\ Provider(body) # None
    /\ Estimated(body) \in 0..balance
    /\ balance' = balance - Estimated(body)
    /\ estimate' = [estimate EXCEPT ![r] = Estimated(body)]
    /\ call' = [call EXCEPT ![r] = body]
    /\ sent' = [sent EXCEPT ![r] = ToUpstream(Provider(body), body)]
    /\ \/ Goto(r, "posted", None)
       \/ app = "s03" /\ Goto(r, "streaming", 200)
    /\ UNCHANGED <<app, answer, told, charged>>

Returns(r) ==
    /\ pc[r] = "posted"
    /\ balance' = balance + estimate[r]
    /\ \E code \in 400..599 : Goto(r, "failed", code)
    /\ UNCHANGED <<app, call, sent, estimate, answer, told, charged>>

(* Ends without the handler settling or refunding.                         *)
Keeps(r) ==
    /\ \/ /\ pc[r] = "posted"
          /\ \/ app \in Billed /\ Goto(r, "stranded", 500)
             \/ app \notin Billed /\ (Goto(r, "failed", 500) \/ Goto(r, "answered", 200))
       \/ /\ pc[r] = "streaming"
          /\ \E how \in {"relayed", "cut"} : pc' = [pc EXCEPT ![r] = how]
          /\ UNCHANGED status
    /\ UNCHANGED <<app, balance, call, sent, estimate, answer, told, charged>>

Answers200(r, a, price) ==
    /\ pc[r] = "posted"
    /\ answer' = [answer EXCEPT ![r] = a]
    /\ told' = [told EXCEPT ![r] = ToldUsage(r, a)]
    /\ \/ /\ app \in Billed
          /\ price \in 0..(balance + estimate[r])
          /\ balance' = balance + estimate[r] - price
          /\ charged' = [charged EXCEPT ![r] = ToldUsage(r, a).total * Q!RATE_PER_TOKEN]
          /\ ToldUsage(r, a).total \in Nat
       \/ app \notin Billed /\ UNCHANGED <<balance, charged>>
    /\ Goto(r, "answered", 200)
    /\ UNCHANGED <<app, call, sent, estimate>>

(* Paid for, and a 500.                                                    *)
Pays(r, price) ==
    /\ pc[r] = "posted"
    /\ app \in Billed
    /\ price \in 0..(balance + estimate[r])
    /\ balance' = balance + estimate[r] - price
    /\ Goto(r, "unrendered", 500)
    /\ UNCHANGED <<app, call, sent, estimate, answer, told, charged>>

RelayStep ==
    \/ UNCHANGED relayVars
    \/ \E r \in Requests :
         \/ Refuses(r)
         \/ \E body \in Body : Posts(r, body)
         \/ Returns(r)
         \/ Keeps(r)
         \/ \E a \in Answers, price \in Nat : Answers200(r, a, price)
         \/ \E price \in Nat : Pays(r, price)

LEMMA CallKnown ==
    ASSUME RelayAssumption, RelayIInv, NEW r \in Requests, pc[r] \notin {"idle", "refused"}
    PROVE  call[r] # None /\ call[r] \in Body /\ Provider(call[r]) # None
  BY DEF RelayIInv, HandlerTypeOK, Remembered, Memory

LEMMA BilledAreAdapted == Billed \subseteq Adapted /\ "s03" \notin Billed /\ "s06" \notin Billed
  BY DEF Billed, Adapted

(* An estimate that is deducted is covered.                                *)
LEMMA Covered ==
    ASSUME RelayAssumption, HandlerTypeOK, NEW body \in Body, Q!CanDeduct(balance, Estimated(body))
    PROVE  /\ Estimated(body) \in 0..balance
           /\ Q!Deducted(balance, Estimated(body)) = balance - Estimated(body)
           /\ Q!Refunded(Q!Deducted(balance, Estimated(body)), Estimated(body)) = balance
<1>1. balance \in Nat /\ Estimated(body) \in Int
  BY EstimatedInt DEF HandlerTypeOK
<1>2. QED
  BY <1>1 DEF Q!CanDeduct, Q!Deducted, Q!Refunded

LEMMA ArriveIsStep ==
    ASSUME RelayAssumption, RelayIInv, NEW r \in Requests, Arrive(r)
    PROVE  Refuses(r) \/ \E body \in Body : Posts(r, body)
<1>0. pc[r] = "idle" /\ HandlerTypeOK
  BY DEF Arrive, RelayIInv
<1>1. CASE TurnedAway(r)
  <2>1. PICK code \in {422} \cup IF app \in Keyed THEN {401} ELSE {} : Goto(r, "refused", code)
    BY <1>1 DEF TurnedAway
  <2>2. code \in 400..599
    BY <2>1
  <2>3. QED
    BY <1>0, <1>1, <2>1, <2>2 DEF TurnedAway, Refuses
<1>2. CASE Limited(r)
  <2>1. 429 \in 400..599
    OBVIOUS
  <2>2. QED
    BY <1>0, <1>2, <2>1 DEF Limited, Refuses
<1>3. CASE Uncountable(r)
  <2>1. 500 \in 400..599
    OBVIOUS
  <2>2. QED
    BY <1>0, <1>3, <2>1 DEF Uncountable, Refuses
<1>4. ASSUME NEW plain \in Bodies,
             \/ NotDeducted(r, Accepted(plain))
             \/ UnknownModel(r, Accepted(plain))
             \/ Forward(r, Accepted(plain))
      PROVE  Refuses(r) \/ \E body \in Body : Posts(r, body)
  <2> DEFINE body == Accepted(plain)
  <2>0. body \in Body
    BY AcceptedBody
  <2> HIDE DEF body
  <2>1. CASE NotDeducted(r, body)
    <3>1. (IF Estimated(body) < 0 THEN 500 ELSE 402) \in 400..599
      OBVIOUS
    <3>2. QED
      BY <1>0, <2>1, <3>1 DEF NotDeducted, Refuses
  <2>2. CASE UnknownModel(r, body)
    <3>1. balance' = balance
      BY <1>0, <2>0, <2>2, Covered DEF UnknownModel
    <3>2. 400 \in 400..599
      OBVIOUS
    <3>3. QED
      BY <1>0, <2>2, <3>1, <3>2 DEF UnknownModel, Refuses
  <2>3. CASE Forward(r, body)
    <3>1. Estimated(body) \in 0..balance /\ balance' = balance - Estimated(body)
      BY <1>0, <2>0, <2>3, Covered DEF Forward
    <3>2. Goto(r, "posted", None) \/ (app = "s03" /\ Goto(r, "streaming", 200))
      BY <2>3 DEF Forward
    <3>3. Posts(r, body)
      BY <1>0, <2>0, <2>3, <3>1, <3>2 DEF Forward, Posts
    <3>4. QED
      BY <2>0, <3>3
  <2>4. QED
    BY <1>4, <2>1, <2>2, <2>3 DEF body
<1>5. QED
  BY <1>1, <1>2, <1>3, <1>4 DEF Arrive

LEMMA FailsIsReturn ==
    ASSUME RelayAssumption, RelayIInv, NEW r \in Requests, NEW code \in 400..599, Fails(r, code)
    PROVE  Returns(r)
  BY DEF Fails, Returns, Q!Refunded

(* What a settlement leaves of a hold is its price.                        *)
LEMMA SettledPrice ==
    \A b, n, actual \in Nat :
        \/ Q!QuotaSettled(b, n, actual) = b
        \/ actual <= b + n /\ Q!QuotaSettled(b, n, actual) = b + n - actual
<1> TAKE b, n, actual \in Nat
<1>1. CASE actual > n /\ b < actual - n
  BY <1>1 DEF Q!QuotaSettled, Q!Deducted, Q!CanDeduct
<1>2. CASE actual > n /\ ~(b < actual - n)
  <2>1. Q!QuotaSettled(b, n, actual) = b - (actual - n)
    BY <1>2 DEF Q!QuotaSettled, Q!Deducted, Q!CanDeduct
  <2>2. QED
    BY <1>2, <2>1
<1>3. CASE ~(actual > n)
  <2>1. Q!QuotaSettled(b, n, actual) = b + (n - actual)
    BY <1>3 DEF Q!QuotaSettled, Q!Refunded
  <2>2. QED
    BY <1>3, <2>1
<1>4. QED
  BY <1>1, <1>2, <1>3

(* A bill is a number, and its settlement's price is covered.              *)
LEMMA Priced ==
    ASSUME RelayAssumption, RelayIInv, NEW r \in Requests, NEW a \in Answers,
           pc[r] = "posted", app \in Billed
    PROVE  /\ ToldUsage(r, a).total \in Nat
           /\ \E price \in 0..(balance + estimate[r]) :
                 Settlement(r, a) = balance + estimate[r] - price
<1> DEFINE usage == ToldUsage(r, a)
           actual == Actual(r, a)
           n == estimate[r]
<1>1. usage.total \in Nat
  <2>1. call[r] \in Body /\ Provider(call[r]) # None
    BY CallKnown
  <2>2. usage = BilledUsage(LocalCount(call[r]),
                            UsageFromUpstream(Provider(call[r]), a.usage), OrZero(a.chars))
    BY DEF ToldUsage, Billed, Counted
  <2>3. QED
    BY <2>1, <2>2, BilledCounts
<1>2. actual \in Nat
  BY <1>1 DEF Q!RATE_PER_TOKEN, Actual
<1>3. n \in Nat /\ balance \in Nat
  BY DEF RelayIInv, HandlerTypeOK
<1> HIDE DEF actual, n
<1>4. \/ Q!QuotaSettled(balance, n, actual) = balance
      \/ actual <= balance + n /\ Q!QuotaSettled(balance, n, actual) = balance + n - actual
  BY <1>2, <1>3, SettledPrice
<1>5. Settlement(r, a) = Q!QuotaSettled(balance, n, actual)
  BY DEF Settlement, actual, n
<1>6. CASE Settlement(r, a) = balance
  <2>1. n \in 0..(balance + n) /\ Settlement(r, a) = balance + n - n
    BY <1>3, <1>6
  <2>2. QED
    BY <1>1, <2>1 DEF n
<1>7. CASE actual <= balance + n /\ Settlement(r, a) = balance + n - actual
  <2>1. actual \in 0..(balance + n)
    BY <1>2, <1>3, <1>7
  <2>2. QED
    BY <1>1, <1>7, <2>1 DEF n
<1>8. QED
  BY <1>4, <1>5, <1>6, <1>7

LEMMA CompletedIsStep ==
    ASSUME RelayAssumption, RelayIInv, NEW r \in Requests, NEW a \in Answers, Completed(r, a)
    PROVE  \E price \in Nat : Answers200(r, a, price)
<1>0. pc[r] = "posted" /\ balance \in Nat /\ estimate[r] \in Nat
  BY DEF Completed, RelayIInv, HandlerTypeOK
<1>1. /\ answer' = [answer EXCEPT ![r] = a]
      /\ told' = [told EXCEPT ![r] = ToldUsage(r, a)]
      /\ IF app \in Billed
         THEN /\ balance' = Settlement(r, a)
              /\ charged' = [charged EXCEPT ![r] = ToldUsage(r, a).total * Q!RATE_PER_TOKEN]
         ELSE UNCHANGED <<balance, charged>>
      /\ Goto(r, "answered", 200)
      /\ UNCHANGED <<app, call, sent, estimate>>
  BY DEF Completed, Actual
<1>2. CASE app \in Billed
  <2>1. /\ ToldUsage(r, a).total \in Nat
        /\ \E price \in 0..(balance + estimate[r]) :
              Settlement(r, a) = balance + estimate[r] - price
    BY <1>0, <1>2, Priced
  <2>2. PICK price \in 0..(balance + estimate[r]) :
           Settlement(r, a) = balance + estimate[r] - price
    BY <2>1
  <2>3. price \in Nat
    BY <1>0
  <2>4. Answers200(r, a, price)
    BY <1>0, <1>1, <1>2, <2>1, <2>2 DEF Answers200
  <2>5. QED
    BY <2>3, <2>4
<1>3. CASE app \notin Billed
  <2>1. Answers200(r, a, 0)
    BY <1>0, <1>1, <1>3 DEF Answers200
  <2>2. QED
    BY <2>1
<1>4. QED
  BY <1>2, <1>3

LEMMA UnrenderedIsStep ==
    ASSUME RelayAssumption, RelayIInv, NEW r \in Requests, NEW a \in Answers, Unrendered(r, a)
    PROVE  \E price \in Nat : Pays(r, price)
<1>1. /\ pc[r] = "posted" /\ app \in Billed /\ balance' = Settlement(r, a)
      /\ Goto(r, "unrendered", 500)
      /\ UNCHANGED <<app, call, sent, estimate, answer, told, charged>>
  BY DEF Unrendered
<1>2. balance \in Nat /\ estimate[r] \in Nat
  BY DEF RelayIInv, HandlerTypeOK
<1>3. PICK price \in 0..(balance + estimate[r]) :
         Settlement(r, a) = balance + estimate[r] - price
  BY <1>1, Priced
<1>4. price \in Nat
  BY <1>2
<1>5. Pays(r, price)
  BY <1>1, <1>3 DEF Pays
<1>6. QED
  BY <1>4, <1>5

LEMMA RelayNextIsStep ==
    ASSUME RelayAssumption, RelayIInv, [RelayNext]_allVars
    PROVE  RelayStep
<1>1. CASE UNCHANGED allVars
  BY <1>1 DEF allVars, RelayStep
<1>2. CASE app = "s08" /\ Next /\ UNCHANGED relayVars
  BY <1>2 DEF RelayStep
<1>3. ASSUME NEW r \in Requests, Arrive(r)
      PROVE  RelayStep
  BY <1>3, ArriveIsStep DEF RelayStep
<1>4. ASSUME NEW r \in Requests, TransportError(r)
      PROVE  RelayStep
  <2>1. (IF app = "s06" THEN 500 ELSE 502) \in 400..599
    OBVIOUS
  <2>2. QED
    BY <1>4, <2>1, FailsIsReturn DEF TransportError, RelayStep
<1>5. ASSUME NEW r \in Requests, UpstreamStatus(r)
      PROVE  RelayStep
  <2>1. PICK code \in UpstreamErrors : Fails(r, code)
    BY <1>5 DEF UpstreamStatus
  <2>2. code \in 400..599
    BY DEF RelayAssumption
  <2>3. QED
    BY <2>1, <2>2, FailsIsReturn DEF RelayStep
<1>6. ASSUME NEW r \in Requests, Unreadable(r) \/ PassedOn(r) \/ StreamEnds(r)
      PROVE  RelayStep
  <2>1. Keeps(r)
    BY <1>6 DEF Unreadable, PassedOn, ReadsAnything, StreamEnds, Keeps, Billed
  <2>2. QED
    BY <2>1 DEF RelayStep
<1>7. ASSUME NEW r \in Requests, NEW a \in Answers, Completed(r, a)
      PROVE  RelayStep
  BY <1>7, CompletedIsStep DEF RelayStep
<1>8. ASSUME NEW r \in Requests, NEW a \in Answers, Unrendered(r, a)
      PROVE  RelayStep
  BY <1>8, UnrenderedIsStep DEF RelayStep
<1>9. QED
  BY <1>1, <1>2, <1>3, <1>4, <1>5, <1>6, <1>7, <1>8 DEF RelayNext
-----------------------------------------------------------------------------
(* The invariant.                                                          *)
LEMMA RelayInitIInv == ASSUME RelayAssumption, RelayInit PROVE RelayIInv
<1>1. HandlerTypeOK
  BY DEF RelayAssumption, RelayInit, HandlerTypeOK, Requests
<1>2. Remembered
  BY DEF RelayInit, Remembered, Memory
<1>3. Unstreamed
  BY DEF RelayInit, Unstreamed, Streamed
<1>4. QED
  BY <1>1, <1>2, <1>3 DEF RelayIInv

LEMMA StepTypeOK ==
    ASSUME RelayAssumption, RelayIInv, RelayStep
    PROVE  HandlerTypeOK'
<1> USE DEF HandlerTypeOK, Ended, Goto
<1>0. HandlerTypeOK /\ None \notin Int /\ None \notin Body
  BY DEF RelayIInv, RelayAssumption
<1>1. CASE UNCHANGED relayVars
  BY <1>0, <1>1 DEF relayVars
<1>2. ASSUME NEW r \in Requests, Refuses(r)
      PROVE  HandlerTypeOK'
  BY <1>0, <1>2 DEF Refuses
<1>3. ASSUME NEW r \in Requests, NEW body \in Body, Posts(r, body)
      PROVE  HandlerTypeOK'
  BY <1>0, <1>3 DEF Posts
<1>4. ASSUME NEW r \in Requests, Returns(r)
      PROVE  HandlerTypeOK'
  BY <1>0, <1>4 DEF Returns
<1>5. ASSUME NEW r \in Requests, Keeps(r)
      PROVE  HandlerTypeOK'
  BY <1>0, <1>5 DEF Keeps
<1>6. ASSUME NEW r \in Requests, NEW a \in Answers, NEW price \in Nat, Answers200(r, a, price)
      PROVE  HandlerTypeOK'
  <2>1. a \in Answer
    BY DEF RelayAssumption
  <2>2. ToldUsage(r, a).total \in Nat => ToldUsage(r, a).total * Q!RATE_PER_TOKEN \in Nat
    BY DEF Q!RATE_PER_TOKEN
  <2>3. balance' \in Nat /\ charged' \in [Requests -> Nat \cup {None}]
    BY <1>0, <1>6, <2>2 DEF Answers200
  <2>4. answer' \in [Requests -> Answer \cup {None}]
    BY <1>0, <1>6, <2>1 DEF Answers200
  <2>5. /\ pc[r] = "posted"
        /\ pc' = [pc EXCEPT ![r] = "answered"] /\ status' = [status EXCEPT ![r] = 200]
        /\ UNCHANGED <<app, call, estimate>>
    BY <1>6 DEF Answers200
  <2>6. QED
    BY <1>0, <2>3, <2>4, <2>5
<1>7. ASSUME NEW r \in Requests, NEW price \in Nat, Pays(r, price)
      PROVE  HandlerTypeOK'
  BY <1>0, <1>7 DEF Pays
<1>8. QED
  BY <1>1, <1>2, <1>3, <1>4, <1>5, <1>6, <1>7 DEF RelayStep

(* A request's memory changes when it is posted and when it is answered.   *)
LEMMA StepRemembered ==
    ASSUME RelayAssumption, RelayIInv, RelayStep
    PROVE  Remembered'
<1>0. HandlerTypeOK /\ Remembered
  BY DEF RelayIInv
<1>1. ASSUME UNCHANGED <<app, call, sent, estimate, answer, told, charged>>
      PROVE  Remembered'
  BY <1>0, <1>1 DEF Remembered, Memory, ToldUsage, Provider, Estimated, LocalCount, Adapted, Billed, Counted
<1>2. CASE UNCHANGED relayVars
  BY <1>1, <1>2 DEF relayVars
<1>3. ASSUME NEW r \in Requests,
             Refuses(r) \/ Returns(r) \/ Keeps(r) \/ \E price \in Nat : Pays(r, price)
      PROVE  Remembered'
  BY <1>1, <1>3 DEF Refuses, Returns, Keeps, Pays
<1>4. ASSUME NEW r \in Requests, NEW body \in Body, Posts(r, body)
      PROVE  Remembered'
  <2>1. call[r] = None /\ told[r] = None /\ charged[r] = None
    BY <1>0, <1>4 DEF Posts, HandlerTypeOK, Remembered, Memory
  <2>2. app' = app /\ UNCHANGED <<answer, told, charged>>
    BY <1>4 DEF Posts
  <2>3. ASSUME NEW q \in Requests, q # r
        PROVE  /\ call'[q] = call[q] /\ sent'[q] = sent[q] /\ estimate'[q] = estimate[q]
    BY <1>0, <1>4, <2>3 DEF Posts, HandlerTypeOK
  <2>4. call'[r] = body /\ estimate'[r] = Estimated(body) /\ Provider(body) # None
    BY <1>0, <1>4 DEF Posts, HandlerTypeOK
  <2>5. /\ sent'[r] = ToUpstream(Provider(body), body)
        /\ sent' = [q \in Requests |-> sent'[q]] /\ told' = [q \in Requests |-> told'[q]]
    BY <1>0, <1>4 DEF Posts, Remembered
  <2>6. /\ Provider(body)' = Provider(body) /\ Estimated(body)' = Estimated(body)
    BY <2>2 DEF Provider, Estimated, LocalCount, Adapted, Billed
  <2>7. body # None
    BY <1>4 DEF RelayAssumption, Posts
  <2>8. Memory(r)'
    BY <2>1, <2>2, <2>4, <2>5, <2>6, <2>7 DEF Memory
  <2>9. ASSUME NEW q \in Requests, q # r
        PROVE  Memory(q)'
    <3>1. Memory(q)
      BY <1>0 DEF Remembered
    <3>2. QED
      BY <2>2, <2>3, <2>9, <3>1
        DEF Memory, ToldUsage, Provider, Estimated, LocalCount, Adapted, Billed, Counted
  <2>10. QED
    BY <2>5, <2>8, <2>9 DEF Remembered
<1>5. ASSUME NEW r \in Requests, NEW a \in Answers, NEW price \in Nat, Answers200(r, a, price)
      PROVE  Remembered'
  <2>1. UNCHANGED <<app, call, sent, estimate>> /\ call[r] # None
    BY <1>5, CallKnown DEF Answers200
  <2>2. /\ answer' = [answer EXCEPT ![r] = a] /\ told' = [told EXCEPT ![r] = ToldUsage(r, a)]
        /\ \/ app \in Billed /\ charged' = [charged EXCEPT ![r] = ToldUsage(r, a).total
                                                                    * Q!RATE_PER_TOKEN]
           \/ app \notin Billed /\ charged' = charged
    BY <1>5 DEF Answers200
  <2>3. /\ sent' = [q \in Requests |-> sent'[q]] /\ told' = [q \in Requests |-> told'[q]]
        /\ answer'[r] = a /\ told'[r] = ToldUsage(r, a)
        /\ app \in Billed => charged'[r] = ToldUsage(r, a).total * Q!RATE_PER_TOKEN
    <3>1. /\ DOMAIN sent = Requests /\ DOMAIN told = Requests
          /\ sent = [q \in Requests |-> sent[q]]
      BY <1>0 DEF Remembered
    <3>2. DOMAIN answer = Requests /\ DOMAIN charged = Requests
      BY <1>0 DEF HandlerTypeOK
    <3>3. sent' = [q \in Requests |-> sent'[q]]
      BY <2>1, <3>1
    <3>4. answer'[r] = a
      BY <2>2, <3>2
    <3> DEFINE usage == ToldUsage(r, a)
    <3> HIDE DEF usage
    <3>5. told' = [told EXCEPT ![r] = usage]
      BY <2>2 DEF usage
    <3>6. told' = [q \in Requests |-> told'[q]] /\ told'[r] = usage
      BY <3>1, <3>5
    <3>7. ASSUME app \in Billed PROVE charged'[r] = usage.total * Q!RATE_PER_TOKEN
      BY <2>2, <3>2, <3>7 DEF usage
    <3>8. QED
      BY <3>3, <3>4, <3>6, <3>7 DEF usage
  <2>4. \A q \in Requests : \A b \in Answers : ToldUsage(q, b)' = ToldUsage(q, b)
    BY <2>1 DEF ToldUsage, Provider, LocalCount, Adapted, Billed, Counted
  <2>5. \A q \in Requests : /\ Provider(call[q])' = Provider(call[q])
                            /\ Estimated(call[q])' = Estimated(call[q])
    BY <2>1 DEF Provider, Estimated, LocalCount, Adapted, Billed
  <2>6. Memory(r)'
    <3>1. Memory(r) /\ (app \notin Billed => charged'[r] = charged[r])
      BY <1>0, <2>2 DEF Remembered
    <3>2. QED
      BY <2>1, <2>3, <2>4, <2>5, <3>1 DEF Memory
  <2>7. ASSUME NEW q \in Requests, q # r
        PROVE  Memory(q)'
    <3>1. Memory(q)
      BY <1>0 DEF Remembered
    <3>2. answer'[q] = answer[q] /\ told'[q] = told[q] /\ charged'[q] = charged[q]
      BY <1>0, <2>2, <2>7 DEF Remembered, HandlerTypeOK
    <3>3. QED
      BY <2>1, <2>4, <2>5, <3>1, <3>2 DEF Memory
  <2>8. QED
    BY <2>3, <2>6, <2>7 DEF Remembered
<1>6. QED
  BY <1>2, <1>3, <1>4, <1>5 DEF RelayStep

LEMMA StepUnstreamed ==
    ASSUME RelayAssumption, RelayIInv, RelayStep
    PROVE  Unstreamed'
<1>1. /\ Unstreamed /\ "s03" \notin Billed
      /\ pc \in [Requests -> {"idle", "posted", "streaming"} \cup Ended]
  BY BilledAreAdapted DEF RelayIInv, HandlerTypeOK
<1>2. app' = app
  BY DEF RelayStep, relayVars, Refuses, Posts, Returns, Keeps, Answers200, Pays
<1>3. CASE UNCHANGED relayVars
  BY <1>1, <1>3 DEF relayVars, Unstreamed
<1>4. ASSUME NEW r \in Requests, app \in Billed,
             NEW to \in {"refused", "posted", "failed", "stranded", "unrendered", "answered"},
             pc' = [pc EXCEPT ![r] = to]
      PROVE  Unstreamed'
  BY <1>1, <1>2, <1>4 DEF Unstreamed, Streamed
<1>5. ASSUME NEW r \in Requests, app \in Billed,
             \/ Refuses(r)
             \/ \E body \in Body : Posts(r, body)
             \/ Returns(r)
             \/ Keeps(r)
             \/ \E a \in Answers, price \in Nat : Answers200(r, a, price)
             \/ \E price \in Nat : Pays(r, price)
      PROVE  \E to \in {"refused", "posted", "failed", "stranded", "unrendered", "answered"} :
                pc' = [pc EXCEPT ![r] = to]
  BY <1>1, <1>5 DEF Refuses, Posts, Returns, Keeps, Answers200, Pays, Goto, Unstreamed, Streamed
<1>6. CASE app \notin Billed
  BY <1>2, <1>6 DEF Unstreamed, Billed
<1>7. QED
  BY <1>3, <1>4, <1>5, <1>6 DEF RelayStep

LEMMA RelayInvariance == RelaySpec => []RelayIInv
<1>1. RelayInit => RelayIInv
  BY RelayAssumption, RelayInitIInv
<1>2. RelayIInv /\ [RelayNext]_allVars => RelayIInv'
  BY RelayAssumption, RelayNextIsStep, StepTypeOK, StepRemembered, StepUnstreamed DEF RelayIInv
<1>3. QED
  BY <1>1, <1>2, PTL DEF RelaySpec

(* s08's handler in front of the bucket is one of the bucket's callers:    *)
(* what is proved of the bucket holds behind the handler.                  *)
THEOREM RelaysRefineBucket == RelaySpec => Spec
<1>1. RelayInit => Init
  BY DEF RelayInit
<1>2. [RelayNext]_allVars => [Next]_vars
  <2> SUFFICES ASSUME [RelayNext]_allVars
               PROVE  [Next]_vars
    OBVIOUS
  <2>1. ASSUME NEW r \in Requests, Arrive(r)
        PROVE  [Next]_vars
    BY <2>1 DEF Arrive, TurnedAway, Limited, Uncountable, NotDeducted, UnknownModel, Forward, Admitted, Next
  <2>2. ASSUME NEW r \in Requests,
               \/ TransportError(r)
               \/ UpstreamStatus(r)
               \/ Unreadable(r)
               \/ PassedOn(r)
               \/ \E a \in Answers : Completed(r, a) \/ Unrendered(r, a)
               \/ StreamEnds(r)
        PROVE  UNCHANGED vars
    BY <2>2 DEF TransportError, UpstreamStatus, Fails, Unreadable, PassedOn, Completed, Unrendered,
                StreamEnds
  <2>3. CASE UNCHANGED allVars
    BY <2>3 DEF allVars
  <2>4. QED
    BY <2>1, <2>2, <2>3 DEF RelayNext
<1>3. QED
  BY <1>1, <1>2, PTL DEF RelaySpec, Spec

(* In each of the eight chapters requests, quota, statuses and the bucket  *)
(* stay well formed; no balance and no bucket is overdrawn.                *)
THEOREM RelayTypeCorrect == RelaySpec => []RelayTypeOK
<1>1. TypeOK /\ RelayIInv => RelayTypeOK
  BY DEF RelayIInv, HandlerTypeOK, RelayTypeOK
<1>2. QED
  BY <1>1, RelayInvariance, RelaysRefineBucket, BucketTypeCorrect, PTL

(* Whatever the handlers do, the limiter lets no window be overspent.      *)
THEOREM RelayedWindowsAreBounded == RelaySpec => []WindowBound
  BY RelaysRefineBucket, WindowsAreBounded

(* Nor does it take from a client what the client has not spent.           *)
THEOREM RelayedTokensAreSpent == RelaySpec => []MissingIsSpent
  BY RelaysRefineBucket, OnlySpentTokensAreMissing

-----------------------------------------------------------------------------
(* What a stated limit has reserved is enough for every upstream that was  *)
(* sent it and keeps to it.                                                *)
THEOREM ReservesSuffice == RelaySpec => []WithinReserve
<1>1. ASSUME RelayIInv PROVE WithinReserve
  <2>1. SUFFICES ASSUME NEW r \in Requests, charged[r] # None, call[r].maxTokens # None,
                        Provider(call[r]) # "gemini",
                        ~(OrZero(answer[r].usage.prompt) > LocalCount(call[r])),
                        answer[r].usage.completion # None,
                        ~(answer[r].usage.completion > sent[r].limit)
                 PROVE  ~(charged[r] > estimate[r])
    BY DEF WithinReserve
  <2> DEFINE local == LocalCount(call[r])
             max == call[r].maxTokens
  <2>2. /\ app \in Billed /\ call[r] \in Body /\ answer[r] \in Answers
        /\ Provider(call[r]) # None
        /\ sent[r] = ToUpstream(Provider(call[r]), call[r])
        /\ estimate[r] = Estimated(call[r])
        /\ charged[r] = ToldUsage(r, answer[r]).total * Q!RATE_PER_TOKEN
    BY <1>1, <2>1 DEF RelayIInv, HandlerTypeOK, Remembered, Memory
  <2>3. Provider(call[r]) \in {"openai", "claude"}
    BY <2>1, <2>2, ProviderKnown
  <2>4. sent[r].limit = max
    BY <2>1, <2>2, <2>3 DEF ToUpstream, OpenAIBody, ClaudeBody
  <2>5. /\ local \in Nat /\ max \in Int /\ DefaultMaxTokens \in Nat \ {0}
        /\ OrZero(answer[r].usage.prompt) \in Nat
    BY <2>1, <2>2, <2>3, RelayAssumption, LocalCountNat, UsageRead DEF RelayAssumption, Body
  <2>6. estimate[r] = local + IF max \in {None, 0} THEN DefaultMaxTokens ELSE max
    BY <2>2, <2>5 DEF Estimated, Q!Estimate, Q!RATE_PER_TOKEN
  <2> DEFINE usage == UsageFromUpstream(Provider(call[r]), answer[r].usage)
             billed == BilledUsage(local, usage, OrZero(answer[r].chars))
  <2>7. ToldUsage(r, answer[r]) = billed
    BY <2>2 DEF ToldUsage, Billed, Counted
  <2>8. /\ billed.prompt = local
        /\ billed.completion = answer[r].usage.completion /\ billed.completion \in Nat
        /\ billed.total = billed.prompt + billed.completion
    BY <2>1, <2>2, <2>5, RelayAssumption, BilledCounts
  <2> HIDE DEF billed, local, max
  <2>9. billed.completion <= max
    BY <2>1, <2>4, <2>5, <2>8
  <2>10. charged[r] = local + billed.completion
    BY <2>2, <2>5, <2>7, <2>8 DEF Q!RATE_PER_TOKEN
  <2>11. QED
    BY <2>1, <2>5, <2>6, <2>8, <2>9, <2>10 DEF max
<1>2. QED
  BY <1>1, RelayInvariance, PTL

(* What s06 to s08 report covers the prompt and a text's completion, and   *)
(* what s07 and s08 bill is what they report.                              *)
THEOREM UsageIsAlwaysCounted == RelaySpec => []UsageIsCounted
<1>1. ASSUME RelayIInv PROVE UsageIsCounted
  <2>1. SUFFICES ASSUME NEW r \in Requests, app \in Counted, told[r] # None
                 PROVE  /\ told[r].prompt >= LocalCount(call[r])
                        /\ told[r].completion = 0 =>
                              \/ answer[r].usage.completion = 0
                              \/ answer[r].usage.completion = None /\ Provider(call[r]) # "openai"
                        /\ app \in Billed =>
                              /\ told[r].total = told[r].prompt + told[r].completion
                              /\ charged[r] = told[r].total
    BY DEF UsageIsCounted
  <2> DEFINE local == LocalCount(call[r])
             usage == UsageFromUpstream(Provider(call[r]), answer[r].usage)
             chars == OrZero(answer[r].chars)
  <2>2. /\ call[r] \in Body /\ Provider(call[r]) # None /\ answer[r] \in Answers
        /\ told[r] = ToldUsage(r, answer[r])
        /\ app \in Billed => charged[r] = told[r].total * Q!RATE_PER_TOKEN
    BY <1>1, <2>1 DEF RelayIInv, HandlerTypeOK, Remembered, Memory
  <2>3. CASE app \in Billed
    <3>1. told[r] = BilledUsage(local, usage, chars)
      BY <2>2, <2>3 DEF ToldUsage, Billed, Counted
    <3>2. /\ told[r].prompt >= local
          /\ told[r].total \in Nat /\ told[r].total = told[r].prompt + told[r].completion
          /\ told[r].completion = 0 =>
                \/ answer[r].usage.completion = 0
                \/ answer[r].usage.completion = None /\ Provider(call[r]) # "openai"
      BY <2>2, <3>1, RelayAssumption, BilledCounts
    <3>3. charged[r] = told[r].total
      BY <2>2, <2>3, <3>2 DEF Q!RATE_PER_TOKEN
    <3>4. QED
      BY <3>2, <3>3
  <2>4. CASE app \notin Billed
    <3>1. app = "s06"
      BY <2>1, <2>4 DEF Counted, Billed
    <3>2. told[r] = FilledIn(local, usage, chars)
      BY <2>1, <2>2, <2>4, <3>1 DEF ToldUsage
    <3>3. Provider(call[r]) \in {"openai", "claude", "gemini"}
      BY <2>2, ProviderKnown
    <3>4. /\ usage \in [prompt : Nat \cup {None}, completion : Nat \cup {None},
                        total : Nat \cup {None}]
          /\ OrZero(usage.prompt) \in Nat /\ chars \in Nat
          /\ usage.completion = 0 =>
                \/ answer[r].usage.completion = 0
                \/ answer[r].usage.completion = None /\ Provider(call[r]) # "openai"
      BY <2>2, <3>3, RelayAssumption, UsageRead
    <3>5. local \in Nat
      BY <2>2, LocalCountNat
    <3> HIDE DEF local, usage, chars
    <3>6. CountLength(chars) \in Nat /\ CountLength(chars) >= 1
      BY <3>4, CountLengthNat
    <3>7. AtLeast(local, OrZero(usage.prompt)) >= local
      BY <3>4, <3>5, AtLeastNat
    <3>8. CASE usage.total \in {None, 0}
      <4>1. told[r] = [prompt |-> local, completion |-> CountLength(chars),
                       total |-> local + CountLength(chars)]
        BY <3>2, <3>8 DEF FilledIn
      <4>2. QED
        BY <2>4, <3>5, <3>6, <4>1 DEF local
    <3>9. CASE usage.total \notin {None, 0}
      <4>1. told[r] = [usage EXCEPT !.prompt = AtLeast(local, OrZero(usage.prompt))]
        BY <3>2, <3>9 DEF FilledIn
      <4>2. /\ told[r].prompt = AtLeast(local, OrZero(usage.prompt))
            /\ told[r].completion = usage.completion
        BY <3>4, <4>1
      <4>3. QED
        BY <2>4, <3>4, <3>7, <4>2 DEF local
    <3>10. QED
      BY <3>8, <3>9
  <2>5. QED
    BY <2>3, <2>4
<1>2. QED
  BY <1>1, RelayInvariance, PTL

-----------------------------------------------------------------------------
(* A list with a first element has it in front of the others' values.      *)
LEMMA SpokenInFront ==
    ASSUME NEW S, NEW turns \in Seq(S), NEW first \in S
    PROVE  <<>> \o Spoken(<<first>> \o turns)
             = <<[reply |-> first.role \in {"assistant", "model"}, text |-> first.text]>>
                 \o Spoken(turns)
<1> DEFINE Said(t) == [reply |-> t.role \in {"assistant", "model"}, text |-> t.text]
           T == {Said(t) : t \in S}
           all == <<first>> \o turns
<1>1. /\ all \in Seq(S) /\ Len(turns) \in Nat /\ Len(all) = 1 + Len(turns)
      /\ all[1] = first /\ \A i \in 2..(1 + Len(turns)) : all[i] = turns[i - 1]
  OBVIOUS
<1>2. \A s \in Seq(S) : Spoken(s) = [i \in 1..Len(s) |-> Said(s[i])] /\ Spoken(s) \in Seq(T)
                          /\ Len(Spoken(s)) = Len(s)
  <2> TAKE s \in Seq(S)
  <2>1. Spoken(s) = [i \in 1..Len(s) |-> Said(s[i])]
    BY DEF Spoken
  <2>2. Len(s) \in Nat /\ \A i \in 1..Len(s) : Said(s[i]) \in T
    BY Elements
  <2> HIDE DEF Said, T
  <2>3. QED
    BY <2>1, <2>2
<1>3. <<Said(first)>> \in Seq(T)
  BY DEF T
<1> HIDE DEF Said, T, all
<1> DEFINE rest == <<Said(first)>> \o Spoken(turns)
<1>4. /\ rest \in Seq(T) /\ Len(rest) = 1 + Len(turns)
      /\ rest[1] = Said(first)
      /\ \A i \in 2..(1 + Len(turns)) : rest[i] = Said(turns[i - 1])
  BY <1>1, <1>2, <1>3
<1>5. /\ Spoken(all) \in Seq(T) /\ Len(Spoken(all)) = 1 + Len(turns)
      /\ Spoken(all)[1] = Said(first)
      /\ \A i \in 2..(1 + Len(turns)) : Spoken(all)[i] = Said(turns[i - 1])
  BY <1>1, <1>2
<1> HIDE DEF rest
<1>6. \A i \in 1..(1 + Len(turns)) : Spoken(all)[i] = rest[i]
  <2> TAKE i \in 1..(1 + Len(turns))
  <2>1. i = 1 \/ i \in 2..(1 + Len(turns))
    BY <1>1
  <2>2. QED
    BY <1>4, <1>5, <2>1
<1>7. Spoken(all) = rest
  BY <1>4, <1>5, <1>6, SeqEqual
<1>8. <<>> \o Spoken(all) = Spoken(all)
  BY <1>5, ConcatEmptySeq
<1>9. QED
  BY <1>7, <1>8 DEF rest, all, Said

(* Gemini's roles say who spoke as the client's do.                        *)
LEMMA GeminiSpeaks ==
    ASSUME NEW m \in Seq([role : Roles, text : Text])
    PROVE  LET turns == [i \in DOMAIN m |-> GeminiTurn(m[i])]
           IN  /\ turns \in Seq([role : {"user", "model"}, text : Text])
               /\ Spoken(turns) = Spoken(m)
<1> DEFINE turns == [i \in DOMAIN m |-> GeminiTurn(m[i])]
<1>1. /\ Len(m) \in Nat /\ DOMAIN m = 1..Len(m)
      /\ \A i \in DOMAIN m : m[i] \in [role : Roles, text : Text]
  BY Elements
<1>2. \A i \in DOMAIN m :
        /\ turns[i] \in [role : {"user", "model"}, text : Text]
        /\ turns[i].text = m[i].text
        /\ turns[i].role \in {"assistant", "model"} <=> m[i].role \in {"assistant", "model"}
  BY <1>1 DEF GeminiTurn, Roles
<1>3. turns \in Seq([role : {"user", "model"}, text : Text])
  BY <1>1, <1>2
<1>4. DOMAIN turns = DOMAIN m
  OBVIOUS
<1> HIDE DEF turns
<1>5. Spoken(turns) = Spoken(m)
  BY <1>2, <1>4 DEF Spoken
<1>6. QED
  BY <1>3, <1>5 DEF turns

(* OpenAI, Claude and Gemini get the same conversation, in their words.    *)
THEOREM ConversationsAreKept == RelaySpec => []ConversationKept
<1>1. ASSUME RelayIInv PROVE ConversationKept
  <2>1. SUFFICES ASSUME NEW r \in Requests, sent[r] # None
                 PROVE  Prompted(sent[r].system, sent[r].turns)
                          = Prompted(call[r].system, call[r].messages)
    BY DEF ConversationKept
  <2> DEFINE body == call[r]
             m == body.messages
             turns == [i \in DOMAIN m |-> GeminiTurn(m[i])]
  <2>2. /\ body \in Body /\ Provider(body) # None
        /\ sent[r] = ToUpstream(Provider(body), body)
    BY <1>1, <2>1 DEF RelayIInv, HandlerTypeOK, Remembered, Memory
  <2>3. CASE Provider(body) \in {"openai", "claude"}
    <3>1. sent[r].system = body.system /\ sent[r].turns = m
      BY <2>2, <2>3 DEF ToUpstream, OpenAIBody, ClaudeBody
    <3>2. QED
      BY <3>1
  <2>4. CASE Provider(body) = "gemini"
    <3>1. sent[r] = GeminiBody(body)
      BY <2>2, <2>4 DEF ToUpstream
    <3>2. m \in Seq([role : Roles, text : Text])
      BY <2>2 DEF Body
    <3>3. /\ turns \in Seq([role : {"user", "model"}, text : Text])
          /\ Spoken(turns) = Spoken(m)
      BY <3>2, GeminiSpeaks
    <3>4. sent[r].system = None
      BY <3>1 DEF GeminiBody
    <3>5. Prompted(sent[r].system, sent[r].turns) = <<>> \o Spoken(sent[r].turns)
      BY <3>4 DEF Prompted, IsBlank
    <3>6. CASE IsBlank(body.system)
      <4>1. sent[r].turns = <<>> \o turns
        BY <3>1, <3>6 DEF GeminiBody
      <4>2. sent[r].turns = turns
        BY <3>3, <4>1
      <4>3. Prompted(body.system, m) = <<>> \o Spoken(m)
        BY <3>6 DEF Prompted
      <4>4. QED
        BY <3>3, <3>5, <4>2, <4>3
    <3>7. CASE ~IsBlank(body.system)
      <4> DEFINE first == [role |-> "user", text |-> body.system]
      <4>1. sent[r].turns = <<first>> \o turns
        BY <3>1, <3>7 DEF GeminiBody
      <4>2. body.system \in Text
        BY <2>2, <3>7 DEF Body, IsBlank
      <4>3. first \in [role : {"user", "model"}, text : Text]
        BY <4>2
      <4>4. <<>> \o Spoken(<<first>> \o turns)
              = <<[reply |-> first.role \in {"assistant", "model"}, text |-> first.text]>>
                  \o Spoken(turns)
        BY <3>3, <4>3, SpokenInFront
      <4>5. (first.role \in {"assistant", "model"}) = FALSE /\ first.text = body.system
        OBVIOUS
      <4>6. Prompted(body.system, m)
              = <<[reply |-> FALSE, text |-> body.system]>> \o Spoken(m)
        BY <3>7 DEF Prompted
      <4>7. QED
        BY <3>3, <3>5, <4>1, <4>4, <4>5, <4>6
    <3>8. QED
      BY <3>6, <3>7
  <2>5. QED
    BY <2>2, <2>3, <2>4, ProviderKnown
<1>2. QED
  BY <1>1, RelayInvariance, PTL

-----------------------------------------------------------------------------
(* The quota of the billed chapters: without a bill nothing is held.       *)
LEMMA Unbilled ==
    ASSUME RelayAssumption, RelayIInv, app \notin Billed, RelayStep
    PROVE  UNCHANGED <<Funds, Owner, Phase, Held>>
<1>1. app' = app
  BY DEF RelayStep, relayVars, Refuses, Posts, Returns, Keeps, Answers200, Pays
<1>2. \A r \in Requests : LedgerPhase(r) = "none" /\ LedgerPhase(r)' = "none"
  BY <1>1 DEF LedgerPhase, Billed
<1>3. balance \in Nat /\ estimate \in [Requests -> Nat]
  BY DEF RelayIInv, HandlerTypeOK
<1>4. ASSUME NEW r \in Requests, Returns(r)
      PROVE  balance' = balance
  <2>1. estimate[r] = Estimated(call[r]) /\ pc[r] = "posted"
    BY <1>4 DEF RelayIInv, HandlerTypeOK, Remembered, Memory, Returns
  <2>2. QED
    BY <1>3, <1>4, <2>1 DEF Estimated, Returns
<1>5. ASSUME NEW r \in Requests, NEW body \in Body, Posts(r, body)
      PROVE  balance' = balance
  BY <1>3, <1>5 DEF Estimated, Posts
<1>6. balance' = balance
  BY <1>4, <1>5 DEF RelayStep, relayVars, Refuses, Keeps, Answers200, Pays
<1>7. QED
  BY <1>2, <1>6 DEF Funds, Owner, Phase, Held

(* One request moves at a time: where it comes to, and the others stay.    *)
LEMMA PhaseMoves ==
    ASSUME RelayIInv, NEW r \in Requests, app \in Billed, app' = app,
           NEW to \in {"refused", "posted", "failed", "stranded", "unrendered", "answered"},
           pc' = [pc EXCEPT ![r] = to],
           NEW next, LedgerPhase(r)' = next
    PROVE  Phase' = [Phase EXCEPT ![r] = next]
<1>1. \A q \in Requests : q # r => pc'[q] = pc[q]
  BY DEF RelayIInv, HandlerTypeOK
<1>2. \A q \in Requests : q # r => LedgerPhase(q)' = LedgerPhase(q)
  BY <1>1 DEF LedgerPhase
<1>3. QED
  BY <1>2 DEF Phase

LEMMA BilledMoves ==
    ASSUME RelayAssumption, RelayIInv, app \in Billed, RelayStep
    PROVE  Quotas!Next \/ UNCHANGED <<Funds, Owner, Phase, Held>>
<1>0. /\ pc \in [Requests -> {"idle", "posted", "streaming"} \cup Ended]
      /\ balance \in Nat /\ estimate \in [Requests -> Nat]
      /\ \A q \in Requests : pc[q] \notin Streamed
      /\ User # None
  BY DEF RelayAssumption, RelayIInv, HandlerTypeOK, Unstreamed
<1>1. app' = app /\ app' \in Billed
  BY DEF RelayStep, relayVars, Refuses, Posts, Returns, Keeps, Answers200, Pays, Billed
<1>2. \A q \in Requests :
        /\ LedgerPhase(q) = "none" <=> pc[q] \in {"idle", "refused"}
        /\ pc[q] \in {"idle", "refused"} => LedgerPhase(q) = "none"
        /\ pc[q] \in {"posted", "stranded"} => LedgerPhase(q) = "holding"
        /\ pc'[q] \in {"idle", "refused"} => LedgerPhase(q)' = "none"
        /\ pc'[q] \in {"posted", "stranded"} => LedgerPhase(q)' = "holding"
        /\ pc'[q] = "failed" => LedgerPhase(q)' = "released"
        /\ pc'[q] \in {"answered", "unrendered"} => LedgerPhase(q)' = "captured"
  BY <1>0, <1>1 DEF LedgerPhase, Ended, Streamed
<1>3. ASSUME UNCHANGED <<Phase, balance, estimate>>
      PROVE  UNCHANGED <<Funds, Owner, Phase, Held>>
  <2>1. \A q \in Requests : LedgerPhase(q)' = LedgerPhase(q)
    <3>1. \A q \in Requests : Phase[q] = LedgerPhase(q) /\ Phase'[q] = LedgerPhase(q)'
      BY DEF Phase
    <3>2. QED
      BY <1>3, <3>1
  <2>2. QED
    BY <1>3, <2>1 DEF Funds, Owner, Held
<1>4. CASE UNCHANGED relayVars
  <2>1. UNCHANGED <<Phase, balance, estimate>>
    BY <1>4 DEF relayVars, Phase, LedgerPhase
  <2>2. QED
    BY <1>3, <2>1
<1>5. ASSUME NEW r \in Requests, Refuses(r)
      PROVE  UNCHANGED <<Funds, Owner, Phase, Held>>
  <2>1. LedgerPhase(r) = "none" /\ LedgerPhase(r)' = "none" /\ pc' = [pc EXCEPT ![r] = "refused"]
    BY <1>0, <1>2, <1>5 DEF Refuses, Goto
  <2>2. Phase' = [Phase EXCEPT ![r] = "none"]
    BY <1>1, <2>1, PhaseMoves
  <2>3. Phase' = Phase
    BY <2>1, <2>2 DEF Phase
  <2>4. QED
    BY <1>3, <1>5, <2>3 DEF Refuses
<1>6. ASSUME NEW r \in Requests, Keeps(r)
      PROVE  UNCHANGED <<Funds, Owner, Phase, Held>>
  <2>1. pc[r] = "posted" /\ pc' = [pc EXCEPT ![r] = "stranded"]
    BY <1>0, <1>6 DEF Keeps, Goto, Streamed
  <2>2. LedgerPhase(r) = "holding" /\ LedgerPhase(r)' = "holding"
    BY <1>0, <1>2, <2>1
  <2>3. Phase' = [Phase EXCEPT ![r] = "holding"]
    BY <1>1, <2>1, <2>2, PhaseMoves
  <2>4. Phase' = Phase
    BY <2>2, <2>3 DEF Phase
  <2>5. QED
    BY <1>3, <1>6, <2>4 DEF Keeps
<1>7. ASSUME NEW r \in Requests, NEW next,
             Phase' = [Phase EXCEPT ![r] = next],
             \A q \in Requests : q # r => estimate'[q] = estimate[q]
      PROVE  /\ Owner' = [Owner EXCEPT ![r] = IF next = "none" THEN None ELSE User]
             /\ Held' = [Held EXCEPT ![r] = IF next = "holding" THEN estimate'[r] ELSE 0]
  <2>1. \A q \in Requests : LedgerPhase(q)' = IF q = r THEN next ELSE LedgerPhase(q)
    <3>1. \A q \in Requests : Phase'[q] = LedgerPhase(q)' /\ Phase[q] = LedgerPhase(q)
      BY DEF Phase
    <3>2. \A q \in Requests : Phase'[q] = IF q = r THEN next ELSE Phase[q]
      BY <1>7 DEF Phase
    <3>3. QED
      BY <3>1, <3>2
  <2>2. Owner' = [Owner EXCEPT ![r] = IF next = "none" THEN None ELSE User]
    <3>1. Owner' = [q \in Requests |-> IF LedgerPhase(q)' = "none" THEN None ELSE User]
      BY DEF Owner
    <3>2. QED
      BY <2>1, <3>1 DEF Owner
  <2>3. Held' = [Held EXCEPT ![r] = IF next = "holding" THEN estimate'[r] ELSE 0]
    <3>1. Held' = [q \in Requests |-> IF LedgerPhase(q)' = "holding" THEN estimate'[q] ELSE 0]
      BY DEF Held
    <3>2. QED
      BY <1>7, <2>1, <3>1 DEF Held
  <2>4. QED
    BY <2>2, <2>3
<1>8. Funds[User] = balance /\ \A x : x = balance' => Funds' = [Funds EXCEPT ![User] = x]
  BY DEF Funds
<1>9. ASSUME NEW r \in Requests, NEW body \in Body, Posts(r, body)
      PROVE  Quotas!Next
  <2> DEFINE n == Estimated(body)
  <2>1. /\ n \in 0..balance /\ balance' = balance - n /\ estimate'[r] = n
        /\ \A q \in Requests : q # r => estimate'[q] = estimate[q]
    BY <1>0, <1>9 DEF Posts
  <2>2. pc[r] = "idle" /\ pc' = [pc EXCEPT ![r] = "posted"]
    BY <1>9, BilledAreAdapted DEF Posts, Goto
  <2>3. LedgerPhase(r) = "none" /\ LedgerPhase(r)' = "holding"
    BY <1>0, <1>2, <2>2
  <2> HIDE DEF n
  <2>4. Phase' = [Phase EXCEPT ![r] = "holding"]
    BY <1>1, <2>2, <2>3, PhaseMoves
  <2>5. Owner' = [Owner EXCEPT ![r] = User] /\ Held' = [Held EXCEPT ![r] = n]
    BY <1>7, <2>1, <2>4
  <2>6. Funds' = [Funds EXCEPT ![User] = Funds[User] - n]
    BY <1>8, <2>1
  <2>7. Phase[r] = "none" /\ n <= Funds[User] /\ n \in 0..Funds[User]
    BY <1>0, <1>8, <2>1, <2>3 DEF Phase
  <2>8. Quotas!Hold(r, User, n)
    BY <2>4, <2>5, <2>6, <2>7 DEF Quotas!Hold
  <2>9. QED
    BY <2>7, <2>8 DEF Quotas!Next
<1>10. ASSUME NEW r \in Requests, pc[r] = "posted"
       PROVE  Phase[r] = "holding" /\ Owner[r] = User /\ Held[r] = estimate[r]
  BY <1>0, <1>2, <1>10 DEF Phase, Owner, Held
<1>11. ASSUME NEW r \in Requests, pc[r] = "posted", estimate' = estimate,
              NEW to \in {"failed", "answered", "unrendered"}, pc' = [pc EXCEPT ![r] = to]
       PROVE  /\ Phase' = [Phase EXCEPT ![r] = IF to = "failed" THEN "released" ELSE "captured"]
              /\ Held' = [Held EXCEPT ![r] = 0]
              /\ Owner' = Owner
  <2> DEFINE next == IF to = "failed" THEN "released" ELSE "captured"
  <2>1. LedgerPhase(r)' = next
    BY <1>0, <1>2, <1>11
  <2>2. next # "none" /\ next # "holding"
    OBVIOUS
  <2> HIDE DEF next
  <2>3. Phase' = [Phase EXCEPT ![r] = next]
    BY <1>1, <1>11, <2>1, PhaseMoves
  <2>4. Owner' = [Owner EXCEPT ![r] = User] /\ Held' = [Held EXCEPT ![r] = 0]
    BY <1>7, <1>11, <2>2, <2>3
  <2>5. Owner' = Owner
    BY <1>10, <1>11, <2>4 DEF Owner
  <2>6. QED
    BY <2>3, <2>4, <2>5 DEF next
<1>12. ASSUME NEW r \in Requests, Returns(r)
       PROVE  Quotas!Next
  <2>1. /\ pc[r] = "posted" /\ pc' = [pc EXCEPT ![r] = "failed"]
        /\ balance' = balance + estimate[r] /\ estimate' = estimate
    BY <1>12 DEF Returns, Goto
  <2>2. /\ Phase' = [Phase EXCEPT ![r] = "released"]
        /\ Held' = [Held EXCEPT ![r] = 0] /\ Owner' = Owner
    BY <1>11, <2>1
  <2>3. Phase[r] = "holding" /\ Owner[r] = User /\ Held[r] = estimate[r]
    BY <1>10, <2>1
  <2>4. Funds' = [Funds EXCEPT ![User] = Funds[User] + Held[r]]
    BY <1>8, <2>1, <2>3
  <2>5. Quotas!Release(r)
    BY <2>2, <2>3, <2>4 DEF Quotas!Release
  <2>6. QED
    BY <2>5 DEF Quotas!Next
<1>13. ASSUME NEW r \in Requests, NEW price \in Nat,
              Pays(r, price) \/ \E a \in Answers : Answers200(r, a, price)
       PROVE  Quotas!Next
  <2>1. /\ pc[r] = "posted"
        /\ \E to \in {"answered", "unrendered"} : pc' = [pc EXCEPT ![r] = to]
        /\ price \in 0..(balance + estimate[r])
        /\ balance' = balance + estimate[r] - price /\ estimate' = estimate
    BY <1>13 DEF Answers200, Pays, Goto
  <2>2. /\ Phase' = [Phase EXCEPT ![r] = "captured"]
        /\ Held' = [Held EXCEPT ![r] = 0] /\ Owner' = Owner
    <3>1. PICK to \in {"answered", "unrendered"} : pc' = [pc EXCEPT ![r] = to]
      BY <2>1
    <3>2. to # "failed"
      OBVIOUS
    <3>3. QED
      BY <1>11, <2>1, <3>1, <3>2
  <2>3. Phase[r] = "holding" /\ Owner[r] = User /\ Held[r] = estimate[r]
    BY <1>10, <2>1
  <2>4. Funds' = [Funds EXCEPT ![User] = Funds[User] + Held[r] - price]
    BY <1>8, <2>1, <2>3
  <2>5. price \in 0..(Held[r] + Funds[User]) /\ price <= Held[r] + Funds[User]
    BY <1>0, <1>8, <2>1, <2>3
  <2>6. Quotas!Capture(r, price)
    BY <2>2, <2>3, <2>4, <2>5 DEF Quotas!Capture
  <2>7. QED
    BY <2>3, <2>5, <2>6 DEF Quotas!Next
<1>14. QED
  BY <1>4, <1>5, <1>6, <1>9, <1>12, <1>13 DEF RelayStep

(* s07 and s08 take a user's quota only as the ledger allows: what a       *)
(* request holds is captured at a price the balance covers, or released,   *)
(* once; for every number of requests, every body and every answer.        *)
THEOREM RelaysImplementLedger == RelaySpec => ImplementsLedger
<1>1. RelayInit => Quotas!Init
  BY DEF RelayInit, Quotas!Init, Funds, Owner, Phase, Held, LedgerPhase
<1>2. RelayIInv /\ [RelayNext]_allVars => [Quotas!Next]_(Quotas!ledgerVars)
  <2> SUFFICES ASSUME RelayIInv, [RelayNext]_allVars
               PROVE  [Quotas!Next]_(Quotas!ledgerVars)
    OBVIOUS
  <2>1. RelayStep
    BY RelayAssumption, RelayNextIsStep
  <2>2. Quotas!Next \/ UNCHANGED <<Funds, Owner, Phase, Held>>
    BY <2>1, RelayAssumption, Unbilled, BilledMoves
  <2>3. QED
    BY <2>2 DEF Quotas!ledgerVars
<1>3. QED
  BY <1>1, <1>2, RelayInvariance, PTL DEF RelaySpec, ImplementsLedger, Quotas!Spec

-----------------------------------------------------------------------------
(***************************************************************************)
(* What follows from the refinement of the ledger: LedgerProofs' theorems, *)
(* read of this handler.                                                   *)
(***************************************************************************)
Holds == INSTANCE LedgerProofs WITH
    Users   <- {User},
    NoUser  <- None,
    Deposit <- [u \in {User} |-> Deposit],
    funds   <- Funds,
    owner   <- Owner,
    phase   <- Phase,
    held    <- Held

LEMMA SameLedger == Quotas!Spec => Holds!Spec
<1>1. Quotas!Init => Holds!Init
  BY DEF Quotas!Init, Holds!Init
<1>2. [Quotas!Next]_(Quotas!ledgerVars) => [Holds!Next]_(Holds!ledgerVars)
  BY DEF Quotas!Next, Quotas!Hold, Quotas!Capture, Quotas!Release, Quotas!ledgerVars,
         Holds!Next, Holds!Hold, Holds!Capture, Holds!Release, Holds!ledgerVars
<1>3. QED
  BY <1>1, <1>2, PTL DEF Quotas!Spec, Holds!Spec

(* In s07 and s08 the balance with the open estimates is never more than   *)
(* the deposit, and each estimate is given back or settled at most once,   *)
(* for any bodies and answers.                                             *)
THEOREM RelaysNobodyGains == RelaySpec => []Holds!Covered /\ Holds!EndsOnce
<1>1. Holds!Spec => []Holds!Covered
  BY Holds!LedgerCovers, RelayAssumption DEF Requests, Holds!Numbered
<1>2. QED
  BY <1>1, Holds!HoldsEndOnce, SameLedger, RelaysImplementLedger, PTL DEF ImplementsLedger
=============================================================================
