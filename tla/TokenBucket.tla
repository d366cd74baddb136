----------------------------- MODULE TokenBucket -----------------------------
(***************************************************************************)
(* One user's token bucket: s_full/services/rate_limit.py, and line for    *)
(* line s08_rate_limiting/bucket.py.  Every function runs under one lock   *)
(* and touches one user's entries, so buckets do not interact.  Time is    *)
(* time.monotonic() in ticks, and amounts are whole multiples of a tick's  *)
(* refill.  A call of take reads the clock twice, and the second reading   *)
(* may be later than the first.                                            *)
(***************************************************************************)
EXTENDS Integers, Sequences

CONSTANTS None,
          Default,     \* the (60.0, 1.0) a user gets at the first take
          Configs,     \* the limits configure may be called with
          RequestCost, \* take's cost: one request
          MaxLag,      \* the longest time between take's two clock readings
          MaxClock     \* bound on time

Limits == [capacity : Nat, refill : Nat]

ASSUME BucketAssumption ==
    /\ Default \in Limits
    /\ Configs \subseteq Limits
    /\ None \notin Limits
    /\ RequestCost \in Nat \ {0}
    /\ MaxLag \in Nat
    /\ MaxClock \in Nat

VARIABLES limits,    \* _caps[user], None before the first use
          tokens,    \* _buckets[user]: the amount
          last,      \* _buckets[user]: when the amount was right
          clock,
          grants     \* when requests were let through, under these limits

vars == <<limits, tokens, last, clock, grants>>

Init ==
    /\ limits = None
    /\ tokens = 0
    /\ last = 0
    /\ clock = 0
    /\ grants = <<>>

-----------------------------------------------------------------------------
CurrentLimits == IF limits = None THEN Default ELSE limits

(* A fault for the mutation runs: a refill that is not capped.             *)
UncappedRefill ==
    IF limits = None THEN Default.capacity ELSE tokens + (clock - last) * limits.refill

(* _refill, and the bucket take creates full for a new user.               *)
Available ==
    IF limits = None THEN Default.capacity
    ELSE LET filled == tokens + (clock - last) * limits.refill
         IN  IF filled > limits.capacity THEN limits.capacity ELSE filled

(* A fault for the mutation runs: a denial that drops the refill it has    *)
(* just computed.                                                          *)
RefillLost ==
    /\ limits # None
    /\ Available < RequestCost
    /\ last' = clock
    /\ UNCHANGED <<limits, tokens, clock, grants>>

(* take returns True.  The entry is stamped with the second reading.       *)
Grant ==
    \E lag \in 0..MaxLag :
        /\ clock + lag <= MaxClock
        /\ Available >= RequestCost
        /\ limits' = CurrentLimits
        /\ tokens' = Available - RequestCost
        /\ last' = clock + lag
        /\ clock' = clock + lag
        /\ grants' = Append(grants, clock)

(* take returns False.  The refill is stored all the same.                 *)
Deny ==
    /\ Available < RequestCost
    /\ limits' = CurrentLimits
    /\ tokens' = Available
    /\ last' = clock
    /\ UNCHANGED <<clock, grants>>

(* configure: new limits and a full bucket, whatever was left before.      *)
Configure(config) ==
    /\ limits' = config
    /\ tokens' = config.capacity
    /\ last' = clock
    /\ grants' = <<>>
    /\ UNCHANGED clock

Wait ==
    /\ clock < MaxClock
    /\ clock' = clock + 1
    /\ UNCHANGED <<limits, tokens, last, grants>>

Next ==
    \/ Grant
    \/ Deny
    \/ \E config \in Configs : Configure(config)
    \/ Wait

Spec == Init /\ [][Next]_vars

-----------------------------------------------------------------------------
(* Type invariant: no bucket is overdrawn, whatever the order of calls.    *)
TypeOK ==
    /\ limits \in Limits \cup {None}
    /\ tokens \in Nat
    /\ last \in Nat
    /\ clock \in Nat
    /\ last <= clock
    /\ grants \in Seq(Nat)
    /\ limits = None => grants = <<>>

(* What the limiter is for: in every window of time, from any request let  *)
(* through to any later one, at most a full bucket and the window's refill *)
(* are spent.                                                              *)
WindowBound ==
    \A i, j \in 1..Len(grants) : i <= j =>
        (j - i + 1) * RequestCost <= limits.capacity + limits.refill * (grants[j] - grants[i])

(* The limiter takes nothing that was not used: the bucket is full, or     *)
(* what is missing was spent since some grant, less the refill since then. *)
(* A grant may also lose the refill of the time between take's readings.   *)
MissingIsSpent ==
    limits # None =>
        \/ tokens = limits.capacity
        \/ \E i \in 1..Len(grants) :
              limits.capacity - tokens <=
                  (Len(grants) - i + 1) * (RequestCost + limits.refill * MaxLag)
                      - limits.refill * (last - grants[i])
=============================================================================
