------------------------------ MODULE Observed -------------------------------
(***************************************************************************)
(* s16 over s13: s16's metrics middleware (s16_observability/code.py)      *)
(* around the mounted chapters, where s13's own chat route answers before  *)
(* any other.  The mounted application answers an exception of its handler *)
(* with its own 500 before the exception goes on, so, unlike in s_full,    *)
(* where handler and middleware are one application's, every request has   *)
(* a response that the middleware gets and counts.                         *)
(***************************************************************************)
EXTENDS Fallback

VARIABLE counted   \* the status under which REQUESTS counted a request, or None

observedVars == <<vars, counted>>

ObservedInit ==
    /\ Init
    /\ counted = [r \in Requests |-> None]

(* A fault for the mutation runs: exceptions that pass uncounted.          *)
CountedUnlessRaised(r) ==
    /\ status[r] \notin {None, 500}
    /\ counted[r] = None
    /\ counted' = [counted EXCEPT ![r] = status[r]]
    /\ UNCHANGED vars

(* call_next returns with the head of the response.                        *)
Count(r) ==
    /\ status[r] # None
    /\ counted[r] = None
    /\ counted' = [counted EXCEPT ![r] = status[r]]
    /\ UNCHANGED vars

ObservedNext ==
    \/ Next /\ UNCHANGED counted
    \/ \E r \in Requests : Count(r)

ObservedSpec == ObservedInit /\ [][ObservedNext]_observedVars

(* A silent channel is cut off by the client's timeouts, a client that is  *)
(* being closed comes to be closed, and a middleware goes on once the      *)
(* response it awaits has a head.                                          *)
ObservedFairSpec ==
    /\ ObservedSpec
    /\ \A r \in Requests :
         /\ WF_observedVars(TransportError(r) /\ UNCHANGED counted)
         /\ WF_observedVars(GiveUp(r) /\ UNCHANGED counted)
         /\ WF_observedVars(Count(r))

-----------------------------------------------------------------------------
(* The metrics tell what happened to quota and channels: a request counted *)
(* as a success was charged, one counted as an upstream's failure cost     *)
(* nothing and left every channel it might have used out of service.  Only *)
(* a 500 does not tell: it may be an upstream's, a text that could not be  *)
(* counted, or an answer that was paid for and could not be written out.   *)
MetricsTellOutcomes == \A r \in Requests : counted[r] # None =>
    /\ counted[r] = 200 => charged[r] # None
    /\ charged[r] # None => counted[r] \in {200, 500}
    /\ snapshot[r] # {} /\ counted[r] \notin {200, 500} =>
         /\ Phase[r] = "released"
         /\ \A c \in snapshot[r] : ~healthy[c]

(* The failover ends and every request that was let in comes to be         *)
(* answered and counted: channels that stay silent are given up one after  *)
(* the other, and failures of the handler count too.                       *)
AdmittedAreCounted == \A r \in Requests : pc[r] = "trying" ~> counted[r] # None
=============================================================================
