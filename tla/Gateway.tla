------------------------------- MODULE Gateway -------------------------------
(***************************************************************************)
(* The application s_full around its chat handler: the metrics middleware  *)
(* (s_full/middleware/trace.py), the call log with its flush loop          *)
(* (s_full/models/log.py, the code that LogStore translates) and the       *)
(* startup and shutdown events (s_full/code.py).  The steps of handler and *)
(* generator are those of ChatCompletions; here what they give to          *)
(* enqueue_log goes into the buffer, and the middleware, which awaits the  *)
(* head of the response, counts the response at a later step.              *)
(***************************************************************************)
EXTENDS ChatCompletions, LogStore

VARIABLE counted   \* the status under which REQUESTS counted a request, or None

gatewayVars == <<vars, storeVars, counted>>

GatewayInit ==
    /\ Init
    /\ StoreInit(TRUE)
    /\ counted = [r \in Requests |-> None]

-----------------------------------------------------------------------------
(* Faults for the mutation runs: a log entry for every status 200, and a   *)
(* `finally' that counts exceptions too.                                   *)
LoggedWithHead(r, step) ==
    /\ step
    /\ IF status'[r] = 200 /\ status[r] # 200 THEN Enqueue(r) ELSE UNCHANGED storeVars
    /\ UNCHANGED counted

CountedAnyway(r) == status[r] # None

-----------------------------------------------------------------------------
(* A step of r's handler or generator: SettleAndLog calls enqueue_log.     *)
Within(r, step) ==
    /\ step
    /\ IF log'[r] = log[r] THEN UNCHANGED storeVars ELSE Enqueue(r)
    /\ UNCHANGED counted

(* An exception that is no HTTPException passes through the middleware on  *)
(* its way to the server's 500.                                            *)
Raised(r) == status[r] = 500 /\ pc[r] # "refunded"

(* The handler's response has a head, which call_next returns.             *)
HasHead(r) == status[r] # None /\ ~Raised(r)

(* A stream abandoned before its first step: Starlette was sending its     *)
(* head, and the middleware may or may not have got it.                    *)
Abandoned(r) == pc[r] = "stranded" /\ status[r] = None

-----------------------------------------------------------------------------
(* The server takes no requests any more once it shuts down.               *)
Request(r) ==
    /\ flusher = "running"
    /\ Within(r, Arrive(r))

Serve(r) == Within(r, PostEnds(r) \/ StreamSteps(r))

Count(r) ==
    /\ counted[r] = None
    /\ \/ HasHead(r) /\ counted' = [counted EXCEPT ![r] = status[r]]
       \/ Abandoned(r) /\ counted' = [counted EXCEPT ![r] = 200]
    /\ UNCHANGED <<vars, storeVars>>

Flush ==
    /\ FlushRound
    /\ UNCHANGED <<vars, counted>>

(* uvicorn lets a request in flight end before the shutdown event.         *)
NotInFlight(r) == pc[r] \notin Holding /\ (HasHead(r) => counted[r] # None)

Shutdown ==
    /\ \A r \in Requests : NotInFlight(r)
    /\ StopFlusher
    /\ UNCHANGED <<vars, counted>>

GatewayNext ==
    \/ Flush
    \/ Shutdown
    \/ \E r \in Requests : Request(r) \/ Serve(r) \/ Count(r)

GatewaySpec == GatewayInit /\ [][GatewayNext]_gatewayVars

(* An upstream that stays silent is cut off by the client's timeouts, the  *)
(* event loop starts generators and closes abandoned ones, and the flush   *)
(* loop's sleep of 100 ms ends.  A stream has no read timeout: nothing     *)
(* says an upstream ever ends one.                                         *)
GatewayFairSpec ==
    /\ GatewaySpec
    /\ WF_gatewayVars(Flush)
    /\ \A r \in Requests :
         /\ WF_gatewayVars(Within(r, TransportError(r)))
         /\ WF_gatewayVars(Within(r, StartStream(r)))
         /\ WF_gatewayVars(Within(r, CloseGenerator(r)))

-----------------------------------------------------------------------------
(* Type invariant: ChatCompletions', the log's and the metrics'.           *)
GatewayTypeOK ==
    /\ TypeOK
    /\ buffer \in Seq(Requests)
    /\ flushed \in Seq(Requests)
    /\ flusher \in {"running", "stopping", "ended"}
    /\ counted \in [Requests -> Statuses \cup {None}]

(* The metrics and the bills agree: a request counted as an error has cost *)
(* its user nothing, a plain request counted as a success was billed, and  *)
(* a billed request is never counted as an error: one that was billed but  *)
(* could not be answered is not counted at all.                            *)
MetricsMatchBills == \A r \in Requests : counted[r] # None =>
    /\ counted[r] # 200 => log[r] = None /\ pc[r] \in {"refused", "refunded"}
    /\ counted[r] = 200 /\ ~call[r].stream => log[r] # None

(* The log has one entry for each settled call, and none for streams that  *)
(* fail or are left after their 200 was sent.                              *)
LogIsTheBill == \A r \in Requests :
    IF pc[r] = "settled"
    THEN \E i \in 1..Len(Log) : Occurrences(r) = {i}
    ELSE Occurrences(r) = {}

(* The log of s_full is the same journal as s11's: whatever streams settle *)
(* while the loop drains or the server shuts down, no entry is lost,       *)
(* written twice or moved.                                                 *)
Journals == INSTANCE Journal WITH
    Entries <- Requests, written <- Log, published <- Len(flushed)

ImplementsJournal == Journals!Spec

(* Every settled call comes to be listed by /admin/logs, also one that is  *)
(* settled while the server shuts down.                                    *)
BilledCallsAreListed == \A r \in Requests : pc[r] = "settled" ~> r \in Listed
=============================================================================
