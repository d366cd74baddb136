----------------------------- MODULE CachedChat -----------------------------
(***************************************************************************)
(* POST /v1/chat/completions through the middlewares of s11 and s12.  s11  *)
(* logs every answer of status 200 (s11_call_logs/code.py); s12 mounts the *)
(* application s11 and answers repeated requests from its cache before     *)
(* s11 sees them (s12_caching/code.py).  A step is the code between two    *)
(* awaits: of the request's body, of call_next, of the response's body.    *)
(*                                                                         *)
(* The server runs one of the two applications.  Only the one it runs gets *)
(* the startup and shutdown events: a mounted application gets none, so    *)
(* the flush loop runs under s11 alone.                                    *)
(***************************************************************************)
EXTENDS Cache, LogStore

CONSTANTS NumRequests,
          Streamed,   \* payloads with stream set
          MaxClock    \* bound of the clock

Requests == 1..NumRequests

ASSUME ChatAssumption ==
    /\ NumRequests \in Nat
    /\ MaxClock \in Nat
    /\ Streamed \subseteq Payloads
    /\ None \notin Payloads
    /\ None \notin Requests
    /\ None \notin [expires : Nat, value : Requests]

VARIABLES app,         \* what uvicorn runs: "s11" or "s12"
          pc,          \* where the request stands
          payload,     \* its body, None before
          answer,      \* the request whose upstream answer it was given, or None
          answeredAt   \* the clock when it was answered

requestVars == <<pc, payload, answer, answeredAt>>

vars == <<app, now, store, buffer, flushed, flusher, pc, payload, answer, answeredAt>>

(* In the middle of the middlewares: waiting for the application below, or *)
(* logged and not yet in the cache.                                        *)
InFlight == {"forwarded", "logged"}

(* At the end: answered from upstream, from the cache, or not with a 200.  *)
Ended == {"answered", "hit", "failed"}

Init ==
    /\ app \in {"s11", "s12"}
    /\ CacheInit
    /\ StoreInit(app = "s11")
    /\ pc = [r \in Requests |-> "idle"]
    /\ payload = [r \in Requests |-> None]
    /\ answer = [r \in Requests |-> None]
    /\ answeredAt = [r \in Requests |-> 0]

-----------------------------------------------------------------------------
(* s12 looks at the cache for this body and keeps its answer.              *)
Cached(p) == app = "s12" /\ p \notin Streamed

(* The server takes the next request: requests are numbered as they come.  *)
Arrives(r, p) ==
    /\ pc[r] = "idle"
    /\ \A q \in 1..(r - 1) : pc[q] # "idle"
    /\ flusher \notin {"stopping", "ended"}
    /\ payload' = [payload EXCEPT ![r] = p]

Answered(r, how, origin) ==
    /\ pc' = [pc EXCEPT ![r] = how]
    /\ answer' = [answer EXCEPT ![r] = origin]
    /\ answeredAt' = [answeredAt EXCEPT ![r] = now]

-----------------------------------------------------------------------------
Hit(r, p) ==
    /\ Cached(p) /\ Fresh(p)
    /\ Arrives(r, p)
    /\ Answered(r, "hit", store[p].value)
    /\ UNCHANGED <<app, now, store, storeVars>>

Miss(r, p) ==
    /\ Cached(p)
    /\ Drop(p)
    /\ Arrives(r, p)
    /\ pc' = [pc EXCEPT ![r] = "forwarded"]
    /\ UNCHANGED <<app, now, storeVars, answer, answeredAt>>

(* s11 by itself, or a streamed request in s12.                            *)
Bypass(r, p) ==
    /\ ~Cached(p)
    /\ Arrives(r, p)
    /\ pc' = [pc EXCEPT ![r] = "forwarded"]
    /\ UNCHANGED <<app, now, store, storeVars, answer, answeredAt>>

(* JSON that is no object has no get: s12 fails before it forwards.        *)
NotAnObject(r) ==
    /\ app = "s12"
    /\ Arrives(r, None)
    /\ pc' = [pc EXCEPT ![r] = "failed"]
    /\ UNCHANGED <<app, now, store, storeVars, answer, answeredAt>>

(* Another status, or an exception below: neither logged nor kept.         *)
Fail(r) ==
    /\ pc[r] = "forwarded"
    /\ pc' = [pc EXCEPT ![r] = "failed"]
    /\ UNCHANGED <<app, now, store, storeVars, payload, answer, answeredAt>>

(* LogMiddleware has a 200 and has read its body.  Unless s12 still has to *)
(* read it too, the client is answered.                                    *)
LogCall(r) ==
    /\ pc[r] = "forwarded"
    /\ Enqueue(r)
    /\ IF Cached(payload[r])
       THEN /\ pc' = [pc EXCEPT ![r] = "logged"]
            /\ UNCHANGED <<answer, answeredAt>>
       ELSE Answered(r, "answered", r)
    /\ UNCHANGED <<app, now, store, payload>>

(* CacheMiddleware has read the body as well, and keeps it.                *)
KeepAnswer(r) ==
    /\ pc[r] = "logged"
    /\ Put(payload[r], r)
    /\ Answered(r, "answered", r)
    /\ UNCHANGED <<app, now, storeVars, payload>>

-----------------------------------------------------------------------------
Flush ==
    /\ FlushRound
    /\ UNCHANGED <<app, now, store, requestVars>>

(* uvicorn shuts down: it takes no new requests and lets those in flight   *)
(* end before the shutdown event.                                          *)
Shutdown ==
    /\ \A r \in Requests : pc[r] \notin InFlight
    /\ StopFlusher
    /\ UNCHANGED <<app, now, store, requestVars>>

Tick ==
    /\ now < MaxClock
    /\ now' = now + 1
    /\ UNCHANGED <<app, store, storeVars, requestVars>>

Arrive(r) ==
    \/ NotAnObject(r)
    \/ \E p \in Payloads : Hit(r, p) \/ Miss(r, p) \/ Bypass(r, p)

Next ==
    \/ Flush
    \/ Shutdown
    \/ Tick
    \/ \E r \in Requests : Arrive(r) \/ Fail(r) \/ LogCall(r) \/ KeepAnswer(r)

Spec == Init /\ [][Next]_vars

-----------------------------------------------------------------------------
(* Type invariant.                                                         *)
TypeOK ==
    /\ app \in {"s11", "s12"}
    /\ now \in 0..MaxClock
    /\ store \in [Payloads -> [expires : 0..(MaxClock + TTL), value : Requests] \cup {None}]
    /\ buffer \in Seq(Requests)
    /\ flushed \in Seq(Requests)
    /\ flusher \in {"off", "running", "stopping", "ended"}
    /\ pc \in [Requests -> {"idle"} \cup InFlight \cup Ended]
    /\ payload \in [Requests -> Payloads \cup {None}]
    /\ answer \in [Requests -> Requests \cup {None}]
    /\ answeredAt \in [Requests -> 0..MaxClock]

(* What the cache serves is the answer an upstream gave to the same body,  *)
(* given at most a TTL ago, and no later answer to that body is passed     *)
(* over, whichever of several concurrent misses came back last.            *)
HitsAreFresh == \A r \in Requests : pc[r] = "hit" =>
    /\ answer[r] \in Requests
    /\ pc[answer[r]] = "answered"
    /\ payload[answer[r]] = payload[r]
    /\ answeredAt[r] \in answeredAt[answer[r]]..(answeredAt[answer[r]] + TTL)
    /\ \A q \in Requests : pc[q] = "answered" /\ payload[q] = payload[r] =>
         ~(answeredAt[answer[r]] < answeredAt[q] /\ answeredAt[q] < answeredAt[r])

(* The log has one entry for each 200 that came from upstream, so also for *)
(* the origin of everything in the cache, and none for failed calls or     *)
(* hits.                                                                   *)
LoggedOnce == \A r \in Requests :
    IF pc[r] \in {"logged", "answered"}
    THEN \E i \in 1..Len(Log) : Occurrences(r) = {i}
    ELSE Occurrences(r) = {}

(* After the shutdown event nothing is left in the buffer: the last batch  *)
(* is listed (s11_call_logs/code.py:53-56).                                *)
NothingLeftBehind == flusher \in {"stopping", "ended"} => buffer = <<>>

(* The log is a journal: a drain moves everything, in order, and neither   *)
(* loses nor repeats an entry, whatever is enqueued between two rounds.    *)
Journals == INSTANCE Journal WITH
    Entries <- Requests, written <- Log, published <- Len(flushed)

ImplementsJournal == Journals!Spec
=============================================================================
