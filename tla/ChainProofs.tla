----------------------------- MODULE ChainProofs -----------------------------
(***************************************************************************)
(* Theorems about CachedChat and Chain for any number of requests, users,  *)
(* bodies and counts, any TTL and any bound of the clock.  The first half  *)
(* speaks of CachedChat, where a forwarded call may end as it likes; the   *)
(* second of Chain, whose steps are steps of CachedChat, so that the first *)
(* half holds of it too.                                                   *)
(***************************************************************************)
EXTENDS Chain, SequenceTheorems, TLAPS

(* No request was answered later than now.                                 *)
NotLater == \A r \in Requests : answeredAt[r] <= now

(* An entry of the cache is the last answer given to its body, and expires *)
(* a TTL after it; only bodies that s12 looks up have entries.             *)
LastAnswerKept == \A p \in Payloads : store[p] # None =>
    /\ Cached(p)
    /\ pc[store[p].value] = "answered"
    /\ payload[store[p].value] = p
    /\ store[p].expires = answeredAt[store[p].value] + TTL
    /\ \A q \in Requests : pc[q] = "answered" /\ payload[q] = p =>
         answeredAt[q] <= answeredAt[store[p].value]

CacheInv == NotLater /\ LastAnswerKept /\ HitsAreFresh

IInv == TypeOK /\ CacheInv

-----------------------------------------------------------------------------
(* An entry of the store, if there is one.                                 *)
LEMMA EntryType ==
    ASSUME TypeOK, NEW p \in Payloads, store[p] # None
    PROVE  store[p].expires \in Nat /\ store[p].value \in Requests
  BY ChatAssumption, CacheAssumption DEF TypeOK

LEMMA DrainType ==
    ASSUME TypeOK, Drain
    PROVE  buffer' \in Seq(Requests) /\ flushed' \in Seq(Requests)
  BY ConcatProperties, EmptySeq DEF TypeOK, Drain

LEMMA EnqueueType ==
    ASSUME TypeOK, NEW r \in Requests, Enqueue(r)
    PROVE  buffer' \in Seq(Requests) /\ flushed' \in Seq(Requests) /\ flusher' = flusher
  BY DEF TypeOK, Enqueue

LEMMA InitInv == Init => IInv
<1> SUFFICES ASSUME Init PROVE IInv
  OBVIOUS
<1>1. TypeOK
  BY ChatAssumption, CacheAssumption, EmptySeq
  DEF Init, CacheInit, StoreInit, TypeOK, InFlight, Ended
<1>2. CacheInv
  BY <1>1 DEF Init, CacheInit, CacheInv, NotLater, LastAnswerKept, HitsAreFresh
<1>3. QED
  BY <1>1, <1>2 DEF IInv

-----------------------------------------------------------------------------
(* Every step keeps the types.                                             *)
LEMMA TypeStep ==
    ASSUME TypeOK, [Next]_vars
    PROVE  TypeOK'
<1> USE ChatAssumption, CacheAssumption
<1>1. CASE Flush
  BY <1>1, DrainType DEF Flush, FlushRound, TypeOK, requestVars
<1>2. CASE Shutdown
  BY <1>2, DrainType DEF Shutdown, StopFlusher, TypeOK, requestVars
<1>3. CASE Tick
  BY <1>3 DEF Tick, TypeOK, requestVars, storeVars
<1>4. ASSUME NEW r \in Requests, NEW p \in Payloads, Hit(r, p)
      PROVE  TypeOK'
  <2>1. store[p].value \in Requests
    BY <1>4, EntryType DEF Hit, Fresh
  <2>2. QED
    BY <1>4, <2>1 DEF Hit, Arrives, Answered, TypeOK, storeVars, Ended
<1>5. ASSUME NEW r \in Requests, NEW p \in Payloads, Miss(r, p)
      PROVE  TypeOK'
  BY <1>5 DEF Miss, Drop, Arrives, TypeOK, storeVars, InFlight
<1>6. ASSUME NEW r \in Requests, NEW p \in Payloads, Bypass(r, p)
      PROVE  TypeOK'
  BY <1>6 DEF Bypass, Arrives, TypeOK, storeVars, InFlight
<1>7. ASSUME NEW r \in Requests, NotAnObject(r)
      PROVE  TypeOK'
  BY <1>7 DEF NotAnObject, Arrives, TypeOK, storeVars, Ended
<1>8. ASSUME NEW r \in Requests, Fail(r)
      PROVE  TypeOK'
  BY <1>8 DEF Fail, TypeOK, storeVars, Ended
<1>9. ASSUME NEW r \in Requests, LogCall(r)
      PROVE  TypeOK'
  <2>1. /\ buffer' \in Seq(Requests)
        /\ flushed' \in Seq(Requests)
        /\ flusher' = flusher
    BY <1>9, EnqueueType DEF LogCall
  <2>2. /\ pc' \in [Requests -> {"idle"} \cup InFlight \cup Ended]
        /\ answer' \in [Requests -> Requests \cup {None}]
        /\ answeredAt' \in [Requests -> 0..MaxClock]
    <3>1. CASE Cached(payload[r])
      BY <1>9, <3>1 DEF LogCall, TypeOK, InFlight
    <3>2. CASE ~Cached(payload[r])
      <4>1. Answered(r, "answered", r)
        BY <1>9, <3>2 DEF LogCall
      <4>2. QED
        BY <4>1 DEF Answered, TypeOK, Ended
    <3>3. QED
      BY <3>1, <3>2
  <2>3. QED
    BY <1>9, <2>1, <2>2 DEF LogCall, TypeOK
<1>10. ASSUME NEW r \in Requests, KeepAnswer(r)
       PROVE  TypeOK'
  <2>1. now + TTL \in 0..(MaxClock + TTL)
    BY DEF TypeOK
  <2>2. store' \in [Payloads -> [expires : 0..(MaxClock + TTL), value : Requests] \cup {None}]
    BY <1>10, <2>1 DEF KeepAnswer, Put, TypeOK
  <2>3. QED
    BY <1>10, <2>2 DEF KeepAnswer, Answered, TypeOK, storeVars, Ended
<1>11. CASE UNCHANGED vars
  BY <1>11 DEF vars, TypeOK
<1>12. QED
  BY <1>1, <1>2, <1>3, <1>4, <1>5, <1>6, <1>7, <1>8, <1>9, <1>10, <1>11 DEF Next, Arrive

-----------------------------------------------------------------------------
(***************************************************************************)
(* The cache.  Most steps answer nobody and put nothing into the cache.    *)
(***************************************************************************)
Open == {"idle", "forwarded", "logged", "failed"}

QuietStep ==
    /\ UNCHANGED <<app, answer, answeredAt>>
    /\ now' \in Int /\ now <= now'
    /\ \A p \in Payloads : store'[p] \in {store[p], None}
    /\ \A r \in Requests :
         \/ pc'[r] = pc[r] /\ payload'[r] = payload[r]
         \/ pc[r] \in Open /\ pc'[r] \in Open

LEMMA QuietKeeps ==
    ASSUME IInv, QuietStep
    PROVE  CacheInv'
<1> USE DEF IInv
<1>1. \A r \in Requests :
        /\ pc'[r] = "answered" <=> pc[r] = "answered"
        /\ pc'[r] = "hit" <=> pc[r] = "hit"
        /\ pc[r] \in {"answered", "hit"} => payload'[r] = payload[r]
  BY DEF QuietStep, Open
<1>2. NotLater'
  BY DEF QuietStep, CacheInv, NotLater, TypeOK
<1>3. LastAnswerKept'
  <2> SUFFICES ASSUME NEW p \in Payloads, store'[p] # None
               PROVE  LastAnswerKept!(p)'
    BY DEF LastAnswerKept
  <2>1. store'[p] = store[p] /\ store[p] # None /\ store[p].value \in Requests
    BY EntryType DEF QuietStep
  <2>2. QED
    BY <1>1, <2>1 DEF QuietStep, CacheInv, LastAnswerKept, Cached
<1>4. HitsAreFresh'
  <2> SUFFICES ASSUME NEW r \in Requests, pc'[r] = "hit"
               PROVE  HitsAreFresh!(r)'
    BY DEF HitsAreFresh
  <2>1. pc[r] = "hit" /\ answer[r] \in Requests /\ pc[answer[r]] = "answered"
    BY <1>1 DEF CacheInv, HitsAreFresh
  <2>2. QED
    BY <1>1, <2>1 DEF QuietStep, CacheInv, HitsAreFresh
<1>5. QED
  BY <1>2, <1>3, <1>4 DEF CacheInv
(* An answer from upstream that is not kept: its body has no entry.        *)
LEMMA LoggedKeeps ==
    ASSUME IInv, NEW r \in Requests, LogCall(r), ~Cached(payload[r])
    PROVE  CacheInv'
<1> USE DEF IInv
<1>1. /\ pc[r] = "forwarded"
      /\ pc' = [pc EXCEPT ![r] = "answered"]
      /\ answer' = [answer EXCEPT ![r] = r]
      /\ answeredAt' = [answeredAt EXCEPT ![r] = now]
      /\ UNCHANGED <<app, now, store, payload>>
  BY DEF LogCall, Answered
<1>2. NotLater'
  BY <1>1 DEF CacheInv, NotLater, TypeOK
<1>3. LastAnswerKept'
  <2> SUFFICES ASSUME NEW p \in Payloads, store[p] # None
               PROVE  LastAnswerKept!(p)'
    BY <1>1 DEF LastAnswerKept
  <2>1. payload[r] # p /\ store[p].value \in Requests /\ store[p].value # r
    BY <1>1, EntryType DEF CacheInv, LastAnswerKept, Cached
  <2>2. QED
    BY <1>1, <2>1 DEF CacheInv, LastAnswerKept, Cached, TypeOK
<1>4. HitsAreFresh'
  <2> SUFFICES ASSUME NEW q \in Requests, pc'[q] = "hit"
               PROVE  HitsAreFresh!(q)'
    BY DEF HitsAreFresh
  <2>1. q # r /\ pc[q] = "hit"
    BY <1>1 DEF TypeOK
  <2>2. answer[q] \in Requests /\ answer[q] # r
    BY <1>1, <2>1 DEF CacheInv, HitsAreFresh
  <2>3. answeredAt[q] <= now
    BY DEF CacheInv, NotLater
  <2>4. QED
    BY <1>1, <2>1, <2>2, <2>3 DEF CacheInv, HitsAreFresh, TypeOK
<1>5. QED
  BY <1>2, <1>3, <1>4 DEF CacheInv

(* An answer that is kept is the last one given to its body.               *)
LEMMA KeptKeeps ==
    ASSUME IInv, NEW r \in Requests, KeepAnswer(r), Cached(payload[r])
    PROVE  CacheInv'
<1> USE DEF IInv
<1>1. /\ pc[r] = "logged"
      /\ pc' = [pc EXCEPT ![r] = "answered"]
      /\ answer' = [answer EXCEPT ![r] = r]
      /\ answeredAt' = [answeredAt EXCEPT ![r] = now]
      /\ store' = [store EXCEPT ![payload[r]] = [expires |-> now + TTL, value |-> r]]
      /\ UNCHANGED <<app, now, payload>>
  BY DEF KeepAnswer, Put, Answered
<1>2. NotLater'
  BY <1>1 DEF CacheInv, NotLater, TypeOK
<1>3. LastAnswerKept'
  <2> SUFFICES ASSUME NEW p \in Payloads, store'[p] # None
               PROVE  LastAnswerKept!(p)'
    BY DEF LastAnswerKept
  <2>1. CASE p = payload[r]
    <3>1. store'[p] = [expires |-> now + TTL, value |-> r]
      BY <1>1, <2>1 DEF TypeOK
    <3>2. pc'[r] = "answered" /\ answeredAt'[r] = now /\ payload'[r] = p
      BY <1>1, <2>1 DEF TypeOK
    <3>3. Cached(p)'
      BY <1>1, <2>1 DEF Cached
    <3>4. QED
      BY <1>1, <1>2, <3>1, <3>2, <3>3 DEF NotLater
  <2>2. CASE p # payload[r]
    <3>1. store'[p] = store[p] /\ store[p] # None /\ store[p].value \in Requests
      BY <1>1, <2>2, EntryType DEF TypeOK
    <3>2. store[p].value # r
      BY <1>1, <3>1 DEF CacheInv, LastAnswerKept
    <3>3. /\ Cached(p)' <=> Cached(p)
          /\ pc'[store[p].value] = pc[store[p].value]
          /\ answeredAt'[store[p].value] = answeredAt[store[p].value]
      BY <1>1, <3>1, <3>2 DEF Cached, TypeOK
    <3>4. \A q \in Requests : pc'[q] = "answered" /\ payload'[q] = p =>
            pc[q] = "answered" /\ payload[q] = p /\ answeredAt'[q] = answeredAt[q]
      BY <1>1, <2>2 DEF TypeOK
    <3>5. QED
      BY <1>1, <3>1, <3>3, <3>4 DEF CacheInv, LastAnswerKept
  <2>3. QED
    BY <2>1, <2>2
<1>4. HitsAreFresh'
  <2> SUFFICES ASSUME NEW q \in Requests, pc'[q] = "hit"
               PROVE  HitsAreFresh!(q)'
    BY DEF HitsAreFresh
  <2>1. q # r /\ pc[q] = "hit"
    BY <1>1 DEF TypeOK
  <2>2. answer[q] \in Requests /\ answer[q] # r
    BY <1>1, <2>1 DEF CacheInv, HitsAreFresh
  <2>3. answeredAt[q] <= now
    BY DEF CacheInv, NotLater
  <2>4. QED
    BY <1>1, <2>1, <2>2, <2>3 DEF CacheInv, HitsAreFresh, TypeOK
<1>5. QED
  BY <1>2, <1>3, <1>4 DEF CacheInv

(* A hit serves the kept answer before its expiry.                         *)
LEMMA HitKeeps ==
    ASSUME IInv, NEW r \in Requests, NEW p \in Payloads, Hit(r, p)
    PROVE  CacheInv'
<1> USE DEF IInv
<1> DEFINE origin == store[p].value
<1>1. /\ pc[r] = "idle"
      /\ payload' = [payload EXCEPT ![r] = p]
      /\ pc' = [pc EXCEPT ![r] = "hit"]
      /\ answer' = [answer EXCEPT ![r] = origin]
      /\ answeredAt' = [answeredAt EXCEPT ![r] = now]
      /\ UNCHANGED <<app, now, store>>
      /\ store[p] # None /\ store[p].expires >= now
  BY DEF Hit, Arrives, Answered, Fresh
<1>2. /\ origin \in Requests
      /\ pc[origin] = "answered"
      /\ payload[origin] = p
      /\ store[p].expires = answeredAt[origin] + TTL
      /\ \A q \in Requests : pc[q] = "answered" /\ payload[q] = p =>
           answeredAt[q] <= answeredAt[origin]
  BY <1>1, EntryType DEF CacheInv, LastAnswerKept
<1> HIDE DEF origin
<1>3. NotLater'
  BY <1>1 DEF CacheInv, NotLater, TypeOK
<1>4. LastAnswerKept'
  <2> SUFFICES ASSUME NEW k \in Payloads, store[k] # None
               PROVE  LastAnswerKept!(k)'
    BY <1>1 DEF LastAnswerKept
  <2>1. store[k].value \in Requests /\ store[k].value # r
    BY <1>1, EntryType DEF CacheInv, LastAnswerKept
  <2>2. QED
    BY <1>1, <2>1 DEF CacheInv, LastAnswerKept, Cached, TypeOK
<1>5. HitsAreFresh'
  <2> SUFFICES ASSUME NEW q \in Requests, pc'[q] = "hit"
               PROVE  HitsAreFresh!(q)'
    BY DEF HitsAreFresh
  <2>1. CASE q = r
    <3>1. answer'[r] = origin /\ origin # r /\ answeredAt'[r] = now /\ payload'[r] = p
      BY <1>1, <1>2 DEF TypeOK
    <3>2. /\ pc'[origin] = "answered"
          /\ payload'[origin] = p
          /\ answeredAt'[origin] = answeredAt[origin]
      BY <1>1, <1>2, <3>1 DEF TypeOK
    <3>3. now \in answeredAt[origin]..(answeredAt[origin] + TTL)
      BY <1>1, <1>2, CacheAssumption DEF CacheInv, NotLater, TypeOK
    <3>4. \A s \in Requests : pc'[s] = "answered" /\ payload'[s] = p =>
            answeredAt'[s] <= answeredAt[origin]
      BY <1>1, <1>2 DEF TypeOK
    <3>5. answeredAt' \in [Requests -> Int]
      BY <1>1 DEF TypeOK
    <3>6. QED
      BY <1>2, <2>1, <3>1, <3>2, <3>3, <3>4, <3>5
  <2>2. CASE q # r
    <3>1. pc[q] = "hit" /\ answer[q] \in Requests /\ answer[q] # r
      BY <1>1, <2>2 DEF CacheInv, HitsAreFresh, TypeOK
    <3>2. QED
      BY <1>1, <2>2, <3>1 DEF CacheInv, HitsAreFresh, TypeOK
  <2>3. QED
    BY <2>1, <2>2
<1>6. QED
  BY <1>3, <1>4, <1>5 DEF CacheInv

-----------------------------------------------------------------------------
(* A logged answer that s12 still has to read is one it keeps.             *)
LoggedAreCached == \A r \in Requests : pc[r] = "logged" => Cached(payload[r])

LEMMA LoggedAreCachedStep ==
    ASSUME TypeOK, LoggedAreCached, [Next]_vars
    PROVE  LoggedAreCached'
<1>1. CASE \E r \in Requests : LogCall(r)
  <2>1. PICK r \in Requests : LogCall(r)
    BY <1>1
  <2>2. CASE Cached(payload[r])
    BY <2>1, <2>2 DEF LogCall, LoggedAreCached, Cached, TypeOK
  <2>3. CASE ~Cached(payload[r])
    <3>1. pc' = [pc EXCEPT ![r] = "answered"]
      BY <2>1, <2>3 DEF LogCall, Answered
    <3>2. QED
      BY <2>1, <3>1 DEF LogCall, LoggedAreCached, Cached, TypeOK
  <2>4. QED
    BY <2>2, <2>3
<1>2. ASSUME NEW r \in Requests, Arrive(r)
      PROVE  LoggedAreCached'
  <2>1. \A q \in Requests \ {r} : pc'[q] = pc[q] /\ payload'[q] = payload[q]
    BY <1>2 DEF Arrive, Hit, Miss, Bypass, NotAnObject, Arrives, Answered, TypeOK
  <2>2. pc'[r] # "logged" /\ app' = app
    BY <1>2 DEF Arrive, Hit, Miss, Bypass, NotAnObject, Answered, TypeOK
  <2>3. QED
    BY <2>1, <2>2 DEF LoggedAreCached, Cached
<1>3. CASE \E r \in Requests : Fail(r) \/ KeepAnswer(r)
  BY <1>3 DEF Fail, KeepAnswer, Answered, LoggedAreCached, Cached, TypeOK
<1>4. CASE Flush \/ Shutdown \/ Tick \/ UNCHANGED vars
  BY <1>4 DEF Flush, Shutdown, Tick, vars, requestVars, LoggedAreCached, Cached
<1>5. QED
  BY <1>1, <1>2, <1>3, <1>4 DEF Next

LEMMA CacheStep ==
    ASSUME IInv, LoggedAreCached, [Next]_vars
    PROVE  CacheInv'
<1> USE DEF IInv
<1>1. CASE Flush \/ Shutdown \/ Tick \/ UNCHANGED vars
  <2>1. QuietStep
    BY <1>1 DEF Flush, Shutdown, Tick, vars, requestVars, QuietStep, TypeOK
  <2>2. QED
    BY <2>1, QuietKeeps
<1>2. ASSUME NEW r \in Requests, NEW p \in Payloads, Miss(r, p) \/ Bypass(r, p)
      PROVE  CacheInv'
  <2>1. QuietStep
    BY <1>2 DEF Miss, Bypass, Drop, Arrives, QuietStep, Open, TypeOK
  <2>2. QED
    BY <2>1, QuietKeeps
<1>3. ASSUME NEW r \in Requests, NotAnObject(r) \/ Fail(r)
      PROVE  CacheInv'
  <2>1. QuietStep
    BY <1>3 DEF NotAnObject, Fail, Arrives, QuietStep, Open, TypeOK
  <2>2. QED
    BY <2>1, QuietKeeps
<1>4. ASSUME NEW r \in Requests, LogCall(r)
      PROVE  CacheInv'
  <2>1. CASE Cached(payload[r])
    <3>1. QuietStep
      BY <1>4, <2>1 DEF LogCall, QuietStep, Open, TypeOK
    <3>2. QED
      BY <3>1, QuietKeeps
  <2>2. QED
    BY <1>4, <2>1, LoggedKeeps
<1>5. ASSUME NEW r \in Requests, KeepAnswer(r)
      PROVE  CacheInv'
  BY <1>5, KeptKeeps DEF KeepAnswer, LoggedAreCached
<1>6. QED
  BY <1>1, <1>2, <1>3, <1>4, <1>5, HitKeeps DEF Next, Arrive

(* The bodies, the store, the log and the clock keep their types for any   *)
(* number of requests.                                                     *)
THEOREM CachedTypeCorrect == Spec => []TypeOK
<1>1. Init => TypeOK
  BY InitInv DEF IInv
<1>2. QED
  BY <1>1, TypeStep, PTL DEF Spec

(* Whatever requests miss, come back and expire in whatever order, a hit   *)
(* is the last answer to its body and at most a TTL old (cache.py, get and *)
(* set, as CacheMiddleware calls them).                                    *)
THEOREM HitsAreAlwaysFresh == Spec => []HitsAreFresh
<1> DEFINE Inv == IInv /\ LoggedAreCached
<1>1. Init => Inv
  BY InitInv DEF Init, LoggedAreCached
<1>2. Inv /\ [Next]_vars => Inv'
  BY TypeStep, CacheStep, LoggedAreCachedStep DEF IInv
<1>3. Inv => HitsAreFresh
  BY DEF IInv, CacheInv
<1>4. QED
  BY <1>1, <1>2, <1>3, PTL DEF Spec

-----------------------------------------------------------------------------
(***************************************************************************)
(* The log.  A step writes at most one entry at its end, and what a drain  *)
(* moves was written before.                                               *)
(***************************************************************************)
LEMMA LogType ==
    ASSUME TypeOK
    PROVE  /\ Log \in Seq(Requests)
           /\ Len(Log) = Len(flushed) + Len(buffer)
           /\ Len(flushed) \in Nat
           /\ Len(buffer) \in Nat
  BY ConcatProperties, LenProperties DEF TypeOK, Log

LEMMA DrainKeepsLog ==
    ASSUME TypeOK, Drain
    PROVE  Log' = Log /\ Len(flushed') = Len(Log)
<1>1. flushed' \in Seq(Requests) /\ flushed' = Log /\ buffer' = <<>>
  BY DrainType DEF Drain, Log
<1>2. Log' = flushed' \o <<>>
  BY <1>1 DEF Log
<1>3. QED
  BY <1>1, <1>2, ConcatEmptySeq

LEMMA EnqueueAppends ==
    ASSUME TypeOK, NEW r \in Requests, Enqueue(r)
    PROVE  Log' = Append(Log, r) /\ flushed' = flushed
<1>1. /\ buffer \in Seq(Requests)
      /\ flushed \in Seq(Requests)
      /\ <<r>> \in Seq(Requests)
      /\ flushed \o buffer \in Seq(Requests)
  BY ConcatProperties DEF TypeOK
<1>2. buffer' = buffer \o <<r>> /\ flushed' = flushed
  BY <1>1, AppendIsConcat DEF Enqueue
<1>3. flushed \o (buffer \o <<r>>) = (flushed \o buffer) \o <<r>>
  BY <1>1, ConcatAssociative
<1>4. QED
  BY <1>1, <1>2, <1>3, AppendIsConcat DEF Log

(* What a step does to the log: nothing, a drain, or one entry of a call   *)
(* that was forwarded.                                                     *)
Logs(r) ==
    /\ Log' = Append(Log, r)
    /\ flushed' = flushed
    /\ pc[r] = "forwarded"
    /\ \A q \in Requests : pc'[q] = IF q = r THEN pc'[r] ELSE pc[q]
    /\ pc'[r] \in {"logged", "answered"}

Keeps ==
    /\ Log' = Log
    /\ flushed' = flushed \/ Len(flushed') = Len(Log)
    /\ \A q \in Requests :
         pc'[q] \in {"logged", "answered"} <=> pc[q] \in {"logged", "answered"}

LEMMA LogSteps ==
    ASSUME TypeOK, [Next]_vars
    PROVE  Keeps \/ \E r \in Requests : Logs(r)
<1>1. CASE Flush \/ Shutdown
  <2>1. Drain /\ pc' = pc
    BY <1>1 DEF Flush, Shutdown, FlushRound, StopFlusher, requestVars
  <2>2. QED
    BY <2>1, DrainKeepsLog DEF Keeps
<1>2. CASE Tick \/ UNCHANGED vars
  BY <1>2 DEF Tick, vars, storeVars, requestVars, Keeps, Log
<1>3. ASSUME NEW r \in Requests, Arrive(r) \/ Fail(r) \/ KeepAnswer(r)
      PROVE  Keeps
  <2>1. UNCHANGED <<buffer, flushed>>
    BY <1>3 DEF Arrive, Hit, Miss, Bypass, NotAnObject, Fail, KeepAnswer, storeVars
  <2>2. \A q \in Requests :
          pc'[q] \in {"logged", "answered"} <=> pc[q] \in {"logged", "answered"}
    BY <1>3 DEF Arrive, Hit, Miss, Bypass, NotAnObject, Fail, KeepAnswer, Arrives, Answered, TypeOK
  <2>3. QED
    BY <2>1, <2>2 DEF Keeps, Log
<1>4. ASSUME NEW r \in Requests, LogCall(r)
      PROVE  Logs(r)
  <2>1. pc' = [pc EXCEPT ![r] = "logged"] \/ pc' = [pc EXCEPT ![r] = "answered"]
    BY <1>4 DEF LogCall, Answered
  <2>2. Log' = Append(Log, r) /\ flushed' = flushed /\ pc[r] = "forwarded"
    BY <1>4, EnqueueAppends DEF LogCall
  <2>3. QED
    BY <2>1, <2>2 DEF Logs, TypeOK
<1>5. QED
  BY <1>1, <1>2, <1>3, <1>4 DEF Next

-----------------------------------------------------------------------------
LEMMA LoggedOnceStep ==
    ASSUME TypeOK, LoggedOnce, [Next]_vars
    PROVE  LoggedOnce'
<1>1. CASE Keeps
  BY <1>1 DEF Keeps, LoggedOnce, Occurrences
<1>2. ASSUME NEW r \in Requests, Logs(r)
      PROVE  LoggedOnce'
  <2> SUFFICES ASSUME NEW q \in Requests
               PROVE  LoggedOnce!(q)'
    BY DEF LoggedOnce
  <2>1. /\ Len(Log) \in Nat
        /\ Len(Log') = Len(Log) + 1
        /\ \A i \in 1..Len(Log) : Log'[i] = Log[i]
        /\ Log'[Len(Log) + 1] = r
    BY <1>2, LogType, AppendProperties DEF Logs
  <2>2. CASE q = r
    <3>1. Occurrences(r) = {}
      BY <1>2 DEF Logs, LoggedOnce
    <3>2. Occurrences(r)' = {Len(Log) + 1}
      BY <2>1, <3>1 DEF Occurrences
    <3>3. QED
      BY <1>2, <2>1, <2>2, <3>2 DEF Logs
  <2>3. CASE q # r
    <3>1. Occurrences(q)' = Occurrences(q) /\ pc'[q] = pc[q]
      BY <1>2, <2>1, <2>3 DEF Occurrences, Logs
    <3>2. QED
      BY <2>1, <3>1 DEF LoggedOnce
  <2>4. QED
    BY <2>2, <2>3
<1>3. QED
  BY <1>1, <1>2, LogSteps

LEMMA LoggedOnceInit == Init => LoggedOnce
<1> SUFFICES ASSUME Init PROVE LoggedOnce
  OBVIOUS
<1>1. Log = <<>>
  BY DEF Init, StoreInit, Log
<1>2. \A r \in Requests : Occurrences(r) = {}
  BY <1>1 DEF Occurrences
<1>3. QED
  BY <1>2 DEF LoggedOnce, Init

(* One entry for each 200 from upstream and none for anything else, however*)
(* calls, hits, failures and flushes interleave (LogMiddleware).           *)
THEOREM EveryCallIsLoggedOnce == Spec => []LoggedOnce
<1>1. Init => TypeOK /\ LoggedOnce
  BY InitInv, LoggedOnceInit DEF IInv
<1>2. TypeOK /\ LoggedOnce /\ [Next]_vars => (TypeOK /\ LoggedOnce)'
  BY TypeStep, LoggedOnceStep
<1>3. QED
  BY <1>1, <1>2, PTL DEF Spec

-----------------------------------------------------------------------------
LEMMA JournalInit == Init => Journals!Init
  BY DEF Init, StoreInit, Log, Journals!Init

LEMMA JournalStep ==
    ASSUME TypeOK, LoggedOnce, [Next]_vars
    PROVE  [Journals!Next]_Journals!vars
<1>1. CASE Keeps
  <2>1. CASE Len(flushed') = Len(flushed)
    BY <1>1, <2>1 DEF Keeps, Journals!vars
  <2>2. CASE Len(flushed') # Len(flushed)
    <3>1. Len(flushed') = Len(Log) /\ Log' = Log
      BY <1>1, <2>2 DEF Keeps
    <3>2. Len(flushed) < Len(Log)
      BY <2>2, <3>1, LogType
    <3>3. Len(flushed') \in (Len(flushed) + 1)..Len(Log)
      BY <3>1, <3>2, LogType
    <3>4. QED
      BY <3>1, <3>2, <3>3 DEF Journals!Next, Journals!Publish
  <2>3. QED
    BY <2>1, <2>2
<1>2. ASSUME NEW r \in Requests, Logs(r)
      PROVE  Journals!Write(r)
  <2>1. Occurrences(r) = {}
    BY <1>2 DEF Logs, LoggedOnce
  <2>2. r \notin Journals!Written
    BY <2>1 DEF Occurrences, Journals!Written
  <2>3. QED
    BY <1>2, <2>2 DEF Logs, Journals!Write
<1>3. QED
  BY <1>1, <1>2, LogSteps DEF Journals!Next

(* The call log implements the journal: no interleaving of requests, flush *)
(* rounds and a shutdown loses, repeats or reorders an entry.              *)
THEOREM CachedImplementsJournal == Spec => ImplementsJournal
<1>1. Init => TypeOK /\ LoggedOnce
  BY InitInv, LoggedOnceInit DEF IInv
<1>2. TypeOK /\ LoggedOnce /\ [Next]_vars => (TypeOK /\ LoggedOnce)'
  BY TypeStep, LoggedOnceStep
<1>3. TypeOK /\ LoggedOnce /\ [Next]_vars => [Journals!Next]_Journals!vars
  BY JournalStep
<1>4. QED
  BY <1>1, <1>2, <1>3, JournalInit, PTL DEF Spec, ImplementsJournal, Journals!Spec

-----------------------------------------------------------------------------
(* The buffer stays empty after the shutdown event because nothing is in   *)
(* flight any more that could still be logged.                             *)
AllEnded == flusher \in {"stopping", "ended"} =>
    /\ buffer = <<>>
    /\ \A r \in Requests : pc[r] \notin InFlight

LEMMA AllEndedStep ==
    ASSUME TypeOK, AllEnded, [Next]_vars
    PROVE  AllEnded'
<1>1. CASE Flush
  BY <1>1 DEF Flush, FlushRound, Drain, AllEnded, requestVars
<1>2. CASE Shutdown
  BY <1>2 DEF Shutdown, StopFlusher, Drain, AllEnded, requestVars
<1>3. CASE Tick \/ UNCHANGED vars
  BY <1>3 DEF Tick, vars, storeVars, requestVars, AllEnded
<1>4. ASSUME NEW r \in Requests, Arrive(r)
      PROVE  AllEnded'
  BY <1>4 DEF Arrive, Hit, Miss, Bypass, NotAnObject, Arrives, storeVars, AllEnded
<1>5. ASSUME NEW r \in Requests, Fail(r) \/ KeepAnswer(r)
      PROVE  AllEnded'
  BY <1>5 DEF Fail, KeepAnswer, Answered, storeVars, AllEnded, InFlight, TypeOK
<1>6. ASSUME NEW r \in Requests, LogCall(r)
      PROVE  AllEnded'
  BY <1>6 DEF LogCall, Enqueue, AllEnded, InFlight
<1>7. QED
  BY <1>1, <1>2, <1>3, <1>4, <1>5, <1>6 DEF Next

(* The shutdown event leaves no entry in the buffer, and none is added     *)
(* afterwards (s11_call_logs/code.py, _stop_flusher).                      *)
THEOREM ShutdownDrains == Spec => []NothingLeftBehind
<1>1. Init => TypeOK /\ AllEnded
  BY InitInv DEF IInv, Init, StoreInit, AllEnded
<1>2. TypeOK /\ AllEnded /\ [Next]_vars => (TypeOK /\ AllEnded)'
  BY TypeStep, AllEndedStep
<1>3. AllEnded => NothingLeftBehind
  BY DEF AllEnded, NothingLeftBehind
<1>4. QED
  BY <1>1, <1>2, <1>3, PTL DEF Spec
-----------------------------------------------------------------------------
(***************************************************************************)
(* Chain: how far the handler has got at each point of the middlewares.    *)
(***************************************************************************)
QuotaTypeOK ==
    /\ balance \in [Users -> Nat]
    /\ stage \in [Requests -> Stages]
    /\ user \in [Requests -> Users \cup {None}]
    /\ estimate \in [Requests -> Nat]
    /\ prompt \in [Requests -> Nat]

StageAt == \A r \in Requests :
    /\ pc[r] \in {"idle", "hit"} => stage[r] = "none"
    /\ pc[r] = "forwarded" => stage[r] \in {"none", "posted", "settled"}
    /\ pc[r] \in {"logged", "answered"} => stage[r] = "settled"
    /\ pc[r] = "failed" => stage[r] \notin {"posted", "settled"}

(* Whoever has an estimate deducted is known.                              *)
UserKnown == \A r \in Requests : stage[r] # "none" => user[r] \in Users

-----------------------------------------------------------------------------
(* The handler's steps are those that CachedChat leaves open.              *)
LEMMA HandleIsStep ==
    ASSUME NEW r \in Requests, Handle(r)
    PROVE  Fail(r) \/ UNCHANGED vars
  BY DEF Handle, TurnedAway, InsufficientQuota, UnknownModel, Post, UpstreamFails,
         UnexpectedBody, Completed, Unrendered

LEMMA ChainStepIsStep ==
    ASSUME [ChainNext]_chainVars
    PROVE  [Next]_vars
<1>1. CASE Around
  BY <1>1 DEF Around, Next
<1>2. ASSUME NEW r \in Requests, Handle(r)
      PROVE  [Next]_vars
  BY <1>2, HandleIsStep DEF Next
<1>3. ASSUME NEW r \in Requests, LogAnswer(r)
      PROVE  [Next]_vars
  BY <1>3 DEF LogAnswer, Next
<1>4. CASE UNCHANGED chainVars
  BY <1>4 DEF chainVars
<1>5. QED
  BY <1>1, <1>2, <1>3, <1>4 DEF ChainNext

(* Whatever the handler answers and whenever, cache and log behave as      *)
(* CachedChat says.                                                        *)
THEOREM ChainRefinesCached == ChainSpec => Spec
<1>1. ChainInit => Init
  BY DEF ChainInit
<1>2. [ChainNext]_chainVars => [Next]_vars
  BY ChainStepIsStep
<1>3. QED
  BY <1>1, <1>2, PTL DEF ChainSpec, Spec

-----------------------------------------------------------------------------
(***************************************************************************)
(* What the arithmetic of s07 does to a balance.                           *)
(***************************************************************************)
LEMMA CoveredDeduct ==
    ASSUME NEW b \in Nat, NEW n \in Int, CanDeduct(b, n)
    PROVE  /\ n \in 0..b
           /\ Deducted(b, n) = b - n
           /\ b - n \in Nat
           /\ Refunded(Deducted(b, n), n) = b
  BY DEF CanDeduct, Deducted, Refunded

LEMMA EstimateInt ==
    ASSUME NEW p \in PromptTokens, NEW m \in MaxTokens
    PROVE  Estimate(p, m) \in Int
<1>1. p \in Int /\ DefaultMaxTokens \in Int /\ (m \in Int \/ m = None)
  BY ChainAssumption
<1>2. QED
  BY <1>1 DEF Estimate, RATE_PER_TOKEN

LEMMA SettledPrice ==
    ASSUME NEW b \in Nat, NEW n \in Nat, NEW actual \in Nat
    PROVE  \E price \in 0..(n + b) :
             /\ QuotaSettled(b, n, actual) = b + n - price
             /\ QuotaSettled(b, n, actual) \in Nat
<1>1. CASE actual > n /\ b < actual - n
  <2>1. QuotaSettled(b, n, actual) = b + n - n
    BY <1>1 DEF QuotaSettled, Deducted, CanDeduct
  <2>2. n \in 0..(n + b)
    OBVIOUS
  <2>3. QED
    BY <2>1, <2>2
<1>2. CASE ~(actual > n /\ b < actual - n)
  <2>1. QuotaSettled(b, n, actual) = b + n - actual
    BY <1>2 DEF QuotaSettled, Deducted, CanDeduct, Refunded
  <2>2. actual \in 0..(n + b)
    BY <1>2
  <2>3. QED
    BY <2>1, <2>2
<1>3. QED
  BY <1>1, <1>2

LEMMA ChargeNat ==
    ASSUME QuotaTypeOK, NEW r \in Requests, NEW reported \in UsageTokens,
           NEW completion \in (UsageTokens \ {None}) \cup ContentTokens
    PROVE  Charge(r, reported, completion) \in Nat
<1>1. completion \in Nat /\ prompt[r] \in Nat /\ (reported = None \/ reported \in Nat)
  BY ChainAssumption DEF QuotaTypeOK
<1>2. QED
  BY <1>1 DEF Charge, RATE_PER_TOKEN

-----------------------------------------------------------------------------
(***************************************************************************)
(* The four ways a step can treat the quota.                               *)
(***************************************************************************)
QuietHandler == UNCHANGED handlerVars

HoldStep(r) ==
    \E u \in Users : \E n \in 0..balance[u] :
        /\ stage[r] = "none"
        /\ balance' = [balance EXCEPT ![u] = balance[u] - n]
        /\ stage' = [stage EXCEPT ![r] = "posted"]
        /\ user' = [user EXCEPT ![r] = u]
        /\ estimate' = [estimate EXCEPT ![r] = n]
        /\ prompt' \in [Requests -> Nat]

(* The estimate is given back but for a price.                             *)
EndStep(r) ==
    \E how \in {"refunded", "settled", "unrendered", "stranded"},
       price \in 0..(estimate[r] + balance[user[r]]) :
        /\ stage[r] = "posted"
        /\ how = "refunded" => price = 0
        /\ balance' = [balance EXCEPT ![user[r]] = balance[user[r]] + estimate[r] - price]
        /\ stage' = [stage EXCEPT ![r] = how]
        /\ UNCHANGED <<user, estimate, prompt>>

LEMMA PostIsHoldStep ==
    ASSUME QuotaTypeOK, NEW r \in Requests, NEW u \in Users, NEW p \in PromptTokens,
           NEW n \in Int, Post(r, u, p, n)
    PROVE  HoldStep(r)
<1>1. balance[u] \in Nat /\ CanDeduct(balance[u], n)
  BY DEF QuotaTypeOK, Post
<1>2. n \in 0..balance[u] /\ Deducted(balance[u], n) = balance[u] - n
  BY <1>1, CoveredDeduct
<1>3. prompt' \in [Requests -> Nat]
  BY ChainAssumption DEF Post, QuotaTypeOK
<1>4. balance' = [balance EXCEPT ![u] = balance[u] - n]
  BY <1>2 DEF Post
<1>5. QED
  BY <1>2, <1>3, <1>4 DEF Post, Handling, HoldStep

LEMMA UnknownModelIsQuiet ==
    ASSUME QuotaTypeOK, NEW r \in Requests, NEW u \in Users, NEW n \in Int,
           UnknownModel(r, u, n)
    PROVE  QuietHandler
<1>1. balance[u] \in Nat /\ CanDeduct(balance[u], n)
  BY DEF QuotaTypeOK, UnknownModel
<1>2. Refunded(Deducted(balance[u], n), n) = balance[u]
  BY <1>1, CoveredDeduct
<1>3. balance' = [balance EXCEPT ![u] = balance[u]]
  BY <1>2 DEF UnknownModel
<1>4. balance' = balance
  BY <1>3 DEF QuotaTypeOK
<1>5. QED
  BY <1>4 DEF UnknownModel, QuietHandler, handlerVars

LEMMA UpstreamFailsIsEndStep ==
    ASSUME QuotaTypeOK, UserKnown, NEW r \in Requests, UpstreamFails(r)
    PROVE  EndStep(r)
<1>1. balance[user[r]] \in Nat /\ estimate[r] \in Nat
  BY DEF UpstreamFails, Handling, QuotaTypeOK, UserKnown
<1>2. 0 \in 0..(estimate[r] + balance[user[r]])
  BY <1>1
<1>3. Refunded(balance[user[r]], estimate[r]) = balance[user[r]] + estimate[r] - 0
  BY <1>1 DEF Refunded
<1>4. QED
  BY <1>2, <1>3 DEF UpstreamFails, Refund, Handling, Ends, EndStep

LEMMA UnexpectedBodyIsEndStep ==
    ASSUME QuotaTypeOK, UserKnown, NEW r \in Requests, UnexpectedBody(r)
    PROVE  EndStep(r)
<1>1. balance[user[r]] \in Nat /\ estimate[r] \in Nat
  BY DEF UnexpectedBody, Handling, QuotaTypeOK, UserKnown
<1>2. estimate[r] \in 0..(estimate[r] + balance[user[r]])
      /\ balance[user[r]] + estimate[r] - estimate[r] = balance[user[r]]
  BY <1>1
<1>3. balance' = [balance EXCEPT ![user[r]] = balance[user[r]]]
  BY DEF UnexpectedBody, QuotaTypeOK
<1>4. balance' = [balance EXCEPT ![user[r]] = balance[user[r]] + estimate[r] - estimate[r]]
  BY <1>2, <1>3
<1>5. QED
  BY <1>2, <1>4 DEF UnexpectedBody, Handling, Ends, EndStep

LEMMA SettlingIsEndStep ==
    ASSUME QuotaTypeOK, UserKnown, NEW r \in Requests, NEW reported \in UsageTokens,
           NEW completion \in (UsageTokens \ {None}) \cup ContentTokens,
           Completed(r, reported, completion) \/ Unrendered(r, reported, completion)
    PROVE  EndStep(r)
<1>0. /\ Settle(r, reported, completion)
      /\ \E how \in {"settled", "unrendered"} : Ends(r, how)
  BY DEF Completed, Unrendered
<1>1. balance[user[r]] \in Nat /\ estimate[r] \in Nat
  BY <1>0 DEF Settle, Handling, QuotaTypeOK, UserKnown
<1>2. Charge(r, reported, completion) \in Nat
  BY ChargeNat
<1>3. \A b, n, actual \in Nat : \E price \in 0..(n + b) : QuotaSettled(b, n, actual) = b + n - price
  BY SettledPrice
<1>4. PICK price \in 0..(estimate[r] + balance[user[r]]) :
        QuotaSettled(balance[user[r]], estimate[r], Charge(r, reported, completion))
          = balance[user[r]] + estimate[r] - price
  BY <1>1, <1>2, <1>3
<1>5. balance' = [balance EXCEPT ![user[r]] = balance[user[r]] + estimate[r] - price]
  BY <1>0, <1>4 DEF Settle
<1>6. QED
  BY <1>0, <1>5 DEF Settle, Handling, Ends, EndStep

LEMMA QuotaSteps ==
    ASSUME QuotaTypeOK, UserKnown, [ChainNext]_chainVars
    PROVE  QuietHandler \/ \E r \in Requests : HoldStep(r) \/ EndStep(r)
<1>1. CASE Around \/ UNCHANGED chainVars
  BY <1>1 DEF Around, chainVars, QuietHandler
<1>2. ASSUME NEW r \in Requests, LogAnswer(r)
      PROVE  QuietHandler
  BY <1>2 DEF LogAnswer, QuietHandler
<1>3. ASSUME NEW r \in Requests, Handle(r)
      PROVE  QuietHandler \/ HoldStep(r) \/ EndStep(r)
  <2>1. CASE TurnedAway(r)
    BY <2>1 DEF TurnedAway, QuietHandler
  <2>2. ASSUME NEW u \in Users, NEW p \in PromptTokens, NEW m \in MaxTokens,
               InsufficientQuota(r, u, Estimate(p, m))
        PROVE  QuietHandler
    BY <2>2 DEF InsufficientQuota, QuietHandler
  <2>3. ASSUME NEW u \in Users, NEW p \in PromptTokens, NEW m \in MaxTokens,
               UnknownModel(r, u, Estimate(p, m))
        PROVE  QuietHandler
    BY <2>3, EstimateInt, UnknownModelIsQuiet
  <2>4. ASSUME NEW u \in Users, NEW p \in PromptTokens, NEW m \in MaxTokens,
               Post(r, u, p, Estimate(p, m))
        PROVE  HoldStep(r)
    BY <2>4, EstimateInt, PostIsHoldStep
  <2>5. CASE UpstreamFails(r)
    BY <2>5, UpstreamFailsIsEndStep
  <2>6. CASE UnexpectedBody(r)
    BY <2>6, UnexpectedBodyIsEndStep
  <2>7. ASSUME NEW reported \in UsageTokens,
               NEW completion \in (UsageTokens \ {None}) \cup ContentTokens,
               Completed(r, reported, completion) \/ Unrendered(r, reported, completion)
        PROVE  EndStep(r)
    BY <2>7, SettlingIsEndStep
  <2>8. QED
    BY <1>3, <2>1, <2>2, <2>3, <2>4, <2>5, <2>6, <2>7 DEF Handle
<1>4. QED
  BY <1>1, <1>2, <1>3 DEF ChainNext

-----------------------------------------------------------------------------
LEMMA QuotaTypeInit == ChainInit => QuotaTypeOK /\ UserKnown /\ StageAt
  BY ChainAssumption DEF ChainInit, Init, QuotaTypeOK, UserKnown, StageAt, Stages

LEMMA QuotaTypeStep ==
    ASSUME QuotaTypeOK, UserKnown, [ChainNext]_chainVars
    PROVE  QuotaTypeOK' /\ UserKnown'
<1>1. CASE QuietHandler
  BY <1>1 DEF QuietHandler, handlerVars, QuotaTypeOK, UserKnown
<1>2. ASSUME NEW r \in Requests, HoldStep(r)
      PROVE  QuotaTypeOK' /\ UserKnown'
  <2>0. PICK u \in Users : \E n \in 0..balance[u] :
          /\ balance' = [balance EXCEPT ![u] = balance[u] - n]
          /\ stage' = [stage EXCEPT ![r] = "posted"]
          /\ user' = [user EXCEPT ![r] = u]
          /\ estimate' = [estimate EXCEPT ![r] = n]
          /\ prompt' \in [Requests -> Nat]
    BY <1>2 DEF HoldStep
  <2>1. PICK n \in 0..balance[u] :
          /\ balance' = [balance EXCEPT ![u] = balance[u] - n]
          /\ stage' = [stage EXCEPT ![r] = "posted"]
          /\ user' = [user EXCEPT ![r] = u]
          /\ estimate' = [estimate EXCEPT ![r] = n]
          /\ prompt' \in [Requests -> Nat]
    BY <2>0
  <2>2. balance[u] \in Nat /\ n \in Nat /\ balance[u] - n \in Nat
    BY DEF QuotaTypeOK
  <2>3. QED
    BY <2>1, <2>2 DEF QuotaTypeOK, UserKnown, Stages
<1>3. ASSUME NEW r \in Requests, EndStep(r)
      PROVE  QuotaTypeOK' /\ UserKnown'
  <2>1. user[r] \in Users /\ balance[user[r]] \in Nat /\ estimate[r] \in Nat
    BY <1>3 DEF EndStep, QuotaTypeOK, UserKnown
  <2>2. PICK how \in {"refunded", "settled", "unrendered", "stranded"},
             price \in 0..(estimate[r] + balance[user[r]]) :
          /\ balance' = [balance EXCEPT ![user[r]] = balance[user[r]] + estimate[r] - price]
          /\ stage' = [stage EXCEPT ![r] = how]
          /\ UNCHANGED <<user, estimate, prompt>>
          /\ stage[r] = "posted"
    BY <1>3 DEF EndStep
  <2>3. balance[user[r]] + estimate[r] - price \in Nat
    BY <2>1
  <2>4. QED
    BY <2>1, <2>2, <2>3 DEF QuotaTypeOK, UserKnown, Stages
<1>4. QED
  BY <1>1, <1>2, <1>3, QuotaSteps

(* The cache, the log and the balances keep their types: no interleaving   *)
(* of pre-consumes, refunds and settlements overdraws a balance.           *)
THEOREM ChainTypeCorrect == ChainSpec => []ChainTypeOK
<1>1. ChainInit => QuotaTypeOK /\ UserKnown
  BY QuotaTypeInit
<1>2. QuotaTypeOK /\ UserKnown /\ [ChainNext]_chainVars => (QuotaTypeOK /\ UserKnown)'
  BY QuotaTypeStep
<1>3. TypeOK /\ QuotaTypeOK => ChainTypeOK
  BY DEF QuotaTypeOK, ChainTypeOK
<1>4. QED
  BY <1>1, <1>2, <1>3, ChainRefinesCached, CachedTypeCorrect, PTL DEF ChainSpec

-----------------------------------------------------------------------------
(* A step that the handler has no part in leaves stages alone.             *)
LEMMA AroundKeepsStages ==
    ASSUME TypeOK, StageAt, Around
    PROVE  StageAt'
<1>1. stage' = stage
  BY DEF Around, handlerVars
<1>2. CASE Flush \/ Shutdown \/ Tick
  BY <1>1, <1>2 DEF Flush, Shutdown, Tick, requestVars, StageAt
<1>3. ASSUME NEW r \in Requests, Arrive(r)
      PROVE  StageAt'
  <2>1. pc[r] = "idle" /\ \E to \in {"hit", "forwarded", "failed"} : pc' = [pc EXCEPT ![r] = to]
    BY <1>3 DEF Arrive, Hit, Miss, Bypass, NotAnObject, Arrives, Answered
  <2>2. QED
    BY <1>1, <2>1 DEF StageAt, TypeOK
<1>4. ASSUME NEW r \in Requests, KeepAnswer(r)
      PROVE  StageAt'
  <2>1. pc[r] = "logged" /\ pc' = [pc EXCEPT ![r] = "answered"]
    BY <1>4 DEF KeepAnswer, Answered
  <2>2. QED
    BY <1>1, <2>1 DEF StageAt, TypeOK
<1>5. QED
  BY <1>2, <1>3, <1>4 DEF Around

LEMMA StageStep ==
    ASSUME TypeOK, QuotaTypeOK, StageAt, [ChainNext]_chainVars
    PROVE  StageAt'
<1>1. CASE UNCHANGED chainVars
  BY <1>1 DEF chainVars, vars, handlerVars, StageAt
<1>2. ASSUME NEW r \in Requests, LogAnswer(r)
      PROVE  StageAt'
  <2>1. /\ stage[r] = "settled" /\ stage' = stage
        /\ pc' = [pc EXCEPT ![r] = "logged"] \/ pc' = [pc EXCEPT ![r] = "answered"]
    BY <1>2 DEF LogAnswer, LogCall, Answered, handlerVars
  <2>2. QED
    BY <2>1 DEF StageAt, TypeOK
<1>3. ASSUME NEW r \in Requests, Handle(r)
      PROVE  StageAt'
  <2>1. pc[r] = "forwarded"
    BY <1>3 DEF Handle, TurnedAway, InsufficientQuota, UnknownModel, Post, UpstreamFails,
                UnexpectedBody, Completed, Unrendered, Settle, Handling
  <2>2. \/ /\ pc' = [pc EXCEPT ![r] = "failed"]
           /\ stage' = stage /\ stage[r] = "none"
        \/ /\ pc' = [pc EXCEPT ![r] = "failed"]
           /\ \E how \in {"refunded", "unrendered", "stranded"} : stage' = [stage EXCEPT ![r] = how]
        \/ /\ pc' = pc
           /\ \E how \in {"posted", "settled"} : stage' = [stage EXCEPT ![r] = how]
    BY <1>3 DEF Handle, TurnedAway, InsufficientQuota, UnknownModel, Post, UpstreamFails,
                UnexpectedBody, Completed, Unrendered, Settle, Handling, Ends, Fail, vars,
                handlerVars
  <2>3. QED
    BY <2>1, <2>2 DEF StageAt, TypeOK, QuotaTypeOK
<1>4. QED
  BY <1>1, <1>2, <1>3, AroundKeepsStages DEF ChainNext

LEMMA PaidByStage ==
    ASSUME TypeOK, StageAt, LoggedOnce, HitsAreFresh
    PROVE  LoggedIsPaid
<1> SUFFICES ASSUME NEW r \in Requests
             PROVE  LoggedIsPaid!(r)
  BY DEF LoggedIsPaid
<1>1. IF pc[r] \in {"logged", "answered"}
      THEN \E i \in 1..Len(Log) : Occurrences(r) = {i}
      ELSE Occurrences(r) = {}
  BY DEF LoggedOnce
<1>2. stage[r] = "settled" /\ pc[r] # "forwarded" <=> pc[r] \in {"logged", "answered"}
  BY DEF StageAt, TypeOK, InFlight, Ended
<1>3. pc[r] = "hit" => answer[r] \in Requests /\ pc[answer[r]] = "answered"
  BY DEF HitsAreFresh
<1>4. pc[r] = "hit" => stage[r] = "none" /\ stage[answer[r]] = "settled"
  BY <1>3 DEF StageAt
<1>5. QED
  BY <1>1, <1>2, <1>4 DEF StageAt

(* Log, cache and quota agree at every step: what is logged was paid, what *)
(* was paid and could be written out is logged once its answer passes the  *)
(* middleware, a failed call is on no log whether it was paid or not, and  *)
(* hits cost nothing but were paid for by the call whose answer they       *)
(* repeat.                                                                 *)
THEOREM LoggedIsAlwaysPaid == ChainSpec => []LoggedIsPaid
<1> DEFINE Inv == QuotaTypeOK /\ UserKnown /\ StageAt
<1>1. ChainInit => Inv
  BY QuotaTypeInit
<1>2. TypeOK /\ Inv /\ [ChainNext]_chainVars => Inv'
  BY QuotaTypeStep, StageStep
<1>3. TypeOK /\ Inv /\ LoggedOnce /\ HitsAreFresh => LoggedIsPaid
  BY PaidByStage
<1>4. QED
  BY <1>1, <1>2, <1>3, ChainRefinesCached, CachedTypeCorrect, EveryCallIsLoggedOnce,
     HitsAreAlwaysFresh, PTL DEF ChainSpec

-----------------------------------------------------------------------------
(***************************************************************************)
(* The handler of the chapters implements the ledger.                      *)
(***************************************************************************)
LEMMA LedgerInit == ChainInit => Quotas!Init
  BY DEF ChainInit, Quotas!Init, Phase, Held

LEMMA HoldIsHold ==
    ASSUME QuotaTypeOK, NEW r \in Requests, HoldStep(r)
    PROVE  Quotas!Next
<1>1. PICK u \in Users : \E n \in 0..balance[u] :
        /\ stage[r] = "none"
        /\ balance' = [balance EXCEPT ![u] = balance[u] - n]
        /\ stage' = [stage EXCEPT ![r] = "posted"]
        /\ user' = [user EXCEPT ![r] = u]
        /\ estimate' = [estimate EXCEPT ![r] = n]
  BY DEF HoldStep
<1>2. PICK n \in 0..balance[u] :
        /\ stage[r] = "none"
        /\ balance' = [balance EXCEPT ![u] = balance[u] - n]
        /\ stage' = [stage EXCEPT ![r] = "posted"]
        /\ user' = [user EXCEPT ![r] = u]
        /\ estimate' = [estimate EXCEPT ![r] = n]
  BY <1>1
<1>3. balance[u] \in Nat /\ n <= balance[u]
  BY DEF QuotaTypeOK
<1>4. Phase[r] = "none" /\ Phase' = [Phase EXCEPT ![r] = "holding"]
  BY <1>2 DEF Phase, QuotaTypeOK
<1>5. Held' = [Held EXCEPT ![r] = n]
  BY <1>2 DEF Held, QuotaTypeOK
<1>6. Quotas!Hold(r, u, n)
  BY <1>2, <1>3, <1>4, <1>5 DEF Quotas!Hold
<1>7. QED
  BY <1>6 DEF Quotas!Next

LEMMA EndIsReleaseOrCapture ==
    ASSUME QuotaTypeOK, UserKnown, NEW r \in Requests, EndStep(r)
    PROVE  Quotas!Next
<1>1. PICK how \in {"refunded", "settled", "unrendered", "stranded"},
           price \in 0..(estimate[r] + balance[user[r]]) :
        /\ stage[r] = "posted"
        /\ how = "refunded" => price = 0
        /\ balance' = [balance EXCEPT ![user[r]] = balance[user[r]] + estimate[r] - price]
        /\ stage' = [stage EXCEPT ![r] = how]
        /\ UNCHANGED <<user, estimate, prompt>>
  BY DEF EndStep
<1>2. user[r] \in Users /\ balance[user[r]] \in Nat /\ estimate[r] \in Nat
  BY <1>1 DEF QuotaTypeOK, UserKnown
<1>3. Phase[r] = "holding" /\ Held[r] = estimate[r]
  BY <1>1 DEF Phase, Held
<1>4. Held' = [Held EXCEPT ![r] = 0]
  BY <1>1 DEF Held, QuotaTypeOK
<1>5. CASE how = "refunded"
  <2>1. Phase' = [Phase EXCEPT ![r] = "released"]
    BY <1>1, <1>5 DEF Phase, QuotaTypeOK
  <2>2. balance[user[r]] + estimate[r] - price = balance[user[r]] + Held[r]
    BY <1>1, <1>2, <1>3, <1>5
  <2>3. Quotas!Release(r)
    BY <1>1, <1>3, <1>4, <2>1, <2>2 DEF Quotas!Release
  <2>4. QED
    BY <2>3 DEF Quotas!Next
<1>6. CASE how # "refunded"
  <2>1. Phase' = [Phase EXCEPT ![r] = "captured"]
    BY <1>1, <1>6 DEF Phase, QuotaTypeOK
  <2>2. price \in 0..(Held[r] + balance[user[r]]) /\ price <= Held[r] + balance[user[r]]
    BY <1>2, <1>3
  <2>3. Quotas!Capture(r, price)
    BY <1>1, <1>3, <1>4, <2>1, <2>2 DEF Quotas!Capture
  <2>4. QED
    BY <1>2, <2>2, <2>3 DEF Quotas!Next
<1>7. QED
  BY <1>5, <1>6

(* Each request of the chapters' gateway holds its estimate once and ends  *)
(* it once, and no other step of cache, log or handler moves a balance.    *)
THEOREM ChainImplementsLedger == ChainSpec => ImplementsLedger
<1>1. QuotaTypeOK /\ UserKnown /\ [ChainNext]_chainVars
        => [Quotas!Next]_(Quotas!ledgerVars)
  <2>1. ASSUME QuietHandler PROVE UNCHANGED Quotas!ledgerVars
    BY <2>1 DEF QuietHandler, handlerVars, Quotas!ledgerVars, Phase, Held
  <2>2. QED
    BY <2>1, QuotaSteps, HoldIsHold, EndIsReleaseOrCapture
<1>2. ChainInit => QuotaTypeOK /\ UserKnown
  BY QuotaTypeInit
<1>3. QuotaTypeOK /\ UserKnown /\ [ChainNext]_chainVars => (QuotaTypeOK /\ UserKnown)'
  BY QuotaTypeStep
<1>4. QED
  BY <1>1, <1>2, <1>3, LedgerInit, PTL DEF ChainSpec, ImplementsLedger, Quotas!Spec

-----------------------------------------------------------------------------
(***************************************************************************)
(* What follows from the refinement of the ledger: LedgerProofs' theorems, *)
(* read of this handler.                                                   *)
(***************************************************************************)
Holds == INSTANCE LedgerProofs WITH
    NoUser <- None, funds <- balance, owner <- user, phase <- Phase, held <- Held

LEMMA SameLedger == Quotas!Spec => Holds!Spec
<1>1. Quotas!Init => Holds!Init
  BY DEF Quotas!Init, Holds!Init
<1>2. [Quotas!Next]_(Quotas!ledgerVars) => [Holds!Next]_(Holds!ledgerVars)
  BY DEF Quotas!Next, Quotas!Hold, Quotas!Capture, Quotas!Release, Quotas!ledgerVars,
         Holds!Next, Holds!Hold, Holds!Capture, Holds!Release, Holds!ledgerVars
<1>3. QED
  BY <1>1, <1>2, PTL DEF Quotas!Spec, Holds!Spec

(* However calls overlap, fail or are answered behind cache and log, no    *)
(* user's balance and open estimates are together more than the deposit,   *)
(* and no estimate is refunded or settled twice (s07's quota.py, called by *)
(* s08's handler).                                                         *)
THEOREM ChainNobodyGains == ChainSpec => []Holds!Covered /\ Holds!EndsOnce
<1>1. Holds!Spec => []Holds!Covered
  BY Holds!LedgerCovers, ChatAssumption, ChainAssumption DEF Requests, Holds!Numbered
<1>2. QED
  BY <1>1, Holds!HoldsEndOnce, SameLedger, ChainImplementsLedger, PTL DEF ImplementsLedger

-----------------------------------------------------------------------------
(* Cache and log keep their promises around s08's handler, whatever it     *)
(* answers and however long it takes.                                      *)
THEOREM ChainKeepsCacheAndLog ==
    ChainSpec => []HitsAreFresh /\ []LoggedOnce /\ []NothingLeftBehind /\ ImplementsJournal
  BY ChainRefinesCached, HitsAreAlwaysFresh, EveryCallIsLoggedOnce, ShutdownDrains,
     CachedImplementsJournal, PTL
=============================================================================
