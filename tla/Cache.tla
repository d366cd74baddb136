-------------------------------- MODULE Cache --------------------------------
(***************************************************************************)
(* The exact-match response cache of s12 (s12_caching/cache.py).  A key is *)
(* the digest of the request's JSON: here the payload itself.  Time is the *)
(* monotonic clock that get and set read.  An expired entry goes when it   *)
(* is looked up, never otherwise.                                          *)
(***************************************************************************)
EXTENDS Integers

CONSTANTS Payloads,   \* request bodies
          TTL,        \* ttl_seconds
          None

ASSUME CacheAssumption == TTL \in Nat

VARIABLES now,        \* time.monotonic()
          store       \* _store: an entry [expires, value] or None per key

CacheInit ==
    /\ now = 0
    /\ store = [p \in Payloads |-> None]

-----------------------------------------------------------------------------
(* Fault for the mutation run: get without its test of the expiry.         *)
Unexpired(p) == store[p] # None

-----------------------------------------------------------------------------
(* get finds an entry: one that expires at this very reading is served.    *)
Fresh(p) == store[p] # None /\ store[p].expires >= now

(* get finds none, or one that has expired and is dropped.                 *)
Drop(p) ==
    /\ ~Fresh(p)
    /\ store' = [store EXCEPT ![p] = None]

Put(p, value) == store' = [store EXCEPT ![p] = [expires |-> now + TTL, value |-> value]]
=============================================================================
