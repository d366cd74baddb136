---------------------------- MODULE CachedClaims ----------------------------
(***************************************************************************)
(* What the repository says of the call log and the code does not do.      *)
(***************************************************************************)
EXTENDS MCChain

(* "After each successful call, enqueues a log row [...] A background task *)
(* flushes every 100ms" (s11_call_logs/code.py:3-5), and with s12 around   *)
(* it "the log fields land as usual" (s12_caching/README.md:254).  Under   *)
(* s12 the startup event of s11 never runs, and no row is ever listed.     *)
LogRowsLand == \A r \in Requests : pc[r] = "answered" ~> r \in Listed
=============================================================================
