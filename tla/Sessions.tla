------------------------------ MODULE Sessions ------------------------------
(***************************************************************************)
(* What accounts and sessions promise, each step a single instant: an      *)
(* address gets one account and keeps it, a session is opened only by      *)
(* somebody who gives the address and the password of an account, it lasts *)
(* a fixed time, and signing out ends it until the process ends.           *)
(*                                                                         *)
(* A session is whose it is and until when it lasts: sessions opened for   *)
(* one account in the same second are one, and end together.               *)
(***************************************************************************)
EXTENDS Naturals

CONSTANTS Credentials,   \* records with an email and a password
          Requests, TTL, None

VARIABLES accounts,   \* the credentials that open a session
          clock,
          session,    \* what the request opened, or None
          ended       \* the sessions signed out since the start

vars == <<accounts, clock, session, ended>>

Init ==
    /\ accounts = {}
    /\ clock = 0
    /\ session = [r \in Requests |-> None]
    /\ ended = {}

Open(a) == [account |-> a, until |-> clock + TTL]

SignUp(a) ==
    /\ \A b \in accounts : b.email # a.email
    /\ accounts' = accounts \cup {a}
    /\ UNCHANGED <<clock, session, ended>>

SignIn(r) ==
    /\ session[r] = None
    /\ \E a \in accounts : session' = [session EXCEPT ![r] = Open(a)]
    /\ UNCHANGED <<accounts, clock, ended>>

SignOut(r) ==
    /\ session[r] # None
    /\ ended' = ended \cup {session[r]}
    /\ UNCHANGED <<accounts, clock, session>>

Tick ==
    /\ clock' = clock + 1
    /\ UNCHANGED <<accounts, session, ended>>

Restart ==
    /\ ended' = {}
    /\ UNCHANGED <<accounts, clock, session>>

Next ==
    \/ Tick
    \/ Restart
    \/ \E a \in Credentials : SignUp(a)
    \/ \E r \in Requests : SignIn(r) \/ SignOut(r)

Spec == Init /\ [][Next]_vars

(* A request with this session is let in.                                  *)
Valid(s) == s \notin ended /\ clock < s.until
=============================================================================
